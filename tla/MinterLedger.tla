---------------------------- MODULE MinterLedger ----------------------------
(***************************************************************************)
(* src/resource_minter.rs: the ledger under MinterKey (balances,           *)
(* circulating supply, units ever minted), its primitives and minting with *)
(* its rate limit, daily operation cap and daily volume curve. (Minting    *)
(* also adds activity points, which module AntiWhale keeps.)               *)
(***************************************************************************)
EXTENDS AntiWhaleCurves, FiniteSetsExt

CONSTANTS Player, Resource,
          Amount,      \* amounts callers pass
          TierWidth,   \* DEFAULT_TIER_WIDTH
          DailyCap,    \* get_daily_cap
          MintsPerDay, \* max_mints_per_day
          WindowCalls, \* the minting rate limit's max_calls
          MaxMinted    \* bound: units ever minted of a resource

VARIABLES balance,   \* MinterKey::Balance
          supply,    \* MinterKey::TotalSupply
          minted,    \* MinterKey::TotalMinted
          inWindow,  \* calls in the current rate-limit window
          mints,     \* DailyOps(_, Mint, today)
          volume     \* DailyVolume(_, today)

ledger == <<balance, supply, minted>>
limits == <<inWindow, mints, volume>>

MinterInit ==
  /\ balance = [p \in Player |-> [r \in Resource |-> 0]]
  /\ supply = [r \in Resource |-> 0]
  /\ minted = [r \in Resource |-> 0]
  /\ inWindow = [p \in Player |-> 0]
  /\ mints = [p \in Player |-> 0]
  /\ volume = [p \in Player |-> 0]

\* The three checked additions of a mint, and of credit_balance.
Credit(p, r, n) ==
  /\ minted[r] + n <= MaxMinted
  /\ balance[p][r] + n <= MaxU64 /\ supply[r] + n <= MaxU64 /\ minted[r] + n <= MaxU64
  /\ balance' = [balance EXCEPT ![p][r] = @ + n]
  /\ supply' = [supply EXCEPT ![r] = @ + n]
  /\ minted' = [minted EXCEPT ![r] = @ + n]

\* credit_balance, on behalf of a reward path
CreditBalance(p, r, n) == n # 0 /\ Credit(p, r, n) /\ UNCHANGED limits

\* mint_resource: rate limit, operation cap, volume cap, then the ledger.
MintResource(p, r, n) ==
  LET effective == DiminishingReturns(volume[p], n, TierWidth)
  IN  /\ n # 0
      /\ inWindow[p] < WindowCalls
      /\ mints[p] < MintsPerDay
      /\ volume[p] + n <= DailyCap
      /\ Credit(p, r, effective)
      /\ inWindow' = [inWindow EXCEPT ![p] = @ + 1]
      /\ mints' = [mints EXCEPT ![p] = @ + 1]
      /\ volume' = [volume EXCEPT ![p] = @ + n]

\* Time passes: a new rate-limit window, or a new day.
NextWindow == inWindow' = [p \in Player |-> 0] /\ UNCHANGED <<ledger, mints, volume>>
NextDay ==
  /\ inWindow' = [p \in Player |-> 0]
  /\ mints' = [p \in Player |-> 0]
  /\ volume' = [p \in Player |-> 0]
  /\ UNCHANGED ledger

MinterStep(p, r, n) == MintResource(p, r, n) \/ CreditBalance(p, r, n)

Held(r) == MapThenSumSet(LAMBDA p : balance[p][r], Player)

MinterTypeOK ==
  /\ balance \in [Player -> [Resource -> 0 .. MaxU64]]
  /\ supply \in [Resource -> 0 .. MaxU64]
  /\ minted \in [Resource -> 0 .. MaxU64]
  /\ inWindow \in [Player -> 0 .. WindowCalls]
  /\ mints \in [Player -> 0 .. MintsPerDay]
  /\ volume \in [Player -> 0 .. DailyCap]
=============================================================================
