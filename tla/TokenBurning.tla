---------------------------- MODULE TokenBurning ----------------------------
(***************************************************************************)
(* src/token_burning.rs over the minter's ledger: voluntary and sink       *)
(* burns, transfers that burn a fee, and the burn statistics.              *)
(***************************************************************************)
EXTENDS MinterLedger

CONSTANTS Admin,
          BpsDenominator,  \* BPS_DENOMINATOR
          MaxFeeBps,       \* MAX_BURN_FEE_BPS
          DefaultFeeBps,   \* DEFAULT_BURN_FEE_BPS
          FeeBps           \* rates an admin tries to set

VARIABLES feeAdmin,     \* BurnKey::FeeAdmin
          feeBps,       \* BurnKey::FeeBps
          totalBurned,  \* BurnKey::TotalBurned
          burnedBy,     \* BurnKey::PlayerBurnedType; PlayerBurned is its sum
          burnCount,    \* BurnKey::PlayerBurnCount; BurnCount is their sum
          records       \* BurnKey::Record, as [burner, resource, amount, supply_after]

burns == <<totalBurned, burnedBy, burnCount, records>>
vars == <<ledger, limits, feeAdmin, feeBps, burns>>

Init ==
  /\ MinterInit
  /\ feeAdmin = "none"
  /\ feeBps = DefaultFeeBps
  /\ totalBurned = [r \in Resource |-> 0]
  /\ burnedBy = [p \in Player |-> [r \in Resource |-> 0]]
  /\ burnCount = [p \in Player |-> 0]
  /\ records = << >>

\* initialize_burn_admin
InitializeBurnAdmin(a) ==
  /\ feeAdmin = "none"
  /\ feeAdmin' = a
  /\ UNCHANGED <<ledger, limits, feeBps, burns>>

\* set_burn_fee_bps
SetBurnFeeBps(caller, bps) ==
  /\ bps <= MaxFeeBps
  /\ caller = feeAdmin
  /\ feeBps' = bps
  /\ UNCHANGED <<ledger, limits, feeAdmin, burns>>

\* record_burn
RecordBurn(p, r, n, supply_after) ==
  /\ totalBurned[r] + n <= MaxU64
  /\ totalBurned' = [totalBurned EXCEPT ![r] = @ + n]
  /\ burnedBy' = [burnedBy EXCEPT ![p][r] = @ + n]
  /\ burnCount' = [burnCount EXCEPT ![p] = @ + 1]
  /\ records' = Append(records, [burner |-> p, resource |-> r, amount |-> n,
                                 supply_after |-> supply_after])

\* burn_for_sink, and burn: debit_balance, reduce_supply, record_burn
BurnForSink(p, r, n) ==
  /\ n # 0
  /\ balance[p][r] >= n
  /\ supply[r] >= n
  /\ balance' = [balance EXCEPT ![p][r] = @ - n]
  /\ supply' = [supply EXCEPT ![r] = @ - n]
  /\ RecordBurn(p, r, n, supply[r] - n)
  /\ UNCHANGED <<minted, limits, feeAdmin, feeBps>>

\* apply_deflationary_fee
Fee(gross) == (gross * feeBps) \div BpsDenominator

\* Mutant: the recipient gets the gross amount.
TransferWithBurnGross(from, to, r, n) ==
  /\ n # 0 /\ balance[from][r] >= n /\ from # to
  /\ balance' = [balance EXCEPT ![from][r] = @ - n, ![to][r] = @ + n]
  /\ Fee(n) > 0
  /\ supply' = [supply EXCEPT ![r] = @ - Fee(n)]
  /\ RecordBurn(from, r, Fee(n), supply[r] - Fee(n))
  /\ UNCHANGED <<minted, limits, feeAdmin, feeBps>>

\* transfer_with_burn: the fee is burned from the sender, the net moved; a
\* transfer to oneself only burns the fee (move_balance).
TransferWithBurn(from, to, r, n) ==
  LET fee == Fee(n)
      net == n - fee
  IN  /\ n # 0
      /\ balance[from][r] >= n
      /\ supply[r] >= fee
      /\ IF fee = 0
         THEN UNCHANGED <<supply, burns>>
         ELSE /\ supply' = [supply EXCEPT ![r] = @ - fee]
              /\ RecordBurn(from, r, fee, supply[r] - fee)
      /\ net # 0
      /\ IF from = to
         THEN balance' = [balance EXCEPT ![from][r] = @ - fee]
         ELSE /\ balance[to][r] + net <= MaxU64
              /\ balance' = [balance EXCEPT ![from][r] = @ - n, ![to][r] = @ + net]
      /\ UNCHANGED <<minted, limits, feeAdmin, feeBps>>

Next ==
  \/ (NextWindow \/ NextDay) /\ UNCHANGED <<feeAdmin, feeBps, burns>>
  \/ \E a \in Admin : InitializeBurnAdmin(a)
  \/ \E a \in Admin, b \in FeeBps : SetBurnFeeBps(a, b)
  \/ \E p \in Player, r \in Resource, n \in Amount :
       \/ MinterStep(p, r, n) /\ UNCHANGED <<feeAdmin, feeBps, burns>>
       \/ BurnForSink(p, r, n)
       \/ \E to \in Player : TransferWithBurn(p, to, r, n)

Spec == Init /\ [][Next]_vars

\* Types; the fee rate never exceeds MAX_BURN_FEE_BPS (set_burn_fee_bps).
TypeOK ==
  /\ MinterTypeOK
  /\ feeBps \in 0 .. MaxFeeBps
  /\ totalBurned \in [Resource -> 0 .. MaxU64]

\* A resource's circulating supply is what its holders hold, through every
\* mix of mints, rewards, burns and transfers with fees (debit_balance and
\* reduce_supply are two calls; move_balance touches no counter).
SupplyIsHeld == \A r \in Resource : supply[r] = Held(r)

\* "burned / ever_minted ... is exact": every unit ever minted is in
\* circulation or was burned (record_burn, deflation_rate_bps).
MintedIsSupplyPlusBurned == \A r \in Resource : minted[r] = supply[r] + totalBurned[r]

\* The statistics agree with the receipts: per resource, per player and per
\* burn (record_burn).
StatsAgreeWithReceipts ==
  LET ids(P(_)) == {i \in DOMAIN records : P(records[i])}
      sum(S) == MapThenSumSet(LAMBDA i : records[i].amount, S)
  IN  /\ \A r \in Resource : totalBurned[r] = sum(ids(LAMBDA b : b.resource = r))
      /\ \A p \in Player :
           /\ burnCount[p] = Cardinality(ids(LAMBDA b : b.burner = p))
           /\ \A r \in Resource :
                burnedBy[p][r] = sum(ids(LAMBDA b : b.burner = p /\ b.resource = r))
=============================================================================
