--------------------------- MODULE TreasureVault ---------------------------
(***************************************************************************)
(* src/treasure_vault.rs: time-locked vaults that pay their amount and a   *)
(* bonus once.  The reentrancy guard around both entry points is modelled  *)
(* in ReentrancyGuard.                                                     *)
(***************************************************************************)
EXTENDS Naturals, Sequences, TLAPS

CONSTANTS Owner,       \* addresses
          MinLock,     \* MinLockDuration; nothing writes the key
          BonusBps,    \* BONUS_BPS
          BpsDenom,    \* BPS_DENOM
          MaxU64,      \* u64::MAX
          MaxVaults,   \* bound: vaults ever opened
          MaxTime      \* bound: ledger timestamp

VARIABLES vaults,  \* VaultKey::Vault; VaultCounter is its length
          now,
          opened,  \* history: the time of each deposit
          paid     \* history: what each vault has paid out

vaultVars == <<vaults, opened, paid>>
vars == <<vaults, opened, paid, now>>

TreasureVaultRecord == [owner : Owner, amount : 1 .. MaxU64, lock_until : Nat,
                        bonus_multiplier : {BonusBps}, claimed : BOOLEAN]

Init ==
  /\ vaults = << >>
  /\ opened = << >>
  /\ paid = << >>
  /\ now = 0

\* calculate_bonus_payout: the payouts whose product and sum both fit a u64,
\* which is one or none.
BonusPayout(amount, multiplier) ==
  {p \in {amount + (amount * multiplier) \div BpsDenom} :
     amount * multiplier <= MaxU64 /\ p <= MaxU64}

\* deposit_treasure
DepositTreasure(owner, amount) ==
  /\ Len(vaults) < MaxVaults
  /\ amount > 0
  /\ vaults' = Append(vaults, [owner |-> owner, amount |-> amount,
                               lock_until |-> now + MinLock,
                               bonus_multiplier |-> BonusBps, claimed |-> FALSE])
  /\ opened' = Append(opened, now)
  /\ paid' = Append(paid, 0)
  /\ UNCHANGED now

\* Mutant: the vault is paid but not stored as claimed.
ClaimTreasureUnmarked(owner, id) ==
  /\ vaults[id].owner = owner
  /\ ~vaults[id].claimed
  /\ now >= vaults[id].lock_until
  /\ \E p \in BonusPayout(vaults[id].amount, vaults[id].bonus_multiplier) :
       paid' = [paid EXCEPT ![id] = @ + p]
  /\ UNCHANGED <<vaults, opened, now>>

\* claim_treasure
ClaimTreasure(owner, id) ==
  /\ vaults[id].owner = owner
  /\ ~vaults[id].claimed
  /\ now >= vaults[id].lock_until
  /\ \E p \in BonusPayout(vaults[id].amount, vaults[id].bonus_multiplier) :
       paid' = [paid EXCEPT ![id] = @ + p]
  /\ vaults' = [vaults EXCEPT ![id].claimed = TRUE]
  /\ UNCHANGED <<opened, now>>

Tick ==
  /\ now < MaxTime
  /\ now' = now + 1
  /\ UNCHANGED vaultVars

VaultStep ==
  \E owner \in Owner :
    \/ \E amount \in 0 .. MaxU64 : DepositTreasure(owner, amount)
    \/ \E id \in DOMAIN vaults : ClaimTreasure(owner, id)

Next == VaultStep \/ Tick

Spec == Init /\ [][Next]_vars
-----------------------------------------------------------------------------
\* Type invariant.
TypeOK ==
  /\ vaults \in Seq(TreasureVaultRecord) /\ Len(vaults) <= MaxVaults
  /\ opened \in Seq(0 .. MaxTime) /\ Len(opened) = Len(vaults)
  /\ paid \in Seq(0 .. MaxU64) /\ Len(paid) = Len(vaults)
  /\ now \in 0 .. MaxTime

\* Over its whole life a vault pays at most its amount plus the bonus, in one
\* claim, however often and in whatever order claim_treasure is called.
PaidAtMostOnce ==
  \A id \in DOMAIN vaults :
    paid[id] <= vaults[id].amount + (vaults[id].amount * BonusBps) \div BpsDenom

\* No vault pays before MinLockDuration has passed since its deposit.
LockedUntilMature ==
  \A id \in DOMAIN vaults : paid[id] > 0 => now >= opened[id] + MinLock
-----------------------------------------------------------------------------
FullPayout(amount) == amount + (amount * BonusBps) \div BpsDenom

\* What holds of one vault: its lock runs from its deposit, it has paid nothing
\* until it is claimed and its full payout once it is, which is after the lock.
VaultOK(v, o, p, t) ==
  /\ v \in TreasureVaultRecord /\ o \in Nat /\ p \in Nat
  /\ v.lock_until = o + MinLock
  /\ ~v.claimed => p = 0
  /\ v.claimed => p = FullPayout(v.amount) /\ t >= o + MinLock

\* The inductive invariant.
VaultInv ==
  /\ now \in Nat
  /\ vaults \in Seq(TreasureVaultRecord) /\ opened \in Seq(Nat) /\ paid \in Seq(Nat)
  /\ Len(opened) = Len(vaults) /\ Len(paid) = Len(vaults)
  /\ \A id \in 1 .. Len(vaults) : VaultOK(vaults[id], opened[id], paid[id], now)

\* The deployed parameters: a lock in seconds and a bonus in basis points.
VaultParameters ==
  /\ MinLock \in Nat /\ BonusBps \in Nat
  /\ BpsDenom \in Nat /\ BpsDenom > 0 /\ MaxU64 \in Nat

\* A payout is at least nothing.
LEMMA PayoutNat ==
  ASSUME VaultParameters, NEW amount \in Nat
  PROVE  FullPayout(amount) \in Nat
<1>1. amount * BonusBps \in Nat
  BY DEF VaultParameters
<1>2. \A x \in Nat : x \div BpsDenom \in Nat
  BY DEF VaultParameters
<1>3. \A x, y \in Nat : x + y \in Nat
  OBVIOUS
<1> QED
  BY <1>1, <1>2, <1>3 DEF FullPayout

\* deposit_treasure opens a vault that has paid nothing.
LEMMA VaultDeposit ==
  ASSUME VaultParameters, VaultInv, NEW owner \in Owner, NEW amount \in 0 .. MaxU64,
         DepositTreasure(owner, amount)
  PROVE  VaultInv'
<1> DEFINE v == [owner |-> owner, amount |-> amount, lock_until |-> now + MinLock,
                 bonus_multiplier |-> BonusBps, claimed |-> FALSE]
<1>1. VaultOK(v, now, 0, now)
  BY DEF VaultOK, TreasureVaultRecord, VaultInv, VaultParameters, DepositTreasure
<1>2. /\ vaults' = Append(vaults, v) /\ opened' = Append(opened, now)
      /\ paid' = Append(paid, 0) /\ now' = now
  BY DEF DepositTreasure
<1>3. v \in TreasureVaultRecord /\ now \in Nat
  BY <1>1 DEF VaultOK
<1> HIDE DEF v
<1>4. /\ vaults' \in Seq(TreasureVaultRecord) /\ opened' \in Seq(Nat) /\ paid' \in Seq(Nat)
      /\ Len(vaults') = Len(vaults) + 1
      /\ Len(opened') = Len(vaults') /\ Len(paid') = Len(vaults')
  BY <1>2, <1>3 DEF VaultInv
<1>5. ASSUME NEW id \in 1 .. Len(vaults')
      PROVE  VaultOK(vaults'[id], opened'[id], paid'[id], now)
  <2>1. CASE id \in 1 .. Len(vaults)
    <3>1. vaults'[id] = vaults[id] /\ opened'[id] = opened[id] /\ paid'[id] = paid[id]
      BY <1>2, <1>3, <2>1 DEF VaultInv
    <3> QED
      BY <2>1, <3>1 DEF VaultInv
  <2>2. CASE id = Len(vaults) + 1
    <3>1. vaults'[id] = v /\ opened'[id] = now /\ paid'[id] = 0
      BY <1>2, <1>3, <2>2 DEF VaultInv
    <3> QED
      BY <1>1, <3>1
  <2> QED
    BY <1>4, <2>1, <2>2 DEF VaultInv
<1> QED
  BY <1>2, <1>3, <1>4, <1>5 DEF VaultInv, VaultOK

\* claim_treasure pays a vault that has paid nothing and marks it.
LEMMA VaultClaim ==
  ASSUME VaultParameters, VaultInv, NEW owner, NEW id \in DOMAIN vaults,
         ClaimTreasure(owner, id)
  PROVE  VaultInv'
<1>1. id \in 1 .. Len(vaults) /\ DOMAIN paid = 1 .. Len(vaults) /\ DOMAIN vaults = 1 .. Len(vaults)
  BY DEF VaultInv
<1>2. VaultOK(vaults[id], opened[id], paid[id], now) /\ ~vaults[id].claimed
      /\ now >= vaults[id].lock_until
  BY <1>1 DEF VaultInv, ClaimTreasure
<1>3. vaults[id].bonus_multiplier = BonusBps /\ vaults[id].amount \in Nat
  BY <1>2 DEF VaultOK, TreasureVaultRecord, VaultParameters
<1> DEFINE v == [vaults[id] EXCEPT !.claimed = TRUE]
           p == FullPayout(vaults[id].amount)
<1>4. p \in Nat
  BY <1>3, PayoutNat
<1>5. /\ paid' = [paid EXCEPT ![id] = @ + p]
      /\ vaults' = [vaults EXCEPT ![id] = v]
      /\ opened' = opened /\ now' = now
  BY <1>3 DEF ClaimTreasure, BonusPayout, FullPayout
<1>6. VaultOK(v, opened[id], p, now)
  <2>1. v \in TreasureVaultRecord /\ v.amount = vaults[id].amount
        /\ v.lock_until = vaults[id].lock_until /\ v.claimed
    BY <1>2 DEF VaultOK, TreasureVaultRecord
  <2> HIDE DEF v
  <2> QED
    BY <1>2, <1>4, <2>1 DEF VaultOK
<1>7. paid[id] + p = p /\ v \in TreasureVaultRecord
  <2>1. paid[id] = 0
    BY <1>2 DEF VaultOK
  <2> HIDE DEF p, v
  <2> QED
    BY <1>4, <1>6, <2>1 DEF VaultOK
<1> HIDE DEF v, p
<1>8. /\ vaults' \in Seq(TreasureVaultRecord) /\ paid' \in Seq(Nat)
      /\ Len(vaults') = Len(vaults) /\ Len(paid') = Len(vaults)
      /\ vaults'[id] = v /\ paid'[id] = p
      /\ \A i \in 1 .. Len(vaults) :
           i # id => vaults'[i] = vaults[i] /\ paid'[i] = paid[i]
  BY <1>1, <1>4, <1>5, <1>7 DEF VaultInv
<1>9. ASSUME NEW i \in 1 .. Len(vaults)
      PROVE  VaultOK(vaults'[i], opened[i], paid'[i], now)
  BY <1>6, <1>8 DEF VaultInv
<1> QED
  BY <1>5, <1>8, <1>9 DEF VaultInv, VaultOK

\* Time only moves forward, so a vault that has paid stays past its lock.
LEMMA VaultTick ==
  ASSUME VaultParameters, VaultInv, Tick
  PROVE  VaultInv'
<1>1. now' = now + 1 /\ now \in Nat /\ UNCHANGED <<vaults, opened, paid>>
  BY DEF Tick, VaultInv, vaultVars
<1>2. ASSUME NEW id \in 1 .. Len(vaults)
      PROVE  VaultOK(vaults[id], opened[id], paid[id], now + 1)
  <2>1. VaultOK(vaults[id], opened[id], paid[id], now)
    BY DEF VaultInv
  <2> QED
    BY <1>1, <2>1 DEF VaultOK, VaultParameters
<1> QED
  BY <1>1, <1>2 DEF VaultInv, VaultOK

\* Every vault pays once, in full and never before its lock has run out, for
\* every lock, bonus and number of vaults.
THEOREM VaultSafe ==
  ASSUME VaultParameters
  PROVE  Spec => [](PaidAtMostOnce /\ LockedUntilMature)
<1>1. Init => VaultInv
  <2> SUFFICES ASSUME Init
               PROVE  VaultInv
    OBVIOUS
  <2>1. vaults = << >> /\ opened = << >> /\ paid = << >> /\ now = 0
    BY DEF Init
  <2>2. /\ vaults \in Seq(TreasureVaultRecord) /\ opened \in Seq(Nat) /\ paid \in Seq(Nat)
        /\ Len(vaults) = 0 /\ Len(opened) = 0 /\ Len(paid) = 0
    BY <2>1
  <2>3. 1 .. Len(vaults) = {}
    BY <2>2
  <2> QED
    BY <2>1, <2>2, <2>3 DEF VaultInv
<1>2. VaultInv /\ [Next]_vars => VaultInv'
  <2> SUFFICES ASSUME VaultInv, [Next]_vars
               PROVE  VaultInv'
    OBVIOUS
  <2>1. CASE UNCHANGED vars
    BY <2>1 DEF VaultInv, VaultOK, vars
  <2> QED
    BY <2>1, VaultDeposit, VaultClaim, VaultTick DEF Next, VaultStep
<1>3. VaultInv => PaidAtMostOnce /\ LockedUntilMature
  <2> SUFFICES ASSUME VaultInv, NEW id \in DOMAIN vaults
               PROVE  /\ paid[id] <= FullPayout(vaults[id].amount)
                      /\ paid[id] > 0 => now >= opened[id] + MinLock
    BY DEF PaidAtMostOnce, LockedUntilMature, FullPayout
  <2>1. VaultOK(vaults[id], opened[id], paid[id], now)
    BY DEF VaultInv
  <2>2. vaults[id].amount \in Nat /\ vaults[id].claimed \in BOOLEAN
    BY <2>1 DEF VaultOK, TreasureVaultRecord, VaultParameters
  <2>3. FullPayout(vaults[id].amount) \in Nat
    BY <2>2, PayoutNat
  <2> QED
    BY <2>1, <2>2, <2>3 DEF VaultOK
<1> QED
  BY <1>1, <1>2, <1>3, PTL DEF Spec
=============================================================================
