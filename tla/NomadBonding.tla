---------------------------- MODULE NomadBonding ----------------------------
(***************************************************************************)
(* src/nomad_bonding.rs: bonds between two players, in which one delegates *)
(* a share of their cosmic essence to the other.                           *)
(***************************************************************************)
EXTENDS Naturals, Sequences, Functions

CONSTANTS Player,
          Percent,    \* percentages callers pass
          Accrual,    \* amounts accrue_essence is called with
          Hundred,    \* 100: percentages are out of this
          MaxU64,     \* u64::MAX
          MaxBonds,   \* bound: bonds ever created
          MaxAccrued, \* bound: essence ever accrued
          MaxClaimed  \* bound: essence ever claimed under one bond

VARIABLES bonds,       \* DataKey::Bond; BondCounter is its length
          delegation,  \* DataKey::YieldDel, a partial function of the bond id
          essence,     \* DataKey::Essence
          accrued,     \* history: essence ever accrued
          claimed      \* history: essence ever claimed under each bond

vars == <<bonds, delegation, essence, accrued, claimed>>

NomadBond == [initiator : Player, partner : Player,
              status : {"Pending", "Active", "Dissolved"}]
YieldDelegation == [delegator : Player, beneficiary : Player,
                    percentage : 1 .. Hundred, total_yielded : 0 .. MaxU64]

Parties(id) == {bonds[id].initiator, bonds[id].partner}

Init ==
  /\ bonds = << >>
  /\ delegation = << >>
  /\ essence = [p \in Player |-> 0]
  /\ accrued = 0
  /\ claimed = << >>

\* create_bond
CreateBond(initiator, partner) ==
  /\ Len(bonds) < MaxBonds
  /\ initiator # partner
  /\ bonds' = Append(bonds, [initiator |-> initiator, partner |-> partner,
                             status |-> "Pending"])
  /\ claimed' = Append(claimed, 0)
  /\ UNCHANGED <<delegation, essence, accrued>>

\* accept_bond
AcceptBond(partner, id) ==
  /\ bonds[id].partner = partner
  /\ bonds[id].status = "Pending"
  /\ bonds' = [bonds EXCEPT ![id].status = "Active"]
  /\ UNCHANGED <<delegation, essence, accrued, claimed>>

\* delegate_yield: replaces the bond's delegation and starts its total afresh.
DelegateYield(delegator, id, percentage) ==
  /\ percentage \in 1 .. Hundred
  /\ bonds[id].status = "Active"
  /\ delegator \in Parties(id)
  /\ \E beneficiary \in Parties(id) \ {delegator} :
       delegation' = [i \in DOMAIN delegation \cup {id} |->
                        IF i = id
                        THEN [delegator |-> delegator, beneficiary |-> beneficiary,
                              percentage |-> percentage, total_yielded |-> 0]
                        ELSE delegation[i]]
  /\ UNCHANGED <<bonds, essence, accrued, claimed>>

\* accrue_essence
AccrueEssence(player, amount) ==
  /\ accrued + amount <= MaxAccrued
  /\ essence[player] + amount <= MaxU64
  /\ essence' = [essence EXCEPT ![player] = @ + amount]
  /\ accrued' = accrued + amount
  /\ UNCHANGED <<bonds, delegation, claimed>>

\* calculate_yield_amount
YieldAmount(balance, percentage) == (balance * percentage) \div Hundred


\* Mutant: the bond's status is not looked at.
ClaimYieldDissolved(claimer, id) ==
  LET d == delegation[id]
      amount == YieldAmount(essence[d.delegator], d.percentage)
  IN  /\ claimer = d.beneficiary
      /\ amount > 0 /\ claimed[id] + amount <= MaxClaimed
      /\ essence[claimer] + amount <= MaxU64
      /\ essence' = [essence EXCEPT ![d.delegator] = @ - amount, ![claimer] = @ + amount]
      /\ delegation' = [delegation EXCEPT ![id].total_yielded = @ + amount]
      /\ claimed' = [claimed EXCEPT ![id] = @ + amount]
      /\ UNCHANGED <<bonds, accrued>>

\* claim_yield; a share that rounds to nothing returns Ok(0) and changes nothing.
ClaimYield(claimer, id) ==
  LET d == delegation[id]
      amount == YieldAmount(essence[d.delegator], d.percentage)
  IN  /\ bonds[id].status = "Active"
      /\ claimer = d.beneficiary
      /\ essence[d.delegator] * d.percentage <= MaxU64
      /\ amount > 0 /\ claimed[id] + amount <= MaxClaimed
      /\ essence[claimer] + amount <= MaxU64
      /\ d.total_yielded + amount <= MaxU64
      /\ essence' = [essence EXCEPT ![d.delegator] = @ - amount, ![claimer] = @ + amount]
      /\ delegation' = [delegation EXCEPT ![id].total_yielded = @ + amount]
      /\ claimed' = [claimed EXCEPT ![id] = @ + amount]
      /\ UNCHANGED <<bonds, accrued>>

\* dissolve_bond: by either party, whether the bond is pending or active; the
\* delegation stays in storage.
DissolveBond(caller, id) ==
  /\ bonds[id].status # "Dissolved"
  /\ caller \in Parties(id)
  /\ bonds' = [bonds EXCEPT ![id].status = "Dissolved"]
  /\ UNCHANGED <<delegation, essence, accrued, claimed>>

Next ==
  \E p \in Player :
    \/ \E q \in Player : CreateBond(p, q)
    \/ \E amount \in Accrual : AccrueEssence(p, amount)
    \/ \E id \in DOMAIN bonds :
         \/ AcceptBond(p, id)
         \/ DissolveBond(p, id)
         \/ \E percentage \in Percent : DelegateYield(p, id, percentage)
    \/ \E id \in DOMAIN delegation : ClaimYield(p, id)

Spec == Init /\ [][Next]_vars
-----------------------------------------------------------------------------
\* Type invariant.
TypeOK ==
  /\ bonds \in Seq(NomadBond) /\ Len(bonds) <= MaxBonds
  /\ DOMAIN delegation \subseteq DOMAIN bonds
  /\ \A id \in DOMAIN delegation : delegation[id] \in YieldDelegation
  /\ essence \in [Player -> 0 .. MaxU64]
  /\ accrued \in 0 .. MaxAccrued
  /\ claimed \in Seq(0 .. MaxClaimed) /\ Len(claimed) = Len(bonds)

\* Claims move essence and never create or lose any, whatever bonds overlap:
\* chains and cycles of delegations included.
EssenceConserved == SumFunction(essence) = accrued

=============================================================================
