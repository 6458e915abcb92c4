------------------------------- MODULE Staking -------------------------------
(***************************************************************************)
(* The individual stakes of src/staking.rs.  A player has one stake, of    *)
(* either interface: stake and unstake, or stake_with_tier and unstake_v2, *)
(* which may end the lock early for a penalty.  Delegations are kept apart *)
(* from the stakes they rest on.  The contract moves no tokens: histories  *)
(* count what it reports as returned and as penalty.                       *)
(***************************************************************************)
EXTENDS Integers, FiniteSetsExt

CONSTANTS Player,
          Tier,         \* StakingTier
          Flexible,     \* the tier of stake
          TierConfigs,  \* what set_tier_config may store: min_amount, lock, penalty
          DefaultTiers, \* get_default_tier_configs
          MinStake, LockDuration,
          Amount, SlashBps, BpsDenominator,
          MaxDeposited, MaxLedger   \* bounds

VARIABLES ledger, initialized, tiers,
          stakes,        \* Stake
          stakeTier,     \* StakeTier
          totalStaked, stakerCount, totalSlashed,
          delegation,    \* Delegation
          deposited, withdrawn, penalties  \* history

stakingVars == <<ledger, initialized, tiers, stakes, stakeTier, totalStaked, stakerCount,
                 totalSlashed, delegation, deposited, withdrawn, penalties>>

None == "none"
NoStake == [amount |-> 0, created_ledger |-> 0, unlock_ledger |-> 0, tier |-> Flexible]

Init ==
  /\ ledger = 0 /\ initialized = FALSE /\ tiers = DefaultTiers
  /\ stakes = [p \in Player |-> NoStake]
  /\ stakeTier = [p \in Player |-> Flexible]
  /\ totalStaked = 0 /\ stakerCount = 0 /\ totalSlashed = 0
  /\ delegation = [p \in Player |-> None]
  /\ deposited = 0 /\ withdrawn = 0 /\ penalties = 0

\* initialize, by the first caller
Initialize ==
  /\ ~initialized
  /\ initialized' = TRUE
  /\ UNCHANGED <<ledger, tiers, stakes, stakeTier, totalStaked, stakerCount, totalSlashed,
                 delegation, deposited, withdrawn, penalties>>

\* set_tier_config: the caller only authorizes as itself.
SetTierConfig(t, c) ==
  /\ tiers' = [tiers EXCEPT ![t] = c]
  /\ UNCHANGED <<ledger, initialized, stakes, stakeTier, totalStaked, stakerCount, totalSlashed,
                 delegation, deposited, withdrawn, penalties>>

\* What both stake functions write.
Staked(p, n, lock, t) ==
  /\ n > 0
  /\ stakes[p] = NoStake
  /\ deposited + n <= MaxDeposited
  /\ stakes' = [stakes EXCEPT ![p] = [amount |-> n, created_ledger |-> ledger,
                                      unlock_ledger |-> ledger + lock, tier |-> t]]
  /\ totalStaked' = totalStaked + n
  /\ deposited' = deposited + n

\* stake_with_tier
StakeWithTier(p, n, t) ==
  /\ n >= tiers[t].min_amount
  /\ Staked(p, n, tiers[t].lock, t)
  /\ stakeTier' = [stakeTier EXCEPT ![p] = t]
  /\ stakerCount' = stakerCount + 1
  /\ UNCHANGED <<ledger, initialized, tiers, totalSlashed, delegation, withdrawn, penalties>>

\* stake
Stake(p, n) ==
  /\ initialized
  /\ n >= MinStake
  /\ Staked(p, n, LockDuration, Flexible)
  /\ UNCHANGED <<ledger, initialized, tiers, stakeTier, stakerCount, totalSlashed, delegation,
                 withdrawn, penalties>>

\* calculate_early_withdraw_penalty, by the tier's present configuration
CalculateEarlyWithdrawPenalty(s) == (s.amount * tiers[s.tier].penalty) \div BpsDenominator

\* unstake_v2
UnstakeV2(p) ==
  LET s == stakes[p]
      penalty == IF ledger < s.unlock_ledger THEN CalculateEarlyWithdrawPenalty(s) ELSE 0
  IN  /\ s # NoStake
      /\ stakes' = [stakes EXCEPT ![p] = NoStake]
      /\ totalStaked' = totalStaked - s.amount
      /\ withdrawn' = withdrawn + s.amount - penalty
      /\ penalties' = penalties + penalty
      /\ UNCHANGED <<ledger, initialized, tiers, stakeTier, stakerCount, totalSlashed, delegation,
                     deposited>>

\* unstake, of a stake made through either interface
Unstake(p) ==
  LET s == stakes[p]
  IN  /\ s # NoStake
      /\ ledger >= s.unlock_ledger
      /\ stakes' = [stakes EXCEPT ![p] = NoStake]
      /\ totalStaked' = totalStaked - s.amount
      /\ withdrawn' = withdrawn + s.amount
      /\ UNCHANGED <<ledger, initialized, tiers, stakeTier, stakerCount, totalSlashed, delegation,
                     deposited, penalties>>

\* delegate: the delegatee may not delegate to the delegator.
Delegate(p, q) ==
  /\ p # q
  /\ stakes[p] # NoStake
  /\ delegation[q] # p
  /\ delegation' = [delegation EXCEPT ![p] = q]
  /\ UNCHANGED <<ledger, initialized, tiers, stakes, stakeTier, totalStaked, stakerCount,
                 totalSlashed, deposited, withdrawn, penalties>>

\* undelegate
Undelegate(p) ==
  /\ delegation[p] # None
  /\ delegation' = [delegation EXCEPT ![p] = None]
  /\ UNCHANGED <<ledger, initialized, tiers, stakes, stakeTier, totalStaked, stakerCount,
                 totalSlashed, deposited, withdrawn, penalties>>

\* Mutant: the total is lowered by the whole stake.
SlashStakeWhole(p, bps) ==
  LET s == stakes[p]
      slashed == (s.amount * bps) \div BpsDenominator
  IN  /\ initialized
      /\ bps \in 1 .. BpsDenominator
      /\ s # NoStake
      /\ stakes' = [stakes EXCEPT ![p] = IF slashed = s.amount THEN NoStake
                                         ELSE [s EXCEPT !.amount = @ - slashed]]
      /\ totalStaked' = Max({totalStaked - s.amount, 0})
      /\ totalSlashed' = totalSlashed + slashed
      /\ UNCHANGED <<ledger, initialized, tiers, stakeTier, stakerCount, delegation, deposited,
                     withdrawn, penalties>>

\* slash_stake, by the admin
SlashStake(p, bps) ==
  LET s == stakes[p]
      slashed == (s.amount * bps) \div BpsDenominator
  IN  /\ initialized
      /\ bps \in 1 .. BpsDenominator
      /\ s # NoStake
      /\ stakes' = [stakes EXCEPT ![p] = IF slashed = s.amount THEN NoStake
                                         ELSE [s EXCEPT !.amount = @ - slashed]]
      /\ totalStaked' = Max({totalStaked - slashed, 0})
      /\ totalSlashed' = totalSlashed + slashed
      /\ UNCHANGED <<ledger, initialized, tiers, stakeTier, stakerCount, delegation, deposited,
                     withdrawn, penalties>>

CloseLedger ==
  /\ ledger < MaxLedger
  /\ ledger' = ledger + 1
  /\ UNCHANGED <<initialized, tiers, stakes, stakeTier, totalStaked, stakerCount, totalSlashed,
                 delegation, deposited, withdrawn, penalties>>

Next ==
  \/ Initialize \/ CloseLedger
  \/ \E t \in Tier, c \in TierConfigs : SetTierConfig(t, c)
  \/ \E p \in Player, n \in Amount : Stake(p, n) \/ \E t \in Tier : StakeWithTier(p, n, t)
  \/ \E p \in Player : UnstakeV2(p) \/ Unstake(p) \/ Undelegate(p)
  \/ \E p, q \in Player : Delegate(p, q)
  \/ \E p \in Player, bps \in SlashBps : SlashStake(p, bps)

Spec == Init /\ [][Next]_stakingVars
-----------------------------------------------------------------------------
\* Type invariant.
StakingTypeOK ==
  /\ ledger \in 0 .. MaxLedger
  /\ tiers \in [Tier -> TierConfigs]
  /\ \A p \in Player : stakes[p] # NoStake => stakes[p].amount > 0
  /\ stakeTier \in [Player -> Tier]
  /\ delegation \in [Player -> Player \cup {None}]
  /\ totalStaked \in 0 .. MaxDeposited /\ totalSlashed \in 0 .. MaxDeposited

=============================================================================
