---------------------------- MODULE GuildStaking ----------------------------
(***************************************************************************)
(* The guild stakes of src/staking.rs: members lock resource units behind  *)
(* their alliance, the treasury is credited with them while they are       *)
(* locked, and rewards funded into the guild are shared by an accumulator  *)
(* of rewards per staked unit, in fixed point.  Rewards are paid by        *)
(* crediting balances; no entry holds what was funded and not yet paid.    *)
(***************************************************************************)
EXTENDS AllianceManager

CONSTANTS Asset,
          StartUnits,      \* units of each asset that each player starts with
          StakeLock,       \* GUILD_STAKE_LOCK_SECS
          RewardPrecision, \* REWARD_PRECISION
          MaxU32,          \* u32::MAX
          Units,           \* amounts staked and funded
          MaxOpenings, MaxAcc  \* bounds: stake_to_guild calls; the accumulator when funded

VARIABLES balance,      \* ResourceBalance
          stakes,       \* GuildStake
          stakedTotal,  \* GuildStakeTotal
          acc,          \* GuildAccReward
          stakeAsset,   \* GuildStakeAsset
          openings      \* history: stake_to_guild calls that succeeded

stakeVars == <<balance, stakes, stakedTotal, acc, stakeAsset, openings>>

NoStake == [alliance |-> NoAlliance, amount |-> 0, unlock_at |-> 0, reward_debt |-> 0]
NoAsset == "none"

StakeInit ==
  /\ Init
  /\ balance = [p \in Player |-> [a \in Asset |-> StartUnits]]
  /\ stakes = [p \in Player |-> NoStake]
  /\ stakedTotal = zero
  /\ acc = zero
  /\ stakeAsset = [g \in Alliance |-> NoAsset]
  /\ openings = 0

\* amount * acc / REWARD_PRECISION: what has accrued on an amount since the
\* accumulator started, and the debt of a stake opened now.
Accrued(amount, a) == (amount * a) \div RewardPrecision

\* pending_guild_reward
PendingGuildReward(s, a) ==
  IF Accrued(s.amount, a) > s.reward_debt THEN Accrued(s.amount, a) - s.reward_debt ELSE 0

\* adjust_treasury: never below zero.
AdjustTreasury(g, in, out) == [treasury EXCEPT ![g] = IF @ + in >= out THEN @ + in - out ELSE 0]


\* The stake after n units are added: its lock restarts and its debt is what
\* has accrued on the whole of it.
Opened(g, old, n) ==
  [alliance |-> g, amount |-> old.amount + n, unlock_at |-> now + StakeLock,
   reward_debt |-> Accrued(old.amount + n, acc[g])]

\* stake_to_guild: the guild keeps the asset of its first stake; adding to a
\* stake pays what is pending and restarts the lock.
StakeToGuild(p, a, n) ==
  LET g == memberOf[p]
      old == stakes[p]
      pending == IF old = NoStake THEN 0 ELSE PendingGuildReward(old, acc[g])
  IN  /\ n > 0
      /\ g # NoAlliance
      /\ stakeAsset[g] \in {NoAsset, a}
      /\ balance[p][a] >= n
      /\ old.alliance \in {NoAlliance, g}
      /\ openings < MaxOpenings
      /\ balance[p][a] - n + pending <= MaxU32
      /\ stakeAsset' = [stakeAsset EXCEPT ![g] = a]
      /\ balance' = [balance EXCEPT ![p][a] = @ - n + pending]
      /\ stakes' = [stakes EXCEPT ![p] = Opened(g, old, n)]
      /\ stakedTotal' = [stakedTotal EXCEPT ![g] = @ + n]
      /\ treasury' = AdjustTreasury(g, n, 0)
      /\ openings' = openings + 1
      /\ UNCHANGED <<acc, now, rosters, contribution, given, level, territory, boss, quests,
                     contributed, spawned, kills>>

\* fund_guild_rewards: anyone may fund, when somebody is staked.
FundGuildRewards(p, g, n) ==
  LET a == stakeAsset[g]
  IN  /\ n > 0
      /\ a # NoAsset
      /\ stakedTotal[g] > 0
      /\ balance[p][a] >= n
      /\ acc[g] < MaxAcc
      /\ balance' = [balance EXCEPT ![p][a] = @ - n]
      /\ acc' = [acc EXCEPT ![g] = @ + (n * RewardPrecision) \div stakedTotal[g]]
      /\ UNCHANGED <<stakes, stakedTotal, stakeAsset, openings, now, guildVars>>

\* claim_guild_rewards, with something pending
ClaimGuildRewards(p) ==
  LET s == stakes[p]
      a == stakeAsset[s.alliance]
      pending == PendingGuildReward(s, acc[s.alliance])
  IN  /\ s # NoStake
      /\ pending > 0
      /\ balance[p][a] + pending <= MaxU32
      /\ balance' = [balance EXCEPT ![p][a] = @ + pending]
      /\ stakes' = [stakes EXCEPT ![p].reward_debt = Accrued(s.amount, acc[s.alliance])]
      /\ UNCHANGED <<stakedTotal, acc, stakeAsset, openings, now, guildVars>>

\* unstake_from_guild: by the stake's alliance, whether or not the member is
\* still in it.
UnstakeFromGuild(p) ==
  LET s == stakes[p]
      g == s.alliance
      a == stakeAsset[g]
      pending == PendingGuildReward(s, acc[g])
  IN  /\ s # NoStake
      /\ now >= s.unlock_at
      /\ balance[p][a] + s.amount + pending <= MaxU32
      /\ balance' = [balance EXCEPT ![p][a] = @ + s.amount + pending]
      /\ stakes' = [stakes EXCEPT ![p] = NoStake]
      /\ stakedTotal' = [stakedTotal EXCEPT ![g] = IF @ >= s.amount THEN @ - s.amount ELSE 0]
      /\ treasury' = AdjustTreasury(g, 0, s.amount)
      /\ UNCHANGED <<acc, stakeAsset, openings, now, rosters, contribution, given, level, territory,
                     boss, quests, contributed, spawned, kills>>

StakeNext ==
  \/ \E p \in Player, a \in Asset, n \in Units : StakeToGuild(p, a, n)
  \/ \E p \in Player, g \in Alliance, n \in Units : FundGuildRewards(p, g, n)
  \/ \E p \in Player : ClaimGuildRewards(p) \/ UnstakeFromGuild(p)
  \/ Next /\ UNCHANGED stakeVars

StakeSpec == StakeInit /\ [][StakeNext]_<<now, guildVars, stakeVars>>
-----------------------------------------------------------------------------
\* Type invariant.
StakeTypeOK ==
  /\ AllianceTypeOK
  /\ balance \in [Player -> [Asset -> 0 .. MaxU32]]
  /\ \A p \in Player : stakes[p] # NoStake => stakes[p].alliance \in Alliance /\ stakes[p].amount > 0
  /\ acc \in [Alliance -> Nat]
  /\ stakeAsset \in [Alliance -> Asset \cup {NoAsset}]

\* stake_to_guild, unstake_from_guild: the total that rewards are divided by
\* is the sum of the stakes in the alliance, members who left it included.
StakedTotalAgrees ==
  \A g \in Alliance :
    stakedTotal[g] = Total(LAMBDA p : stakes[p].amount, {p \in Player : stakes[p].alliance = g})

\* Units of an asset in balances, in stakes and pending as rewards.
Outstanding(a) ==
  Total(LAMBDA p : balance[p][a]
                   + IF stakes[p] # NoStake /\ stakeAsset[stakes[p].alliance] = a
                     THEN stakes[p].amount + PendingGuildReward(stakes[p], acc[stakes[p].alliance])
                     ELSE 0, Player)

Held == StartUnits * Cardinality(Player)

\* fund_guild_rewards, claim_guild_rewards: the floors of the accumulator and
\* of the reward debts gain the stakers less than one unit each time a stake
\* is opened or added to, however often rewards are funded and claimed.
RoundingIsBounded == \A a \in Asset : Outstanding(a) <= Held + openings

\* docs/economy/staking.md says of yield that nothing is minted: rewards paid
\* and pending never exceed the rewards funded.
NothingIsMinted == \A a \in Asset : Outstanding(a) <= Held
=============================================================================
