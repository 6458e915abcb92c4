---------------------------- MODULE YieldFarming ----------------------------
(***************************************************************************)
(* The resource, ship and liquidity stakes of src/yield_farming.rs with    *)
(* the formulas of src/economics/apy_calculator.rs, on the balance ledger, *)
(* the LP balances of one pool and the ships they stake.  All yields are   *)
(* paid from one reserve per asset.                                        *)
(***************************************************************************)
EXTENDS Naturals, FiniteSets, FiniteSetsExt, Functions, TLC

CONSTANTS Player, Asset, Ship,
          StartUnits,     \* units of each asset that each player starts with
          StartLp,        \* LP units that each player starts with
          Tiers,          \* lock tiers: apy, lock
          YearBps,        \* BPS_DENOMINATOR times a year
          ApyFloor, Bps,  \* TVL_APY_FLOOR_BPS, BPS_DENOMINATOR
          DailyYield,     \* nft_daily_yield of each ship's level and type
          Targets,        \* TVL targets the admin may set; DefaultTarget at first
          DefaultTarget,
          RewardPrecision, PotShare,   \* REWARD_PRECISION, IL_POT_SHARE_BPS
          RewardAsset,    \* resource A of the pool
          Loss,           \* protected impermanent loss, in bps, an LP may have suffered
          Units, MaxU32,
          MaxStakes, MaxAcc, MaxTime   \* bounds

VARIABLES now, balance, reserve,
          stakes,       \* ResourceStake
          nextId,       \* NextStakeId
          tvl,          \* Tvl
          target,       \* TvlTarget
          shipOwner,    \* ship_nft: the owner of a ship
          shipStakes,   \* NftStake
          nftCount,     \* NftCount
          yieldAsset,   \* NftYieldAsset
          lp,           \* AmmKey::LpBalance of the pool
          lpStakes,     \* LpStake of the pool
          lpPool        \* LpPoolState

resourceVars == <<stakes, nextId, tvl, target>>
shipVars == <<shipOwner, shipStakes, nftCount, yieldAsset>>
lpVars == <<lp, lpStakes, lpPool>>
farmVars == <<balance, reserve, resourceVars, shipVars, lpVars>>

NoLpStake == [amount |-> 0, reward_debt |-> 0]

FarmInit ==
  /\ now = 0
  /\ balance = [p \in Player |-> [a \in Asset |-> StartUnits]]
  /\ reserve = [a \in Asset |-> 0]
  /\ stakes = << >> /\ nextId = 1
  /\ tvl = [a \in Asset |-> 0] /\ target = DefaultTarget
  /\ shipOwner \in [Ship -> Player]
  /\ shipStakes = << >> /\ nftCount = 0
  /\ yieldAsset = RewardAsset
  /\ lp = [p \in Player |-> StartLp]
  /\ lpStakes = [p \in Player |-> NoLpStake]
  /\ lpPool = [total_staked |-> 0, acc |-> 0, il_pot |-> 0]

Least(a, b) == IF a <= b THEN a ELSE b
Without(f, id) == Restrict(f, DOMAIN f \ {id})

\* fund_yield_reserve
FundYieldReserve(p, a, n) ==
  /\ n > 0
  /\ balance[p][a] >= n
  /\ balance' = [balance EXCEPT ![p][a] = @ - n]
  /\ reserve' = [reserve EXCEPT ![a] = @ + n]
  /\ UNCHANGED <<now, resourceVars, shipVars, lpVars>>

\* pay_yield, with a credit of principal to the same balance: a yield above
\* the reserve fails the whole call.
PayYield(p, a, due, principal) ==
  /\ reserve[a] >= due
  /\ balance[p][a] + due + principal <= MaxU32
  /\ reserve' = [reserve EXCEPT ![a] = @ - due]
  /\ balance' = [balance EXCEPT ![p][a] = @ + due + principal]
-----------------------------------------------------------------------------
\* tvl_adjusted_apy_bps
TvlAdjustedApyBps(apy, locked) ==
  IF target = 0 \/ locked <= target THEN apy
  ELSE Least(Max({(apy * target) \div locked, (apy * ApyFloor) \div Bps}), apy)

\* resource_yield_with: interest stops at the end of the lock.
ResourceYield(s) ==
  LET accrued == (s.amount * s.apy * Least(now - s.staked_at, s.lock)) \div YearBps
  IN  IF accrued > s.yield_claimed THEN accrued - s.yield_claimed ELSE 0

\* stake_resource
StakeResource(p, a, n, tier) ==
  /\ n > 0
  /\ balance[p][a] >= n
  /\ nextId <= MaxStakes
  /\ balance' = [balance EXCEPT ![p][a] = @ - n]
  /\ stakes' = (nextId :> [owner |-> p, asset |-> a, amount |-> n, lock |-> tier.lock,
                           apy |-> TvlAdjustedApyBps(tier.apy, tvl[a]), staked_at |-> now,
                           yield_claimed |-> 0]) @@ stakes
  /\ nextId' = nextId + 1
  /\ tvl' = [tvl EXCEPT ![a] = @ + n]
  /\ UNCHANGED <<now, reserve, target, shipVars, lpVars>>

\* claim_resource_yield, with something due
ClaimResourceYield(id) ==
  LET s == stakes[id]
      due == ResourceYield(s)
  IN  /\ due > 0
      /\ PayYield(s.owner, s.asset, due, 0)
      /\ stakes' = [stakes EXCEPT ![id].yield_claimed = @ + due]
      /\ UNCHANGED <<now, nextId, tvl, target, shipVars, lpVars>>

\* unstake_resource: an empty reserve also holds back the principal.
UnstakeResource(id) ==
  LET s == stakes[id]
  IN  /\ now >= s.staked_at + s.lock
      /\ PayYield(s.owner, s.asset, ResourceYield(s), s.amount)
      /\ stakes' = Without(stakes, id)
      /\ tvl' = [tvl EXCEPT ![s.asset] = @ - s.amount]
      /\ UNCHANGED <<now, nextId, target, shipVars, lpVars>>

\* emergency_withdrawal: half, and an odd unit, is the penalty.
Penalty(n) == (n + 1) \div 2

\* Mutant: the penalty is withheld and credited nowhere.
EmergencyUnstakeResourceBurning(id) ==
  LET s == stakes[id]
  IN  /\ now < s.staked_at + s.lock
      /\ balance[s.owner][s.asset] + s.amount <= MaxU32
      /\ stakes' = Without(stakes, id)
      /\ tvl' = [tvl EXCEPT ![s.asset] = @ - s.amount]
      /\ balance' = [balance EXCEPT ![s.owner][s.asset] = @ + s.amount - Penalty(s.amount)]
      /\ UNCHANGED <<now, reserve, nextId, target, shipVars, lpVars>>

\* emergency_unstake_resource, before the unlock (after it, unstake_resource)
EmergencyUnstakeResource(id) ==
  LET s == stakes[id]
  IN  /\ now < s.staked_at + s.lock
      /\ balance[s.owner][s.asset] + s.amount - Penalty(s.amount) <= MaxU32
      /\ stakes' = Without(stakes, id)
      /\ tvl' = [tvl EXCEPT ![s.asset] = @ - s.amount]
      /\ reserve' = [reserve EXCEPT ![s.asset] = @ + Penalty(s.amount)]
      /\ balance' = [balance EXCEPT ![s.owner][s.asset] = @ + s.amount - Penalty(s.amount)]
      /\ UNCHANGED <<now, nextId, target, shipVars, lpVars>>

\* set_tvl_target, by the staking admin
SetTvlTarget(n) == target' = n /\ UNCHANGED <<now, balance, reserve, stakes, nextId, tvl, shipVars, lpVars>>
-----------------------------------------------------------------------------
\* nft_yield_with
ShipYield(s) ==
  LET accrued == DailyYield[s] * (now - shipStakes[s].staked_at)
  IN  accrued - Least(accrued, shipStakes[s].yield_claimed)

\* stake_ship
StakeShip(s) ==
  /\ s \notin DOMAIN shipStakes
  /\ shipStakes' = (s :> [owner |-> shipOwner[s], staked_at |-> now, yield_claimed |-> 0]) @@ shipStakes
  /\ nftCount' = nftCount + 1
  /\ UNCHANGED <<now, balance, reserve, shipOwner, yieldAsset, resourceVars, lpVars>>

\* claim_ship_yield, with something due, in the asset set now
ClaimShipYield(s) ==
  /\ ShipYield(s) > 0
  /\ PayYield(shipStakes[s].owner, yieldAsset, ShipYield(s), 0)
  /\ shipStakes' = [shipStakes EXCEPT ![s].yield_claimed = @ + ShipYield(s)]
  /\ UNCHANGED <<now, shipOwner, nftCount, yieldAsset, resourceVars, lpVars>>

\* unstake_ship, by the owner of the stake
UnstakeShip(s) ==
  /\ PayYield(shipStakes[s].owner, yieldAsset, ShipYield(s), 0)
  /\ shipStakes' = Without(shipStakes, s)
  /\ nftCount' = IF nftCount > 0 THEN nftCount - 1 ELSE 0
  /\ UNCHANGED <<now, shipOwner, yieldAsset, resourceVars, lpVars>>

\* set_nft_yield_asset, by the staking admin
SetNftYieldAsset(a) ==
  /\ yieldAsset' = a
  /\ UNCHANGED <<now, balance, reserve, shipOwner, shipStakes, nftCount, resourceVars, lpVars>>

\* ship_nft::transfer_ship: the stakes are not looked at.
TransferShip(s, to) ==
  /\ to # shipOwner[s]
  /\ shipOwner' = [shipOwner EXCEPT ![s] = to]
  /\ UNCHANGED <<now, balance, reserve, shipStakes, nftCount, yieldAsset, resourceVars, lpVars>>

\* ship_nft::transfer_ownership
TransferOwnership(s, to) == s \notin DOMAIN shipStakes /\ TransferShip(s, to)
-----------------------------------------------------------------------------
LpAccrued(n, acc) == (n * acc) \div RewardPrecision

\* pending_lp_reward
PendingLpReward(s) ==
  LET accrued == LpAccrued(s.amount, lpPool.acc)
  IN  accrued - Least(accrued, s.reward_debt)

LpStaked(n) == [amount |-> n, reward_debt |-> LpAccrued(n, lpPool.acc)]

\* stake_lp: adding to a stake pays what is pending.
StakeLp(p, n) ==
  /\ n > 0
  /\ lp[p] >= n
  /\ PayYield(p, RewardAsset, PendingLpReward(lpStakes[p]), 0)
  /\ lp' = [lp EXCEPT ![p] = @ - n]
  /\ lpStakes' = [lpStakes EXCEPT ![p] = LpStaked(@.amount + n)]
  /\ lpPool' = [lpPool EXCEPT !.total_staked = @ + n]
  /\ UNCHANGED <<now, resourceVars, shipVars>>

\* fund_lp_rewards: a share, or all of it when nobody is staked, goes to the
\* impermanent-loss pot, which is a part of the reserve.
FundLpRewards(p, n) ==
  LET total == lpPool.total_staked
      toPot == IF total > 0 THEN (n * PotShare) \div Bps ELSE n
      share == IF n > toPot THEN ((n - toPot) * RewardPrecision) \div total ELSE 0
  IN  /\ n > 0
      /\ balance[p][RewardAsset] >= n
      /\ lpPool.acc < MaxAcc
      /\ balance' = [balance EXCEPT ![p][RewardAsset] = @ - n]
      /\ reserve' = [reserve EXCEPT ![RewardAsset] = @ + n]
      /\ lpPool' = [lpPool EXCEPT !.acc = @ + share, !.il_pot = @ + toPot]
      /\ UNCHANGED <<now, lp, lpStakes, resourceVars, shipVars>>

\* claim_lp_rewards, with something pending
ClaimLpRewards(p) ==
  LET pending == PendingLpReward(lpStakes[p])
  IN  /\ pending > 0
      /\ PayYield(p, RewardAsset, pending, 0)
      /\ lpStakes' = [lpStakes EXCEPT ![p] = LpStaked(@.amount)]
      /\ UNCHANGED <<now, lp, lpPool, resourceVars, shipVars>>

\* unstake_lp of n units, with il_compensation_with for a loss of l bps
UnstakeLp(p, n, l) ==
  LET s == lpStakes[p]
      compensation == Least((n * l) \div Bps, lpPool.il_pot)
  IN  /\ n > 0
      /\ n <= s.amount
      /\ PayYield(p, RewardAsset, PendingLpReward(s) + compensation, 0)
      /\ lp' = [lp EXCEPT ![p] = @ + n]
      /\ lpStakes' = [lpStakes EXCEPT ![p] = LpStaked(s.amount - n)]
      /\ lpPool' = [lpPool EXCEPT !.total_staked = @ - n, !.il_pot = @ - compensation]
      /\ UNCHANGED <<now, resourceVars, shipVars>>

FarmTick == now < MaxTime /\ now' = now + 1 /\ UNCHANGED farmVars

FarmNext ==
  \/ \E p \in Player, a \in Asset, n \in Units :
       FundYieldReserve(p, a, n) \/ \E tier \in Tiers : StakeResource(p, a, n, tier)
  \/ \E id \in DOMAIN stakes :
       ClaimResourceYield(id) \/ UnstakeResource(id) \/ EmergencyUnstakeResource(id)
  \/ \E n \in Targets : SetTvlTarget(n)
  \/ \E s \in Ship : StakeShip(s) \/ \E q \in Player : TransferOwnership(s, q) \/ TransferShip(s, q)
  \/ \E s \in DOMAIN shipStakes : ClaimShipYield(s) \/ UnstakeShip(s)
  \/ Ship # {} /\ \E a \in Asset : SetNftYieldAsset(a)
  \/ \E p \in Player, n \in 1 .. StartLp : StakeLp(p, n) \/ \E l \in Loss : UnstakeLp(p, n, l)
  \/ StartLp > 0 /\ \E p \in Player, n \in Units : FundLpRewards(p, n)
  \/ \E p \in Player : ClaimLpRewards(p)
  \/ FarmTick

FarmSpec == FarmInit /\ [][FarmNext]_<<now, farmVars>>
-----------------------------------------------------------------------------
\* Type invariant.
FarmTypeOK ==
  /\ now \in 0 .. MaxTime
  /\ balance \in [Player -> [Asset -> 0 .. MaxU32]]
  /\ reserve \in [Asset -> Nat]
  /\ DOMAIN stakes \subseteq 1 .. MaxStakes
  /\ lpPool.il_pot \in Nat
  /\ lp \in [Player -> 0 .. StartLp]

Total(f(_), S) == MapThenSumSet(f, S)

\* stake_resource, pay_yield, emergency_unstake_resource, fund_lp_rewards: every
\* unit of an asset is in a balance, in a stake or in the reserve, through
\* yields, penalties, compensations and roundings.
UnitsConserved ==
  \A a \in Asset :
    Total(LAMBDA p : balance[p][a], Player) + reserve[a]
      + Total(LAMBDA id : IF stakes[id].asset = a THEN stakes[id].amount ELSE 0, DOMAIN stakes)
    = StartUnits * Cardinality(Player)

\* adjust_tvl, set_nft_count, stake_lp and unstake_lp: the totals that set
\* interest rates and divide rewards are those of the stakes.
TotalsAgree ==
  /\ \A a \in Asset :
       tvl[a] = Total(LAMBDA id : IF stakes[id].asset = a THEN stakes[id].amount ELSE 0, DOMAIN stakes)
  /\ nftCount = Cardinality(DOMAIN shipStakes)
  /\ lpPool.total_staked = Total(LAMBDA p : lpStakes[p].amount, Player)
  /\ Total(LAMBDA p : lp[p] + lpStakes[p].amount, Player) = StartLp * Cardinality(Player)

\* claim_resource_yield: claiming often never pays more than the whole lock earns.
YieldWithinLock ==
  \A id \in DOMAIN stakes :
    LET s == stakes[id] IN s.yield_claimed <= (s.amount * s.apy * s.lock) \div YearBps

\* "ship stakes block transfers" (docs/economy/staking.md): a staked ship is
\* still its staker's.
StakedShipsStay == \A s \in DOMAIN shipStakes : shipOwner[s] = shipStakes[s].owner
=============================================================================
