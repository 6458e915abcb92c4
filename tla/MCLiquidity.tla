---------------------------- MODULE MCLiquidity ----------------------------
(***************************************************************************)
(* Liquidity pools, two-party escrows, the marketplace of unique assets,   *)
(* the yield farms and the contract's housekeeping.  They share no state   *)
(* that the others read; `focus` says which inputs a behaviour explores:   *)
(*   pool      one pool, two providers, over two days                      *)
(*   routes    two pools joined by a resource, swapped through in two hops *)
(*   escrow    three escrows among three traders                           *)
(*   listings  two listings and an auction of one asset                    *)
(*   swaps     a listing, an auction, a bundle and an offer of one asset   *)
(*   locks     two stakes of a resource, with a TVL target                 *)
(*   ships     staked ships, paid in an asset that the admin changes       *)
(*   farm      LP stakes of two providers                                  *)
(*   energy, snapshots, backups   of one ship, transferred and repaired    *)
(*   cache, audit                 three keys of a namespace; five events   *)
(*   storage, entry               bumped entries; write-back of one entry  *)
(*   batch, migration             two players' batches; one migration      *)
(* Swap and progressive fees are one half, so that amounts of a few units  *)
(* pay them.                                                               *)
(***************************************************************************)
EXTENDS Integers, TLC

CONSTANTS alice, bob, carol, ore, gas, dust

VARIABLES focus,
          pools, lp, tradeOps, volume, day,
          escrows, counter, count, confirmations, now,
          clock,        \* of the marketplace and the farms
          listings, sellerListings, listingCounter, auctions, auctionBids, sellerAuctions,
          autoBids, bundles, bundleCounter, offers, userOffers, escrow, sales, stats, categoryVolume,
          balance, reserve, stakes, nextId, tvl, target, shipOwner, shipStakes, nftCount,
          yieldAsset, lpUnits, lpStakes, lpPool,
          ship, energy, regenRate, lastRegen, regenCalled,
          snapshots, snapshotCounter, shipSnapshots, sessionCount, lastAuto,
          backups, backupList, lastBackup, exports, cached, audit,
          optim, nebulaData, burst, bump, upgradeTarget, cell, handle, filter,
          served, direct, inserted, batch, rate, ops,
          migrationAdmin, version, dryRun, incompatible, batchState, checkpoint

Half == <<[floor |-> 0, bps |-> 0], [floor |-> 1, bps |-> 5000]>>
Free == [floor |-> 0, bps |-> 0]

Pool == INSTANCE AmmPool WITH
  Provider <- {alice, bob}, Resource <- {ore, gas}, Exempt <- {bob},
  SwapFeeBps <- 3000, MaxRouteHops <- 2, MaxTradesPerDay <- 2,
  MaxI128 <- 9, MaxU64 <- 4, FeeBands <- Half, FlatFee <- Free,
  MaxPools <- 1, Amounts <- {1, 2, 4}, MaxDay <- 1

Routes == INSTANCE AmmPool WITH
  Provider <- {alice}, Resource <- {ore, gas, dust}, Exempt <- {},
  SwapFeeBps <- 5000, MaxRouteHops <- 2, MaxTradesPerDay <- 1,
  MaxI128 <- 4, MaxU64 <- 3, FeeBands <- Half, FlatFee <- Free,
  MaxPools <- 2, Amounts <- {1, 2}, MaxDay <- 0

Escrow == INSTANCE EscrowTrader WITH
  Trader <- {alice, bob, carol}, EscrowExpiry <- 1, MaxConcurrent <- 2,
  MaxEscrows <- 3, MaxTime <- 2

Listings == INSTANCE NftMarketplace WITH
  now <- clock, volume <- categoryVolume,
  Player <- {alice, bob}, Asset <- {ore}, Category <- ore :> "ship",
  MaxListings <- 1, MaxAuctions <- 1, MaxOffers <- 1, MaxBundleItems <- 1,
  ListingFee <- 1, SuccessFee <- 3, BpsDenominator <- 4, Discount <- alice :> 2 @@ bob :> 0,
  MinIncrement <- 2, Window <- 1, Extension <- 1, WashWindow <- 1, KeptSales <- 2,
  AutoBidMultiple <- 2, Price <- {1, 2}, Duration <- {1},
  ListingIds <- {1, 2}, AuctionIds <- {1}, BundleIds <- {}, OfferIds <- {}, MaxBids <- 2, MaxTime <- 2

Swaps == INSTANCE NftMarketplace WITH
  now <- clock, volume <- categoryVolume,
  Player <- {alice, bob}, Asset <- {ore}, Category <- ore :> "ship",
  MaxListings <- 1, MaxAuctions <- 1, MaxOffers <- 1, MaxBundleItems <- 1,
  ListingFee <- 1, SuccessFee <- 3, BpsDenominator <- 4, Discount <- alice :> 2 @@ bob :> 0,
  MinIncrement <- 2, Window <- 1, Extension <- 1, WashWindow <- 1, KeptSales <- 2,
  AutoBidMultiple <- 1, Price <- {2}, Duration <- {1},
  ListingIds <- {1}, AuctionIds <- {1}, BundleIds <- {1}, OfferIds <- {1}, MaxBids <- 2, MaxTime <- 2

Locks == INSTANCE YieldFarming WITH
  now <- clock, lp <- lpUnits,
  Player <- {alice, bob}, Asset <- {dust}, RewardAsset <- dust, StartUnits <- 3, Units <- {1, 3}, MaxU32 <- 9,
  Tiers <- {[apy |-> 2, lock |-> 1], [apy |-> 5, lock |-> 2]}, YearBps <- 5, ApyFloor <- 2, Bps <- 10,
  Targets <- {1}, DefaultTarget <- 2, Ship <- {}, DailyYield <- << >>,
  StartLp <- 0, RewardPrecision <- 4, PotShare <- 2, Loss <- {},
  MaxStakes <- 2, MaxAcc <- 0, MaxTime <- 2

Ships == INSTANCE YieldFarming WITH
  now <- clock, lp <- lpUnits,
  Player <- {alice, bob}, Asset <- {dust, ore}, RewardAsset <- dust, StartUnits <- 1, Units <- {1}, MaxU32 <- 9,
  Tiers <- {}, YearBps <- 5, ApyFloor <- 2, Bps <- 10,
  Targets <- {}, DefaultTarget <- 2, Ship <- {"s1", "s2"}, DailyYield <- [s \in {"s1", "s2"} |-> 1],
  StartLp <- 0, RewardPrecision <- 4, PotShare <- 2, Loss <- {},
  MaxStakes <- 0, MaxAcc <- 0, MaxTime <- 2

Farm == INSTANCE YieldFarming WITH
  now <- clock, lp <- lpUnits,
  Player <- {alice, bob}, Asset <- {dust}, RewardAsset <- dust, StartUnits <- 3, Units <- {1, 3}, MaxU32 <- 9,
  Tiers <- {}, YearBps <- 5, ApyFloor <- 2, Bps <- 10,
  Targets <- {}, DefaultTarget <- 2, Ship <- {}, DailyYield <- << >>,
  StartLp <- 2, RewardPrecision <- 4, PotShare <- 2, Loss <- {0, 5},
  MaxStakes <- 0, MaxAcc <- 4, MaxTime <- 0

Keeper == INSTANCE Maintenance WITH
  Player <- {alice, bob}, NoOne <- carol, Ship <- {1, 2}, Hull <- {3, 9},
  MaxSnapshotsPerSession <- 1, AutoSnapshotInterval <- 1, BackupInterval <- 1,
  MaxBackupRetention <- 2, MaxEnergy <- 5, BaseRechargeRate <- 2, BasePassiveRegen <- 1,
  PassiveRegenInterval <- 1, Word <- 256, Resources <- {2},
  Namespace <- {"n"}, Key <- {"k1", "k2", "k3"}, Ttl <- {1}, MaxKeysPerNamespace <- 3,
  AutoPruneBatch <- 1, MaxPruneBatch <- 2, PruneScanFactor <- 2,
  AuditAutoPrune <- 1, AuditMaxPrune <- 2, DefaultRetention <- [age |-> 2, entries |-> 2],
  Retention <- {[age |-> 1, entries |-> 3], [age |-> 3, entries |-> 1]},
  MaxBurstReads <- 3, Bumps <- {[default |-> 1, max |-> 2]}, DefaultBump <- [default |-> 2, max |-> 4],
  Value <- {1, 2}, Part <- 4, BloomKey <- {<<1, 2, 3>>, <<1, 1, 4>>, <<3, 4, 5>>},
  MaxBatchSize <- 2, GasPerBatchOp <- 8000, DefaultBatchGasBudget <- 16000,
  MaxCallsPerWindow <- 1, Window <- 2, Version <- {1, 2}, MigrationId <- {1},
  MaxMigrationBatch <- 1, MaxTime <- 3, MaxIds <- 5, MaxLogged <- 5, MaxOps <- 4

tradeParts == {"pool", "routes", "escrow", "listings", "swaps", "locks", "ships", "farm"}
timedParts == {"energy", "snapshots", "backups", "cache", "audit", "batch", "migration"}
keeperParts == timedParts \cup {"storage", "entry"}

poolVars == <<pools, lp, tradeOps, volume, day>>
escrowVars == <<escrows, counter, count, confirmations>>
keeperVars == <<ship, energy, regenRate, lastRegen, regenCalled,
                snapshots, snapshotCounter, shipSnapshots, sessionCount, lastAuto,
                backups, backupList, lastBackup, exports, cached, audit,
                optim, nebulaData, burst, bump, upgradeTarget, cell, handle, filter,
                served, direct, inserted, batch, rate, ops,
                migrationAdmin, version, dryRun, incompatible, batchState, checkpoint>>

nftVars == <<listings, sellerListings, listingCounter, auctions, auctionBids, sellerAuctions,
             autoBids, bundles, bundleCounter, offers, userOffers, escrow, sales, stats, categoryVolume>>
farmVars == <<balance, reserve, stakes, nextId, tvl, target, shipOwner, shipStakes, nftCount,
              yieldAsset, lpUnits, lpStakes, lpPool>>

LiquidityInit ==
  /\ focus \in tradeParts \cup keeperParts
  /\ IF focus = "routes" THEN Routes!Init ELSE Pool!Init
  /\ Escrow!Init
  /\ Listings!NftInit
  /\ CASE focus = "ships" -> Ships!FarmInit
       [] focus = "farm" -> Farm!FarmInit
       [] OTHER -> Locks!FarmInit
  /\ Keeper!Init
  /\ \A s \in DOMAIN ship : ship[s].owner = alice    \* both may change hands

TradeNext ==
  \/ /\ \/ focus = "pool" /\ Pool!Next
        \/ focus = "routes" /\ Routes!Next
     /\ UNCHANGED <<escrowVars, now, clock, nftVars, farmVars>>
  \/ focus = "escrow" /\ Escrow!Next
     /\ (1 \in DOMAIN escrows' => escrows'[1].trader_a = alice)   \* traders are alike
     /\ UNCHANGED <<poolVars, clock, nftVars, farmVars>>
  \/ /\ \/ focus = "listings" /\ Listings!NftNext
        \/ focus = "swaps" /\ Swaps!NftNext
     /\ UNCHANGED <<poolVars, escrowVars, now, farmVars>>
  \/ /\ \/ focus = "locks" /\ Locks!FarmNext
        \/ focus = "ships" /\ Ships!FarmNext
        \/ focus = "farm" /\ Farm!FarmNext
     /\ UNCHANGED <<poolVars, escrowVars, now, nftVars>>

KeeperNext ==
  \/ focus \in timedParts /\ Keeper!Tick
     /\ (focus \in {"snapshots", "cache", "batch", "migration"} => now' <= 2)
  \/ focus = "energy" /\ Keeper!EnergyNext
  \/ focus = "snapshots" /\ Keeper!SnapshotNext /\ snapshotCounter' <= 2 /\ ship'[2] = ship[2]
     /\ UNION {DOMAIN energy', DOMAIN shipSnapshots', DOMAIN regenCalled', DOMAIN sessionCount'} \subseteq {1}
  \/ focus = "backups" /\ Keeper!BackupNext
  \/ focus = "cache" /\ Keeper!CacheNext
     /\ \A e \in DOMAIN cached'.stale : cached'.stale[e] => e[2] # "k2"
  \/ focus = "audit" /\ Keeper!AuditNext
  \/ focus = "storage" /\ Keeper!StorageNext
  \/ focus = "entry" /\ Keeper!EntryNext
  \/ focus = "batch" /\ Keeper!BatchNext
  \/ focus = "migration" /\ Keeper!MigrationNext

LiquidityNext ==
  /\ \/ TradeNext /\ UNCHANGED keeperVars
     \/ KeeperNext /\ UNCHANGED <<poolVars, escrowVars, clock, nftVars, farmVars>>
  /\ UNCHANGED focus

LiquiditySpec ==
  LiquidityInit
  /\ [][LiquidityNext]_<<focus, poolVars, escrowVars, clock, nftVars, farmVars, Keeper!vars>>
-----------------------------------------------------------------------------
\* add_liquidity, remove_liquidity, swap_exact_input: the shares of a pool are
\* those its providers hold, a pool with shares has reserves on both sides, and
\* no call lowers what a share is worth, whichever way its divisions round.
SharesKeepValue ==
  /\ [](CASE focus = "pool" -> Pool!TypeOK /\ Pool!SharesAddUp /\ Pool!ReservesBackSupply
         [] focus = "routes" -> Routes!TypeOK /\ Routes!SharesAddUp /\ Routes!ReservesBackSupply
         [] OTHER -> TRUE)
  /\ Pool!ShareValueNeverFalls

\* confirm_escrow, complete_escrow: an escrow settles only with the consent of
\* both of its traders, and the consent stored under its id is to this trade.
SettledByBothTraders ==
  focus = "escrow" =>
    Escrow!TypeOK /\ Escrow!SettledByBothTraders /\ Escrow!ConfirmationsMatchFlags


\* stake_resource, pay_yield, emergency_unstake_resource, fund_lp_rewards,
\* unstake_lp: no unit is made or lost between balances, stakes and the one
\* reserve, the stored totals are those of the stakes, and claiming often does
\* not raise a yield.
FarmBooksBalance ==
  CASE focus = "ships" -> Ships!FarmTypeOK /\ Ships!UnitsConserved /\ Ships!TotalsAgree
    [] focus = "farm" -> Farm!FarmTypeOK /\ Farm!UnitsConserved /\ Farm!TotalsAgree
    [] focus = "locks" -> Locks!FarmTypeOK /\ Locks!UnitsConserved /\ Locks!TotalsAgree
                          /\ Locks!YieldWithinLock
    [] OTHER -> TRUE

\* Housekeeping agrees with what it keeps: snapshots and backups are those
\* listed, intact and within their limits (state_snapshot.rs); the cache's
\* index is its entries (cache_ttl_manager.rs); reads keep to the burst limit
\* and a write-back entry shows what direct writes would (storage_optim.rs);
\* each queued operation is executed, failed, pending or dropped, once
\* (batch_processor.rs); checkpoints follow the batches (migration_framework.rs).
HousekeepingAgrees ==
  focus \in keeperParts =>
    /\ Keeper!TypeOK /\ Keeper!SnapshotsListed /\ Keeper!CacheIndexed /\ Keeper!ReadsWithinBurst
    /\ Keeper!StorageTransparent /\ Keeper!BatchesAccounted /\ Keeper!CheckpointsFollowBatches

\* prune_expired_entries, prune_audit_logs: short sweeps repeated from wherever
\* the cursor stands remove every entry that is due and none that is live; the
\* log keeps a gapless run of its latest entries, and a step removes only
\* entries too old or too many under the policy in force.
SweepsFinish == [](focus = "cache" => Keeper!SweepsFinish) /\ Keeper!AuditKept

\* The comments at the writes and removals say "Escrow the asset", "Release
\* escrow": whatever is open in the marketplace has its assets in escrow.
OpenAssetsEscrowed == Swaps!OpenAssetsEscrowed

\* "ship stakes block transfers" (docs/economy/staking.md): a staked ship is
\* still its staker's.
StakedShipsStay == focus = "ships" => Ships!StakedShipsStay
=============================================================================
