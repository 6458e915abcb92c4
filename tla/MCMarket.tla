------------------------------ MODULE MCMarket ------------------------------
(***************************************************************************)
(* The market and what is bought, built and paid for around it.  A         *)
(* behaviour exercises one part, `focus`, while the others stay as         *)
(* deployed.  The market is explored from four sides, with narrower inputs *)
(* on each:                                                                *)
(*   offers  two offers over two days, no limit orders                     *)
(*   orders  one offer and one limit order at two prices                   *)
(*   assets  layouts of two assets that share a yield                      *)
(*   book    three limit orders on their own                               *)
(* Two ships of two players, so that a player can call harvest_and_list    *)
(* for a ship of somebody else.  The other parts are                       *)
(*   hulls, refits, skins, auctions                 of Ships,              *)
(*   prices, oracle, grants, mobile                 of Pricing,            *)
(*   furnish, visits, shares, craft, blueprints     of Holdings.           *)
(* Ships and Pricing share the ledger's clock and the instance slot Admin. *)
(***************************************************************************)
EXTENDS DexMarket, TLC

CONSTANTS alice, bob, carol, none, ore, dust

VARIABLES focus, now, admin,
          ships, ownerShips, funds, earned, config, totalBurned, shipState, economy,
          upgradeSpend, shipLevel, curve, levelSpend, counter, skins, ownerSkins, shipSkin,
          packs, auctions, fused,
          pricingAdmin, pricingConfig, price, priceHistory, accepted, boardAdmin, sources,
          oraclePrice, oracleHistory, triggers, disabled, fund, dailyCount, lastReset, sponsored,
          sponsorConfig, lifetime, userDaily, session, fraudScore, funded, paidOut, granted, uses,
          profiles, stardust, house, furniture, placements, ratings, visitors, featured,
          fractionAdmin, shareCounter, shares, ownerShares, resource, fractionConfig, created,
          merged, reused, materials, xp, level, skillPoints, specialization, nodes, mastery,
          unlocked, sink, received, produced, blueprints, blueprintCount, appliedTo

MCShipOwner == 1 :> alice @@ 2 :> bob

Cell(a, e) == [asset |-> a, energy |-> e]

\* one resource cell; and two cells of different assets that share a yield
OneCell == {<<Cell(ore, 2)>>}
MCLayouts == OneCell \cup {<<Cell(ore, 1), Cell(dust, 0), Cell(dust, 2)>>}

MCFeeBands == <<[floor |-> 0, bps |-> 0]>>
MCFlatFee == [floor |-> 0, bps |-> 0]

OffersSide == INSTANCE DexMarket WITH
  Layouts <- OneCell, MaxOrders <- 0, MaxPrice <- 1, MaxOffers <- 2

OrdersSide == INSTANCE DexMarket WITH
  Layouts <- OneCell, MaxOrders <- 1, MaxDay <- 0, MaxOffers <- 1

AssetsSide == INSTANCE DexMarket WITH
  MaxOrders <- 0, MaxPrice <- 1, MaxDay <- 0, MaxOffers <- 1, Exempt <- {}

BookSide == INSTANCE OrderBook WITH Asset <- {ore}, MaxPrice <- 1

Repair(point, surcharge, call) == [perPoint |-> point, surcharge |-> surcharge, perCall |-> call]

Fleet == INSTANCE Ships WITH
  NoOne <- none,
  Blueprint <- [laser |-> [cost |-> 10, mass |-> 15], hull |-> [cost |-> 3, mass |-> 40]],
  Damage <- {70}, Grant <- {150}, RepairConfigs <- {Repair(2, 5000, 50), Repair(1, 333, 30)},
  Economies <- {[growth |-> 6000, cap |-> 20]},
  Curves <- {[kind |-> k, base |-> 149, growth |-> 3500] : k \in {"Linear", "Logarithmic"}},
  MaxModules <- 5, MaxMass <- 100, MaxBatchUpgrades <- 2, Bid <- {1, 2}, Duration <- {1},
  Rolls <- {5999, 9900}, PackSize <- 2, MaxShips <- 2, MaxGranted <- 150, MaxIds <- 4,
  MaxTime <- 2, MaxLevelReached <- 2, balance <- funds, granted <- earned

Band(smoothing, deviation, base, most, cooldown, nudge) ==
  [smoothing |-> smoothing, max_deviation |-> deviation, base_band |-> base, max_band |-> most,
   cooldown |-> cooldown, supply_demand |-> nudge]

Sponsor(amount, cap, user, userDay) ==
  [amount |-> amount, daily_cap |-> cap, per_user_cap |-> user, per_user_daily_cap |-> userDay]

Tariff == INSTANCE Pricing WITH
  NoOne <- none, Resource <- {"ore"}, Configs <- {Band(5000, 20000, 1000, 4000, 0, 10000)},
  DefaultConfig <- Band(2000, 5000, 3000, 5000, 1, 2500), MaxSmoothingBps <- 5000,
  MaxVolatilityBandBps <- 5000, MaxHistoryEntries <- 2, RawPrice <- {1, 10, 13},
  Supply <- {0, 1, 3}, MaxBatchUpdate <- 2, OracleHistory <- 2,
  OraclePrice <- {1, 2}, SponsorConfigs <- {Sponsor(1, 2, 0, 0)},
  DefaultSponsorConfig <- Sponsor(2, 1, 2, 1), Fund <- {3}, Day <- 2, Duration <- {1, 2},
  FraudDelta <- {-5, 60, 90}, MaxTime <- 3, MaxObservations <- 3, MaxTriggers <- 2,
  MaxFunded <- 6, history <- priceHistory

Made(inputs, output, rarity, at, branch) ==
  [inputs |-> inputs, output |-> output, rarity |-> rarity, required_level |-> at,
   specialization |-> branch]

RecipeBook ==
  1 :> Made(<<<<"ore", 1>>>>, <<"dust", 1>>, 1, 1, "any") @@
  2 :> Made(<<<<"ore", 1>>, <<"dust", 1>>>>, <<"ore", 2>>, 2, 2, "Metallurgy") @@
  999 :> Made(<<<<"dust", 1>>>>, <<"dust", 2>>, 4, 1, "any")

Hold == INSTANCE Holdings WITH
  Player <- {alice, bob, carol}, NoOne <- none, UpgradeCost <- <<1, 2>>,
  FurnitureLimit <- <<1, 2, 3>>, Cost <- {1}, StartDust <- 3, Position <- {1},
  MaxVisitorRecords <- 1, MaxFeaturedHouses <- 2, Rating <- {99, 100, 451}, Tier <- {1},
  ResourceName <- {"ore", "dust"}, Amount <- {2}, MaxFractionsPerTx <- 2, MinShareSize <- 1,
  Recipes <- RecipeBook, RareRecipe <- 999, RareRarityThreshold <- 3, MasteryInterval <- 2,
  XpPerLevel <- 15, Grant <- 3, MaxBatchCraft <- 2, MinComponents <- 2, MaxFurniture <- 2,
  MaxVisits <- 2, MaxCount <- 5, MaxCrafts <- 3, MaxBlueprints <- 2,
  dust <- stardust, balance <- materials, granted <- received

marketSides == {"offers", "orders", "assets", "book"}
fleetParts == {"hulls", "refits", "skins", "auctions"}
tariffParts == {"prices", "oracle", "grants", "mobile"}
holdParts == {"furnish", "visits", "shares", "craft", "blueprints"}

MarketInit ==
  /\ Init /\ Fleet!Init /\ Tariff!Init /\ Hold!Init
  /\ focus \in marketSides \cup fleetParts \cup tariffParts \cup holdParts
  /\ focus \notin holdParts => profiles = {alice}

MarketNext ==
  \/ focus = "offers" /\ OffersSide!Next
  \/ focus = "orders" /\ OrdersSide!Next
  \/ focus = "assets" /\ AssetsSide!Next
  \/ focus = "book" /\ BookSide!BookNext /\ UNCHANGED dexVars

\* one rich player for repairs, one ship for refits, one skin put up for auction;
\* what depends on no variable is looked at once
FleetNext ==
  \/ focus = "hulls" /\ Fleet!HullNext /\ funds'[bob] = 0 /\ admin' \in {none, alice}
  \/ focus = "refits" /\ Fleet!RefitNext /\ Len(ships') <= 1 /\ DOMAIN shipState' \subseteq {1}
  \/ focus = "skins" /\ Fleet!SkinNext
  \/ focus = "auctions" /\ Fleet!AuctionNext /\ DOMAIN skins' \subseteq {1} /\ counter' <= 3

TariffNext ==
  \/ focus \in {"prices", "oracle", "grants", "mobile"} /\ Tariff!Tick
  \/ focus = "prices" /\ Tariff!PriceNext
  \/ focus = "oracle" /\ Tariff!OracleNext /\ Len(sources') <= 1 /\ now <= 2
     /\ admin' \in {none, alice} /\ boardAdmin' \in {none, bob}
  \/ focus = "grants" /\ Tariff!GrantNext
  \/ focus = "mobile" /\ Tariff!MobileNext

\* houses, fractions and blueprints of two players; one of three crafts, and
\* has its house visited by the others
HoldNext ==
  \/ focus = "furnish" /\ Hold!FurnishNext /\ DOMAIN house' \subseteq {alice, bob}
  \/ focus = "visits" /\ Hold!VisitNext /\ DOMAIN house' \subseteq {alice}
  \/ focus = "shares" /\ ~reused /\ Hold!ShareNext
     /\ DOMAIN ownerShares' \subseteq {alice, bob} /\ fractionAdmin' \in {none, alice}
  \/ focus = "craft" /\ Hold!CraftNext /\ \A x \in DOMAIN materials' : x[1] = alice
  \/ focus = "blueprints" /\ Hold!BlueprintNext
     /\ \A i \in DOMAIN blueprints' : blueprints'[i].owner # carol

fleetVars == <<ships, ownerShips, funds, earned, config, totalBurned, shipState, economy,
               upgradeSpend, shipLevel, curve, levelSpend, counter, skins, ownerSkins, shipSkin,
               packs, auctions, fused>>
tariffVars == <<pricingAdmin, pricingConfig, price, priceHistory, accepted, boardAdmin, sources,
                oraclePrice, oracleHistory, triggers, disabled, fund, dailyCount, lastReset,
                sponsored, sponsorConfig, lifetime, userDaily, session, fraudScore, funded,
                paidOut, granted, uses>>
holdVars == <<profiles, stardust, house, furniture, placements, ratings, visitors, featured,
              fractionAdmin, shareCounter, shares, ownerShares, resource, fractionConfig, created,
              merged, reused, materials, xp, level, skillPoints, specialization, nodes, mastery,
              unlocked, sink, received, produced, blueprints, blueprintCount, appliedTo>>

MarketStep ==
  /\ \/ MarketNext /\ UNCHANGED <<now, admin, fleetVars, tariffVars, holdVars>>
     \/ FleetNext /\ UNCHANGED <<vars, tariffVars, holdVars>>
     \/ TariffNext /\ UNCHANGED <<vars, fleetVars, holdVars>>
     \/ HoldNext /\ UNCHANGED <<vars, now, admin, fleetVars, tariffVars>>
  /\ UNCHANGED focus

MarketSpec == MarketInit /\ [][MarketStep]_<<vars, Fleet!vars, Tariff!vars, Hold!vars, focus>>
-----------------------------------------------------------------------------

\* place_bid, claim_auction: bids rise until the end, and a claim after it
\* gives the skin to the highest bidder.
AuctionsFair == Fleet!AuctionsFair


\* update_resource_price, batch_update_prices: the oracle's latest price ends
\* its history.  sponsor_first_scan, use_mobile_session: what came into the
\* fund is there or was granted, the counter is the day's grants, and sessions
\* are used in time.
SponsorBooksAgree ==
  focus \in tariffParts =>
    /\ Tariff!TypeOK /\ Tariff!OracleAgrees /\ Tariff!SponsorBooksAgree /\ Tariff!SessionsUsedInTime

\* What players hold (player_housing.rs, fractional_resources.rs, crafting.rs,
\* blueprint_factory.rs): houses agree with their furniture and ratings,
\* fractions with the whole they came from, balances with what was crafted,
\* and a blueprint is applied to one ship.
HoldingsAgree ==
  focus \in holdParts =>
    /\ Hold!TypeOK /\ Hold!HousesAgree /\ Hold!SharesAgree /\ Hold!CraftingAgrees
    /\ Hold!BlueprintsAppliedOnce
=============================================================================
