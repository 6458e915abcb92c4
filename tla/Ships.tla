------------------------------- MODULE Ships -------------------------------
(***************************************************************************)
(* Ships and what is spent on them: the ship registry (ship_nft.rs),       *)
(* repairs (ship_repair.rs), modules and levels (ship_upgrade.rs) priced   *)
(* by the progression curves (economics/progression_model.rs), skins with  *)
(* packs, fusion and auctions (ship_customization.rs) and the catalogue of *)
(* templates (skins.rs).  Resources are of one asset; a call refused by    *)
(* the rate limiter has no effect, like every call that fails.             *)
(***************************************************************************)
EXTENDS Integers, Sequences, FiniteSets, SequencesExt, FiniteSetsExt, Functions

CONSTANTS Player, NoOne,
          Blueprint,          \* component -> [cost, mass]
          Damage, Grant,      \* amounts of damage, of resources earned
          RepairConfigs, Economies, Curves,
          MaxModules, MaxMass, MaxBatchUpgrades,
          Bid, Duration, Rolls, PackSize,
          MaxShips, MaxGranted, MaxIds, MaxTime, MaxLevelReached \* bounds of the runs

VARIABLES now,
          ships, ownerShips,  \* Ship(id), OwnerShips(owner)
          balance, granted,   \* ResourceBalance(player, asset); history: all ever earned
          admin, config,      \* the instance slots Admin and Config, which repairs and upgrades share
          totalBurned,
          shipState, economy, upgradeSpend,
          shipLevel, curve, levelSpend,
          counter, skins, ownerSkins, shipSkin, packs, auctions, fused

slotVars == <<admin, config>>
hullVars == <<ships, ownerShips, totalBurned>>
refitVars == <<shipState, economy, upgradeSpend, shipLevel, curve, levelSpend>>
skinVars == <<counter, skins, ownerSkins, shipSkin, packs, auctions, fused>>
vars == <<now, balance, granted, slotVars, hullVars, refitVars, skinVars>>

With(f, k, v) == [x \in DOMAIN f \cup {k} |-> IF x = k THEN v ELSE f[x]]
Get(f, k, default) == IF k \in DOMAIN f THEN f[k] ELSE default
Bps(x, bps) == (x \div 10000) * bps + ((x % 10000) * bps) \div 10000
MaxDurability == 100
DefaultRepair == [perPoint |-> 2, surcharge |-> 5000, perCall |-> 50]
DefaultCurve == [kind |-> "Exponential", base |-> 1449, growth |-> 3500]

Init ==
  /\ now = 0
  /\ ships = << >> /\ ownerShips = [p \in Player |-> << >>]
  /\ balance = [p \in Player |-> 0] /\ granted = 0
  /\ admin = NoOne /\ totalBurned = 0
  /\ config = [holds |-> "nothing", repair |-> DefaultRepair]
  /\ shipState = << >> /\ upgradeSpend = 0
  /\ economy = [growth |-> 6000, cap |-> 100000]
  /\ shipLevel = << >> /\ levelSpend = 0
  /\ curve = DefaultCurve
  /\ counter = 0 /\ skins = << >> /\ ownerSkins = [p \in Player |-> << >>] /\ shipSkin = << >>
  /\ packs = << >> /\ auctions = << >> /\ fused = {}

Tick ==
  /\ now < MaxTime
  /\ now' = now + 1
  /\ UNCHANGED <<balance, granted, slotVars, hullVars, refitVars, skinVars>>

\* Resources come from harvests and mints elsewhere in the contract.
Earn(p, amount) ==
  /\ granted + amount <= MaxGranted
  /\ balance' = [balance EXCEPT ![p] = @ + amount] /\ granted' = granted + amount
  /\ UNCHANGED <<now, slotVars, hullVars, refitVars, skinVars>>
-----------------------------------------------------------------------------
(* ship_nft.rs *)

StatsForType == [fighter |-> <<150, 20>>, explorer |-> <<80, 50>>, hauler |-> <<200, 10>>]

NewShip(p, type) == [owner |-> p, hull |-> StatsForType[type][1], scanner |-> StatsForType[type][2],
                     durability |-> MaxDurability, uri |-> FALSE]

\* batch_mint_ships, and mint_ship for a batch of one.
MintShips(p, types) ==
  /\ Len(types) <= 3
  /\ Len(ships) + Len(types) <= MaxShips
  /\ ships' = ships \o [i \in DOMAIN types |-> NewShip(p, types[i])]
  /\ ownerShips' = [ownerShips EXCEPT ![p] = @ \o [i \in DOMAIN types |-> Len(ships) + i]]
  /\ UNCHANGED <<now, balance, granted, slotVars, totalBurned, refitVars, skinVars>>

\* A transfer that leaves the ship in the old owner's list, for the mutants.
TransferKept(from, to, s) ==
  /\ s \in DOMAIN ships /\ ships[s].owner = from /\ from # to
  /\ ships' = [ships EXCEPT ![s].owner = to]
  /\ ownerShips' = [ownerShips EXCEPT ![to] = Append(@, s)]
  /\ UNCHANGED <<now, balance, granted, slotVars, totalBurned, refitVars, skinVars>>

TransferShip(from, to, s) ==
  /\ s \in DOMAIN ships /\ ships[s].owner = from /\ from # to
  /\ ships' = [ships EXCEPT ![s].owner = to]
  /\ ownerShips' = [ownerShips EXCEPT ![from] = SelectSeq(@, LAMBDA x : x # s), ![to] = Append(@, s)]
  /\ UNCHANGED <<now, balance, granted, slotVars, totalBurned, refitVars, skinVars>>

DamageShip(s, amount) ==
  /\ s \in DOMAIN ships
  /\ ships' = [ships EXCEPT ![s].durability = Max({@ - amount, 0})]
  /\ UNCHANGED <<now, balance, granted, slotVars, ownerShips, totalBurned, refitVars,
                 skinVars>>

SetMetadata(p, s) ==
  /\ s \in DOMAIN ships /\ ships[s].owner = p
  /\ ships' = [ships EXCEPT ![s].uri = TRUE]
  /\ UNCHANGED <<now, balance, granted, slotVars, ownerShips, totalBurned, refitVars,
                 skinVars>>
-----------------------------------------------------------------------------
(* ship_repair.rs *)

ValidateConfig(c) == c.perPoint # 0 /\ c.perCall # 0 /\ c.surcharge <= 100000

InitRepairConfig(p, c) ==
  /\ admin = NoOne /\ ValidateConfig(c)
  /\ admin' = p /\ config' = [holds |-> "repair", repair |-> c]
  /\ UNCHANGED <<now, balance, granted, hullVars, refitVars, skinVars>>

SetRepairConfig(p, c) ==
  /\ admin = p /\ ValidateConfig(c)
  /\ config' = [holds |-> "repair", repair |-> c]
  /\ UNCHANGED <<now, balance, granted, admin, hullVars, refitVars, skinVars>>

\* get_repair_config: the default while the slot is empty; a map of blueprints in
\* the slot cannot be read as a repair configuration, and the call traps.
CanReadRepairConfig == config.holds # "blueprints"
GetRepairConfig == config.repair

RepairCost(points, emergency) ==
  Bps(points * GetRepairConfig.perPoint,
      IF emergency THEN 10000 + GetRepairConfig.surcharge ELSE 10000)

\* quote_repair: how many points the next repair restores, and its price.
QuoteRepair(s, emergency) ==
  LET points == Min({MaxDurability - ships[s].durability, GetRepairConfig.perCall})
  IN  [points |-> points, cost |-> RepairCost(points, emergency)]

\* A repair that restores everything for the price of one call, for the mutants.
RepairWhole(p, s, emergency) ==
  LET quote == QuoteRepair(s, emergency)
  IN  /\ s \in DOMAIN ships /\ ships[s].owner = p
      /\ balance[p] >= quote.cost
      /\ balance' = [balance EXCEPT ![p] = @ - quote.cost]
      /\ ships' = [ships EXCEPT ![s].durability = @ + 50]
      /\ totalBurned' = totalBurned + quote.cost
      /\ UNCHANGED <<now, granted, slotVars, ownerShips, refitVars, skinVars>>

Repairable(p, s, emergency) ==
  /\ s \in DOMAIN ships /\ ships[s].owner = p
  /\ CanReadRepairConfig
  /\ ships[s].durability < MaxDurability
  /\ balance[p] >= QuoteRepair(s, emergency).cost

RepairShip(p, s, emergency) ==
  LET quote == QuoteRepair(s, emergency)
  IN  /\ Repairable(p, s, emergency)
      /\ balance' = [balance EXCEPT ![p] = @ - quote.cost]
      /\ ships' = [ships EXCEPT ![s].durability = @ + quote.points]
      /\ totalBurned' = totalBurned + quote.cost
      /\ UNCHANGED <<now, granted, slotVars, ownerShips, refitVars, skinVars>>

\* ship_nft::repair_ship, which is free.
RepairShipFree(p, s) ==
  /\ s \in DOMAIN ships /\ ships[s].owner = p
  /\ ships' = [ships EXCEPT ![s].durability = MaxDurability]
  /\ UNCHANGED <<now, balance, granted, slotVars, ownerShips, totalBurned, refitVars,
                 skinVars>>

HullNext ==
  \/ \E p \in Player, x \in Grant : Earn(p, x)
  \/ \E p \in Player, types \in {<<"fighter">>, <<"hauler", "explorer">>} : MintShips(p, types)
  \/ \E p \in Player, c \in RepairConfigs : InitRepairConfig(p, c) \/ SetRepairConfig(p, c)
  \/ \E s \in DOMAIN ships :
       \/ \E x \in Damage : DamageShip(s, x)
       \/ \E p, q \in Player : TransferShip(p, q, s)
       \/ \E p \in Player : SetMetadata(p, s) \/ RepairShipFree(p, s)
       \/ \E p \in Player, emergency \in BOOLEAN : RepairShip(p, s, emergency)
-----------------------------------------------------------------------------
(* ship_upgrade.rs *)

InitUpgradeConfig(p) ==
  /\ admin = NoOne
  /\ admin' = p /\ config' = [config EXCEPT !.holds = "blueprints"]
  /\ UNCHANGED <<now, balance, granted, hullVars, refitVars, skinVars>>

SetUpgradeEconomy(p, e) ==
  /\ admin = p /\ e.growth <= 100000
  /\ economy' = e
  /\ UNCHANGED <<now, balance, granted, slotVars, hullVars, shipState, upgradeSpend, shipLevel,
                 curve, levelSpend, skinVars>>

\* scaled_upgrade_cost: grows with every module installed, up to the cap (0: none).
Grown[n \in Nat, base \in Nat] ==
  IF n = 0 THEN base ELSE Bps(Grown[n - 1, base], 10000 + economy.growth)

ScaledUpgradeCost(base, installed) ==
  LET cost == Grown[Min({installed, MaxModules}), base]
  IN  IF economy.cap = 0 THEN cost ELSE Min({cost, economy.cap})

\* A batch priced as if every module were the next one, for the mutants.
UpgradedFlat(acc, p, s, component) ==
  LET before == Get(acc.states, s, [modules |-> 0, mass |-> 0])
      after == [modules |-> before.modules + 1, mass |-> before.mass + Blueprint[component].mass]
  IN  [states |-> With(acc.states, s, after), balance |-> acc.balance - Blueprint[component].cost,
       spend |-> acc.spend + ScaledUpgradeCost(Blueprint[component].cost, before.modules),
       ok |-> acc.ok /\ acc.balance >= Blueprint[component].cost /\ after.modules <= MaxModules
              /\ after.mass <= MaxMass]

\* apply_upgrade_inner on a state of its own: [states, balance, spend, ok].
Upgraded(acc, p, s, component) ==
  LET before == Get(acc.states, s, [modules |-> 0, mass |-> 0])
      cost == ScaledUpgradeCost(Blueprint[component].cost, before.modules)
      after == [modules |-> before.modules + 1, mass |-> before.mass + Blueprint[component].mass]
  IN  [states |-> With(acc.states, s, after), balance |-> acc.balance - cost,
       spend |-> acc.spend + cost,
       ok |-> acc.ok /\ acc.balance >= cost /\ after.modules <= MaxModules /\ after.mass <= MaxMass]

\* batch_upgrade, and apply_upgrade for a batch of one: all of it or nothing.
\* Any player may pay for a module of any ship id.
BatchUpgrade(p, s, components) ==
  LET start == [states |-> shipState, balance |-> balance[p], spend |-> upgradeSpend, ok |-> TRUE]
      after[i \in 0 .. Len(components)] ==
        IF i = 0 THEN start ELSE Upgraded(after[i - 1], p, s, components[i])
      end == after[Len(components)]
  IN  /\ config.holds = "blueprints"
      /\ Len(components) \in 1 .. MaxBatchUpgrades
      /\ end.ok
      /\ shipState' = end.states /\ upgradeSpend' = end.spend
      /\ balance' = [balance EXCEPT ![p] = end.balance]
      /\ UNCHANGED <<now, granted, slotVars, hullVars, economy, shipLevel, curve, levelSpend,
                     skinVars>>
-----------------------------------------------------------------------------
(* Levels: economics/progression_model.rs and the rest of ship_upgrade.rs *)

MaxLevel == 20

Log2Q8 == <<0, 256, 406, 512, 594, 662, 719, 768, 811, 850, 886, 918, 947, 974, 1000, 1024, 1047,
            1067, 1087, 1105>>

\* Prices rounded down to the hundred, for the mutants.
RoundPrice(raw) == (raw \div 100) * 100

\* Prices end in 49 or 99, whichever is nearest.
PsychologicalPrice(raw) ==
  LET lower == IF raw % 100 >= 99 THEN raw ELSE IF raw % 100 >= 49 THEN (raw \div 100) * 100 + 49
                                           ELSE (raw \div 100 - 1) * 100 + 99
  IN  IF raw < 49 THEN raw ELSE IF raw - lower <= lower + 50 - raw THEN lower ELSE lower + 50

Compounded[n \in Nat, base \in Nat, growth \in Nat] ==
  IF n = 0 THEN base ELSE Bps(Compounded[n - 1, base, growth], 10000 + growth)

IsValidCurve(c) == c.base > 0 /\ c.growth <= 100000

RawLevelCost(c, level) ==
  IF level \notin 1 .. MaxLevel \/ ~IsValidCurve(c) THEN 0
  ELSE CASE c.kind = "Linear" -> c.base + Bps(c.base, c.growth) * (level - 1)
         [] c.kind = "Exponential" -> Compounded[level - 1, c.base, c.growth]
         [] c.kind = "Logarithmic" -> Bps(c.base, 10000 + (c.growth * Log2Q8[level]) \div 256)

LevelCost(c, level) == PsychologicalPrice(RawLevelCost(c, level))

CumulativeCost(c, level) == MapThenSumSet(LAMBDA l : LevelCost(c, l), 1 .. Min({level, MaxLevel}))

DailyIncome == [casual |-> 3650, regular |-> 7300, hardcore |-> 14600]

DaysToLevel(c, style, level) ==
  (CumulativeCost(c, level) + DailyIncome[style] - 1) \div DailyIncome[style]

\* meets_retention_targets, on the report of simulate.
MeetsRetentionTargets(c) ==
  /\ DaysToLevel(c, "casual", 5) <= 7 /\ DaysToLevel(c, "casual", 10) <= 30
  /\ DaysToLevel(c, "regular", 5) <= 3 /\ DaysToLevel(c, "regular", 10) <= 14
  /\ DaysToLevel(c, "hardcore", 5) <= 1 /\ DaysToLevel(c, "hardcore", 10) <= 7
  /\ DaysToLevel(c, "hardcore", MaxLevel) >= 60

DefaultMeetsTargets == MeetsRetentionTargets(DefaultCurve)

SetProgressionCurve(p, c) ==
  /\ admin = p /\ IsValidCurve(c)
  /\ curve' = c
  /\ UNCHANGED <<now, balance, granted, slotVars, hullVars, shipState, economy, upgradeSpend,
                 shipLevel, levelSpend, skinVars>>

\* A level bought at the price of the one already reached, for the mutants.
UpgradeLevelLate(p, s) ==
  LET cost == LevelCost(curve, Get(shipLevel, s, 0))
  IN  /\ s \in DOMAIN ships /\ ships[s].owner = p
      /\ Get(shipLevel, s, 0) < MaxLevelReached
      /\ balance[p] >= cost
      /\ balance' = [balance EXCEPT ![p] = @ - cost]
      /\ levelSpend' = levelSpend + LevelCost(curve, Get(shipLevel, s, 0) + 1)
      /\ shipLevel' = With(shipLevel, s, Get(shipLevel, s, 0) + 1)
      /\ UNCHANGED <<now, granted, slotVars, hullVars, shipState, economy, upgradeSpend, curve,
                     skinVars>>

UpgradeShipLevel(p, s) ==
  LET next == Get(shipLevel, s, 0) + 1
      cost == LevelCost(curve, next)
  IN  /\ s \in DOMAIN ships /\ ships[s].owner = p
      /\ next <= MaxLevel /\ next <= MaxLevelReached
      /\ balance[p] >= cost
      /\ balance' = [balance EXCEPT ![p] = @ - cost]
      /\ levelSpend' = levelSpend + cost
      /\ shipLevel' = With(shipLevel, s, next)
      /\ UNCHANGED <<now, granted, slotVars, hullVars, shipState, economy, upgradeSpend, curve,
                     skinVars>>

RefitNext ==
  \/ \E p \in Player, x \in Grant : Earn(p, x)
  \/ \E p \in Player : MintShips(p, <<"fighter">>) \/ InitUpgradeConfig(p)
  \/ \E p \in Player, c \in RepairConfigs : SetRepairConfig(p, c)
  \/ \E p \in Player, e \in Economies : SetUpgradeEconomy(p, e)
  \/ \E p \in Player, c \in Curves : SetProgressionCurve(p, c)
  \/ \E p \in Player, s \in 1 .. MaxShips :
       \/ UpgradeShipLevel(p, s)
       \/ \E cs \in BoundedSeq(DOMAIN Blueprint, 2) : BatchUpgrade(p, s, cs)
-----------------------------------------------------------------------------
(* skins.rs *)

Rarity == <<"Common", "Rare", "Epic", "Legendary">>

CommonNames ==
  {"basic", "red", "blue", "green", "yellow", "purple", "cyan", "orange", "pink", "white"}

RareNames ==
  {"flame", "ice", "toxic", "shadow", "gold", "silver", "bronze", "emerald", "ruby", "sapphire",
   "amethyst", "topaz", "pearl", "onyx", "jade", "coral", "turquois", "crimson", "indigo", "violet"}

EpicNames ==
  {"plasma", "nebula", "cosmic", "aurora", "galaxy", "quantum", "photon", "neutron", "pulsar",
   "quasar", "supernov", "blackhol", "wormhole", "starborn", "eclipse"}

LegendaryNames == {"void", "stellar", "infinity", "eternity", "genesis"}

TemplateNames == <<CommonNames, RareNames, EpicNames, LegendaryNames>>

GetSkinTemplates ==
  UNION {{[name |-> n, rarity |-> r, price |-> <<100, 500, 2000, 10000>>[r]] : n \in TemplateNames[r]} :
         r \in DOMAIN Rarity}

RarityFloorPrice(r) == <<100, 500, 2000, 10000>>[r]
RarityDropWeightBps(r) == <<6000, 3000, 900, 100>>[r]
GetTemplatesByRarity(r) == {t \in GetSkinTemplates : t.rarity = r}
GetTemplatesByPriceRange(low, high) == {t \in GetSkinTemplates : t.price \in low .. high}


RollRarity(seed) == 1 + Cardinality({limit \in {6000, 9000, 9900} : seed % 10000 >= limit})

DropRates == [r \in DOMAIN Rarity |-> Cardinality({x \in 0 .. 9999 : RollRarity(x) = r})]
-----------------------------------------------------------------------------
(* ship_customization.rs: one counter gives ids to skins, packs and auctions *)

\* mint_skin.
Minted(p, rarities) ==
  /\ skins' = [id \in DOMAIN skins \cup {counter + i : i \in DOMAIN rarities} |->
                 IF id \in DOMAIN skins THEN skins[id]
                 ELSE [owner |-> p, rarity |-> rarities[id - counter], tradeable |-> TRUE]]
  /\ ownerSkins' = [ownerSkins EXCEPT ![p] = @ \o [i \in DOMAIN rarities |-> counter + i]]
  /\ counter' = counter + Len(rarities)

MintSkin(p, r) ==
  /\ counter < MaxIds
  /\ Minted(p, <<r>>)
  /\ UNCHANGED <<now, balance, granted, slotVars, hullVars, refitVars, shipSkin, packs, auctions, fused>>

ApplySkin(p, ship, id) ==
  /\ id \in DOMAIN skins /\ skins[id].owner = p
  /\ shipSkin' = With(shipSkin, ship, id)
  /\ UNCHANGED <<now, balance, granted, slotVars, hullVars, refitVars, counter, skins, ownerSkins, packs,
                 auctions, fused>>

CreateSkinPack(guaranteed) ==
  /\ counter < MaxIds
  /\ counter' = counter + 1
  /\ packs' = With(packs, counter + 1, [size |-> PackSize, guaranteed |-> guaranteed])
  /\ UNCHANGED <<now, balance, granted, slotVars, hullVars, refitVars, skins, ownerSkins, shipSkin, auctions,
                 fused>>

\* open_skin_pack: the first skin has the guaranteed rarity if there is one
\* above common; the generator's rolls are any residues.  A pack can be opened
\* again, by anyone.
OpenSkinPack(p, pack, rolls) ==
  LET rarity(i) == IF i = 1 /\ packs[pack].guaranteed > 1 THEN packs[pack].guaranteed
                                                          ELSE RollRarity(rolls[i])
  IN  /\ pack \in DOMAIN packs
      /\ counter + PackSize <= MaxIds
      /\ Minted(p, [i \in 1 .. PackSize |-> rarity(i)])
      /\ UNCHANGED <<now, balance, granted, slotVars, hullVars, refitVars, shipSkin, packs, auctions, fused>>

\* A fusion that leaves its result out of the owner's list, for the mutants.
FuseUnlisted(p, ids) ==
  LET r == skins[ids[1]].rarity
      kept == DOMAIN skins \ ToSet(ids)
  IN  /\ Len(ids) >= 3
      /\ \A i \in DOMAIN ids : ids[i] \in DOMAIN skins /\ skins[ids[i]].owner = p
      /\ \A i \in DOMAIN ids : skins[ids[i]].rarity = r
      /\ r < 4 /\ counter < MaxIds
      /\ skins' = [id \in kept \cup {counter + 1} |->
                     IF id \in kept THEN skins[id]
                     ELSE [owner |-> p, rarity |-> r + 1, tradeable |-> TRUE]]
      /\ ownerSkins' = [ownerSkins EXCEPT ![p] = SelectSeq(@, LAMBDA x : x \notin ToSet(ids))]
      /\ counter' = counter + 1
      /\ fused' = fused \cup {counter + 1}
      /\ UNCHANGED <<now, balance, granted, slotVars, hullVars, refitVars, shipSkin, packs, auctions>>

\* fuse_skins: three ids of skins of one rarity, which may be the same id.
FuseSkins(p, ids) ==
  LET r == skins[ids[1]].rarity
      kept == DOMAIN skins \ ToSet(ids)
  IN  /\ Len(ids) >= 3
      /\ \A i \in DOMAIN ids : ids[i] \in DOMAIN skins /\ skins[ids[i]].owner = p
      /\ \A i \in DOMAIN ids : skins[ids[i]].rarity = r
      /\ r < 4 /\ counter < MaxIds
      /\ skins' = [id \in kept \cup {counter + 1} |->
                     IF id \in kept THEN skins[id]
                     ELSE [owner |-> p, rarity |-> r + 1, tradeable |-> TRUE]]
      /\ ownerSkins' = [ownerSkins EXCEPT ![p] = Append(SelectSeq(@, LAMBDA x : x \notin ToSet(ids)),
                                                        counter + 1)]
      /\ counter' = counter + 1
      /\ fused' = fused \cup {counter + 1}
      /\ UNCHANGED <<now, balance, granted, slotVars, hullVars, refitVars, shipSkin, packs, auctions>>

\* create_auction: the skin stays with its seller, tradeable.
CreateAuction(p, id, start, duration) ==
  /\ id \in DOMAIN skins /\ skins[id].owner = p
  /\ counter < MaxIds
  /\ counter' = counter + 1
  /\ auctions' = With(auctions, counter + 1,
                      [skin |-> id, seller |-> p, start |-> start, bid |-> 0, bidder |-> NoOne,
                       ends |-> now + duration])
  /\ UNCHANGED <<now, balance, granted, slotVars, hullVars, refitVars, skins, ownerSkins, shipSkin, packs, fused>>

\* A bid that equals the highest is enough, for the mutants.
BidEqual(p, a, amount) ==
  /\ a \in DOMAIN auctions /\ now < auctions[a].ends
  /\ amount >= auctions[a].start /\ amount >= auctions[a].bid
  /\ auctions' = [auctions EXCEPT ![a].bid = amount, ![a].bidder = p]
  /\ UNCHANGED <<now, balance, granted, slotVars, hullVars, refitVars, counter, skins, ownerSkins, shipSkin,
                 packs, fused>>

PlaceBid(p, a, amount) ==
  /\ a \in DOMAIN auctions /\ now < auctions[a].ends
  /\ amount >= auctions[a].start /\ amount > auctions[a].bid
  /\ auctions' = [auctions EXCEPT ![a].bid = amount, ![a].bidder = p]
  /\ UNCHANGED <<now, balance, granted, slotVars, hullVars, refitVars, counter, skins, ownerSkins, shipSkin,
                 packs, fused>>

\* claim_auction with transfer_skin_internal, which takes the skin from whoever
\* owns it by now.
ClaimAuction(p, a) ==
  LET au == auctions[a]
      old == skins[au.skin].owner
  IN  /\ a \in DOMAIN auctions /\ now >= au.ends
      /\ au.bidder # NoOne /\ p \in {au.bidder, au.seller}
      /\ au.skin \in DOMAIN skins
      /\ auctions' = Restrict(auctions, DOMAIN auctions \ {a})
      /\ skins' = [skins EXCEPT ![au.skin].owner = au.bidder]
      /\ ownerSkins' = IF old = au.bidder THEN ownerSkins
                       ELSE [ownerSkins EXCEPT ![old] = SelectSeq(@, LAMBDA x : x # au.skin),
                                               ![au.bidder] = Append(@, au.skin)]
      /\ UNCHANGED <<now, balance, granted, slotVars, hullVars, refitVars, counter, shipSkin, packs, fused>>

\* transfer_skin leaves the lists of both owners as they are.
TransferSkin(p, id, to) ==
  /\ id \in DOMAIN skins /\ skins[id].owner = p /\ skins[id].tradeable
  /\ skins' = [skins EXCEPT ![id].owner = to]
  /\ UNCHANGED <<now, balance, granted, slotVars, hullVars, refitVars, counter, ownerSkins, shipSkin, packs,
                 auctions, fused>>

SkinNext ==
  \/ \E p \in Player, r \in 1 .. 2 : MintSkin(p, r)
  \/ \E r \in {1, 4} : CreateSkinPack(r)
  \/ \E p \in Player, k \in DOMAIN packs, rolls \in [1 .. PackSize -> Rolls] : OpenSkinPack(p, k, rolls)
  \/ \E p \in Player, id \in DOMAIN skins : ApplySkin(p, 1, id)
  \/ \E p \in Player, ids \in TupleOf(DOMAIN skins, 3) : FuseSkins(p, ids)

AuctionNext ==
  \/ Tick
  \/ \E p \in Player : MintSkin(p, 1)
  \/ \E p, q \in Player, id \in DOMAIN skins : TransferSkin(p, id, q)
  \/ \E p \in Player, id \in DOMAIN skins, x \in Bid, d \in Duration : CreateAuction(p, id, x, d)
  \/ \E p \in Player, a \in DOMAIN auctions :
       ClaimAuction(p, a) \/ \E x \in Bid : PlaceBid(p, a, x)

Next == HullNext \/ RefitNext \/ SkinNext \/ AuctionNext

Spec == Init /\ [][Next]_vars
-----------------------------------------------------------------------------
\* The state has its types.
TypeOK ==
  /\ balance \in [Player -> Nat] /\ totalBurned \in Nat /\ upgradeSpend \in Nat
  /\ \A s \in DOMAIN ships : ships[s].owner \in Player
  /\ \A id \in DOMAIN skins : skins[id].owner \in Player /\ skins[id].rarity \in DOMAIN Rarity

\* Every unit spent on a ship is accounted for (ship_repair.rs,
\* ship_upgrade.rs): what players earned is in their balances, burned by
\* repairs, or in the totals spent on modules and on levels.
SpendingAgrees ==
  MapThenSumSet(LAMBDA p : balance[p], Player) + totalBurned + upgradeSpend + levelSpend = granted

\* A ship stays within its limits (ship_nft.rs, ship_upgrade.rs): repairs never
\* take it past its full durability, and no batch of modules takes it past the
\* module and mass limits.
ShipsWithinLimits ==
  /\ \A s \in DOMAIN ships : ships[s].durability \in 0 .. MaxDurability
  /\ \A s \in DOMAIN shipState : shipState[s].modules <= MaxModules /\ shipState[s].mass <= MaxMass

\* The lists of owners agree with the ships (ship_nft.rs): through mints and
\* transfers, each ship is in its owner's list, once, and in no other.
OwnersListShips ==
  \A p \in Player :
    /\ ToSet(ownerShips[p]) = {s \in DOMAIN ships : ships[s].owner = p}
    /\ IsInjective(ownerShips[p])

\* Progress is priced as designed (progression_model.rs): under every curve an
\* admin may set no level is cheaper than the one before it and no price is
\* more than 25 off its curve.
LevelsPriced ==
  /\ \A l \in 1 .. MaxLevelReached + 1 :
       LET price == LevelCost(curve, l)
           raw == RawLevelCost(curve, l)
       IN  /\ l > 1 => LevelCost(curve, l - 1) <= price
           /\ price - raw \in -25 .. 25

\* The catalogue is consistent (skins.rs): the templates of a price are the
\* templates of a rarity, and rolls give each rarity as often as its weight
\* says; and the default curve meets the retention targets
\* (progression_model.rs).
CatalogueAgrees ==
  \A r \in DOMAIN Rarity :
    /\ GetTemplatesByPriceRange(RarityFloorPrice(r), RarityFloorPrice(r)) = GetTemplatesByRarity(r)
    /\ DropRates[r] = RarityDropWeightBps(r)
    /\ DefaultMeetsTargets

\* Skins keep their place (ship_customization.rs): an id names one thing, a
\* skin, a pack or an auction, and however skins are minted, fused, sold and
\* transferred each is still in some owner's list.
SkinsListed ==
  /\ DOMAIN skins \cap DOMAIN packs = {} /\ DOMAIN skins \cap DOMAIN auctions = {}
  /\ DOMAIN packs \cap DOMAIN auctions = {}
  /\ \A id \in DOMAIN skins : \E p \in Player : id \in ToSet(ownerSkins[p])

\* Auctions are fair (ship_customization.rs, place_bid and claim_auction): the
\* highest bid only rises, only before the end, and an auction leaves after
\* its end with the skin in the hands of the highest bidder.
AuctionsFair ==
  [][\A a \in DOMAIN auctions :
       IF a \in DOMAIN auctions'
         THEN auctions'[a] # auctions[a] => now < auctions[a].ends /\ auctions'[a].bid > auctions[a].bid
         ELSE now >= auctions[a].ends /\ skins'[auctions[a].skin].owner = auctions[a].bidder]_vars
=============================================================================
