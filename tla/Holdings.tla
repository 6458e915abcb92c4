------------------------------ MODULE Holdings ------------------------------
(***************************************************************************)
(* What players own and make: houses with furniture, visits and ratings    *)
(* (player_housing.rs), resources split into shares                        *)
(* (fractional_resources.rs), crafting with skills and mastery             *)
(* (crafting.rs, recipes.rs) and ship blueprints (blueprint_factory.rs).   *)
(* A call that fails leaves no trace, so only the calls that succeed are   *)
(* actions.                                                                *)
(***************************************************************************)
EXTENDS Integers, Sequences, FiniteSets, SequencesExt, FiniteSetsExt, Functions

CONSTANTS Player, NoOne,
          UpgradeCost, FurnitureLimit, \* by house size, 1 small to 3 large
          Cost, StartDust, Position, MaxVisitorRecords, MaxFeaturedHouses, Rating, Tier,
          ResourceName, Amount, MaxFractionsPerTx, MinShareSize,
          Recipes,            \* recipe id -> recipe
          RareRecipe, RareRarityThreshold, MasteryInterval, XpPerLevel, Grant,
          MaxBatchCraft, MinComponents,
          MaxFurniture, MaxVisits, MaxCount, MaxCrafts, MaxBlueprints

VARIABLES profiles, dust, house, furniture, placements, ratings, visitors, featured,
          fractionAdmin, shareCounter, shares, ownerShares, resource, fractionConfig,
          created, merged, reused, \* history: amounts split and merged, an id given twice
          balance, xp, level, skillPoints, specialization, nodes, mastery, unlocked, sink,
          granted, produced,  \* history: handed to players, put out by crafting
          blueprints, blueprintCount,
          appliedTo           \* history: the ships a blueprint was applied to

houseVars == <<profiles, dust, house, furniture, placements, ratings, visitors, featured>>
shareVars == <<fractionAdmin, shareCounter, shares, ownerShares, resource, fractionConfig,
               created, merged, reused>>
craftVars == <<balance, xp, level, skillPoints, specialization, nodes, mastery, unlocked, sink,
               granted, produced>>
blueprintVars == <<blueprints, blueprintCount, appliedTo>>
vars == <<houseVars, shareVars, craftVars, blueprintVars>>

With(f, k, v) == [x \in DOMAIN f \cup {k} |-> IF x = k THEN v ELSE f[x]]
Get(f, k, default) == IF k \in DOMAIN f THEN f[k] ELSE default
SumOf(f) == MapThenSumSet(LAMBDA x : f[x], DOMAIN f)
SumSeq(s) == FoldFunction(+, 0, s)

Init ==
  /\ profiles \in {p \in SUBSET Player : p # {}} /\ dust = [p \in Player |-> StartDust]
  /\ house = << >> /\ furniture = << >> /\ placements = << >> /\ ratings = << >>
  /\ visitors = << >> /\ featured = << >>
  /\ fractionAdmin = NoOne /\ shareCounter = 0 /\ shares = << >> /\ ownerShares = << >>
  /\ resource = << >> /\ fractionConfig = << >> /\ created = << >> /\ merged = << >>
  /\ reused = FALSE
  /\ balance = << >> /\ xp = << >> /\ level = << >> /\ skillPoints = << >>
  /\ specialization = << >> /\ nodes = {} /\ mastery = << >> /\ unlocked = {} /\ sink = 0
  /\ granted = 0 /\ produced = 0
  /\ blueprints = << >> /\ blueprintCount = 0 /\ appliedTo = << >>
-----------------------------------------------------------------------------
(* player_housing.rs *)

\* resource_minter.rs debit_balance.
Debit(p, amount) ==
  /\ amount > 0 /\ dust[p] >= amount
  /\ dust' = [dust EXCEPT ![p] = @ - amount]

InitializeHouse(p) ==
  /\ p \notin DOMAIN house
  /\ p \in profiles
  /\ house' = With(house, p, [size |-> 1, access |-> "Public", furniture_count |-> 0,
                              total_visits |-> 0, average_rating |-> 0, rating_count |-> 0])
  /\ placements' = With(placements, p, << >>)
  /\ ratings' = With(ratings, p, << >>)
  /\ UNCHANGED <<profiles, dust, furniture, visitors, featured>>

UpgradeHouse(p) ==
  /\ p \in DOMAIN house
  /\ house[p].size < 3
  /\ Debit(p, UpgradeCost[house[p].size])
  /\ house' = [house EXCEPT ![p].size = @ + 1]
  /\ UNCHANGED <<profiles, furniture, placements, ratings, visitors, featured>>

\* set_house_access; customize_theme changes only what a house looks like.
SetHouseAccess(p, access) ==
  /\ p \in DOMAIN house
  /\ house' = [house EXCEPT ![p].access = access]
  /\ UNCHANGED <<profiles, dust, furniture, placements, ratings, visitors, featured>>

DefineFurniture(cost) ==
  /\ Len(furniture) < MaxFurniture
  /\ furniture' = Append(furniture, cost)
  /\ UNCHANGED <<profiles, dust, house, placements, ratings, visitors, featured>>

\* The price is paid; what was bought is not recorded.
PurchaseFurniture(p, id) ==
  /\ p \in DOMAIN house /\ id \in DOMAIN furniture
  /\ Debit(p, furniture[id])
  /\ UNCHANGED <<profiles, house, furniture, placements, ratings, visitors, featured>>

\* Mutant: the count is added to, and not taken from the placements.
RemoveFurnitureUncounted(p, id) ==
  /\ p \in DOMAIN house
  /\ \E i \in DOMAIN placements[p] :
       /\ placements[p][i].id = id
       /\ placements' = [placements EXCEPT ![p] = RemoveAt(@, i)]
  /\ UNCHANGED <<profiles, dust, house, furniture, ratings, visitors, featured>>

PlaceFurniture(p, id, position) ==
  /\ p \in DOMAIN house /\ id \in DOMAIN furniture
  /\ house[p].furniture_count < FurnitureLimit[house[p].size]
  /\ placements' = [placements EXCEPT ![p] = Append(@, [id |-> id, at |-> position])]
  /\ house' = [house EXCEPT ![p].furniture_count = Len(placements'[p])]
  /\ UNCHANGED <<profiles, dust, furniture, ratings, visitors, featured>>

\* The first placement of the item goes.
RemoveFurniture(p, id) ==
  /\ p \in DOMAIN house
  /\ \E i \in DOMAIN placements[p] :
       /\ placements[p][i].id = id /\ \A j \in 1..(i - 1) : placements[p][j].id # id
       /\ placements' = [placements EXCEPT ![p] = RemoveAt(@, i)]
  /\ house' = [house EXCEPT ![p].furniture_count = Len(placements'[p])]
  /\ UNCHANGED <<profiles, dust, furniture, ratings, visitors, featured>>

\* Friends are all players with a profile.
VisitHouse(v, p) ==
  /\ p \in DOMAIN house
  /\ house[p].total_visits < MaxVisits
  /\ \/ house[p].access = "Public"
     \/ house[p].access = "Private" /\ v = p
     \/ house[p].access = "FriendsOnly" /\ v \in profiles
  /\ house' = [house EXCEPT ![p].total_visits = @ + 1]
  /\ visitors' = IF Len(Get(visitors, p, << >>)) < MaxVisitorRecords
                 THEN With(visitors, p, Append(Get(visitors, p, << >>), v)) ELSE visitors
  /\ UNCHANGED <<profiles, dust, furniture, placements, ratings, featured>>

\* Mutant: the average of the house is the one before this rating.
RateHouseLate(v, p, rating) ==
  /\ v # p /\ p \in DOMAIN house
  /\ \A i \in DOMAIN ratings[p] : ratings[p][i].rater # v
  /\ ratings' = [ratings EXCEPT ![p] = Append(@, [rater |-> v, rating |-> rating])]
  /\ LET given == [i \in DOMAIN ratings[p] |-> ratings[p][i].rating]
     IN  house' = [house EXCEPT
           ![p].average_rating = IF given = << >> THEN rating ELSE SumSeq(given) \div Len(given),
           ![p].rating_count = Len(given) + 1]
  /\ UNCHANGED <<profiles, dust, furniture, placements, visitors, featured>>

RateHouse(v, p, rating) ==
  /\ v # p /\ rating \in 100..500 /\ p \in DOMAIN house
  /\ \A i \in DOMAIN ratings[p] : ratings[p][i].rater # v
  /\ ratings' = [ratings EXCEPT ![p] = Append(@, [rater |-> v, rating |-> rating])]
  /\ LET given == [i \in DOMAIN ratings'[p] |-> ratings'[p][i].rating]
     IN  house' = [house EXCEPT ![p].average_rating = SumSeq(given) \div Len(given),
                                ![p].rating_count = Len(given)]
  /\ UNCHANGED <<profiles, dust, furniture, placements, visitors, featured>>

\* A house already featured in the tier stays where it is.
FeatureHouse(p, tier) ==
  LET list == Get(featured, tier, << >>)
  IN  /\ p \in DOMAIN house
      /\ Len(list) < MaxFeaturedHouses
      /\ featured' = IF Contains(list, p) THEN featured ELSE With(featured, tier, Append(list, p))
      /\ UNCHANGED <<profiles, dust, house, furniture, placements, ratings, visitors>>

FurnishNext ==
  /\ \E p \in Player :
       \/ InitializeHouse(p) \/ UpgradeHouse(p)
       \/ \E c \in Cost : DefineFurniture(c)
       \/ \E id \in 1..MaxFurniture :
            \/ PurchaseFurniture(p, id) \/ RemoveFurniture(p, id)
            \/ \E at \in Position : PlaceFurniture(p, id, at)
  /\ UNCHANGED <<shareVars, craftVars, blueprintVars>>

VisitNext ==
  /\ \E p \in Player :
       \/ InitializeHouse(p)
       \/ \E access \in {"Public", "Private", "FriendsOnly"} : SetHouseAccess(p, access)
       \/ \E v \in Player : VisitHouse(v, p) \/ \E r \in Rating : RateHouse(v, p, r)
       \/ \E t \in Tier : FeatureHouse(p, t)
  /\ UNCHANGED <<shareVars, craftVars, blueprintVars>>
-----------------------------------------------------------------------------
(* fractional_resources.rs *)

\* Any later call starts the ids of shares and resources again.
InitializeFractional(admin) ==
  /\ fractionAdmin' = admin
  /\ shareCounter' = 0
  /\ fractionConfig' = <<MinShareSize, MaxFractionsPerTx>>
  /\ reused' = (reused \/ shareCounter > 0)
  /\ UNCHANGED <<shares, ownerShares, resource, created, merged>>

\* The resource takes an id of its own before its shares do.
FractionalizeResource(p, name, amount, n) ==
  LET id == shareCounter + 1
      ids == (id + 1) .. (id + n)
  IN  /\ n \in 1..MaxFractionsPerTx
      /\ amount \div n >= MinShareSize /\ amount % n = 0
      /\ id + n <= MaxCount
      /\ shareCounter' = id + n
      /\ resource' = With(resource, name, [id |-> id, owner |-> p, total |-> amount,
                                           fractionalized |-> TRUE])
      /\ shares' = [s \in DOMAIN shares \cup ids |->
                      IF s \in ids THEN [owner |-> p, name |-> name, amount |-> amount \div n,
                                         original |-> id] ELSE shares[s]]
      /\ ownerShares' = With(ownerShares, p,
                             Get(ownerShares, p, << >>) \o [i \in 1..n |-> id + i])
      /\ created' = With(created, id, amount)
      /\ UNCHANGED <<fractionAdmin, fractionConfig, merged, reused>>

\* Mutant: the merged shares are kept.
MergeKept(p, ids) ==
  /\ ids # {} /\ ids \subseteq DOMAIN shares
  /\ \A s \in ids : shares[s].owner = p
  /\ \E original \in DOMAIN created :
       /\ \A s \in ids : shares[s].original = original
       /\ merged' = With(merged, original, Get(merged, original, 0)
                           + MapThenSumSet(LAMBDA s : shares[s].amount, ids))
  /\ UNCHANGED <<fractionAdmin, shareCounter, shares, ownerShares, resource, fractionConfig,
                 created, reused>>

\* Each share is named once: a repeated id changes only the amount reported.
MergeFractions(p, ids) ==
  /\ ids # {} /\ ids \subseteq DOMAIN shares
  /\ \A s \in ids : shares[s].owner = p
  /\ \A s, t \in ids : shares[s].name = shares[t].name /\ shares[s].original = shares[t].original
  /\ LET some == shares[CHOOSE s \in ids : TRUE]
     IN  /\ resource' = [resource EXCEPT ![some.name].fractionalized = FALSE]
         /\ merged' = With(merged, some.original, Get(merged, some.original, 0)
                             + MapThenSumSet(LAMBDA s : shares[s].amount, ids))
  /\ shares' = Restrict(shares, DOMAIN shares \ ids)
  /\ ownerShares' = [ownerShares EXCEPT ![p] = SelectSeq(@, LAMBDA s : s \notin ids)]
  /\ UNCHANGED <<fractionAdmin, shareCounter, fractionConfig, created, reused>>

\* Mutant: the share is not taken from its old owner's list.
TransferShareListed(from, to, s) ==
  /\ s \in DOMAIN shares /\ shares[s].owner = from
  /\ shares' = [shares EXCEPT ![s].owner = to]
  /\ ownerShares' = With(ownerShares, to, Append(Get(ownerShares, to, << >>), s))
  /\ UNCHANGED <<fractionAdmin, shareCounter, resource, fractionConfig, created, merged, reused>>

TransferShare(from, to, s) ==
  /\ s \in DOMAIN shares /\ shares[s].owner = from
  /\ shares' = [shares EXCEPT ![s].owner = to]
  /\ LET taken == [ownerShares EXCEPT ![from] = SelectSeq(@, LAMBDA x : x # s)]
     IN  ownerShares' = With(taken, to, Append(Get(taken, to, << >>), s))
  /\ UNCHANGED <<fractionAdmin, shareCounter, resource, fractionConfig, created, merged, reused>>

\* update_config; fractionalize_resource does not read what it stores.
UpdateFractionalConfig(admin, min, max) ==
  /\ fractionAdmin # NoOne /\ admin = fractionAdmin
  /\ fractionConfig' = <<min, max>>
  /\ UNCHANGED <<fractionAdmin, shareCounter, shares, ownerShares, resource, created, merged,
                 reused>>

ShareNext ==
  /\ \E p \in Player :
       \/ InitializeFractional(p) \/ UpdateFractionalConfig(p, 1, 1)
       \/ \E name \in ResourceName, a \in Amount, n \in 1..MaxFractionsPerTx :
            FractionalizeResource(p, name, a, n)
       \/ \E ids \in SUBSET DOMAIN shares : MergeFractions(p, ids)
       \/ \E to \in Player, s \in DOMAIN shares : TransferShare(p, to, s)
  /\ UNCHANGED <<houseVars, craftVars, blueprintVars>>
-----------------------------------------------------------------------------
(* crafting.rs and recipes.rs.  The recipes are installed when the game is *)
(* set up; resources reach a player from the rest of the game.             *)

\* node -> its specialization and cost.
SkillTree == << <<"Metallurgy", 1>>, <<"Metallurgy", 2>>, <<"Alchemy", 1>>, <<"Alchemy", 2>>,
                <<"Engineering", 1>>, <<"Engineering", 2>> >>

Level(p) == Get(level, p, 1)
Points(p) == Get(skillPoints, p, 0)
IsRare(recipe) == recipe.rarity >= RareRarityThreshold
BalanceOf(p, r) == Get(balance, <<p, r>>, 0)

Receive(p, r) ==
  /\ granted + 1 <= Grant
  /\ balance' = With(balance, <<p, r>>, BalanceOf(p, r) + 1)
  /\ granted' = granted + 1
  /\ UNCHANGED <<xp, level, skillPoints, specialization, nodes, mastery, unlocked, sink, produced>>

\* Mutant: every craft grants the points of the level reached, not of the levels gained.
PointsForLevel(p, gained) ==
  LET newLevel == 1 + ((Get(xp, p, 0) + gained) \div XpPerLevel)
  IN  /\ xp' = With(xp, p, Get(xp, p, 0) + gained)
      /\ IF newLevel > Level(p)
         THEN level' = With(level, p, newLevel)
              /\ skillPoints' = With(skillPoints, p, Points(p) + newLevel)
         ELSE UNCHANGED <<level, skillPoints>>

AddXp(p, gained) ==
  LET newLevel == 1 + ((Get(xp, p, 0) + gained) \div XpPerLevel)
  IN  /\ xp' = With(xp, p, Get(xp, p, 0) + gained)
      /\ IF newLevel > Level(p)
         THEN level' = With(level, p, newLevel)
              /\ skillPoints' = With(skillPoints, p, Points(p) + (newLevel - Level(p)))
         ELSE UNCHANGED <<level, skillPoints>>

\* What a craft takes of resource r: the inputs, and the first one again (all
\* of it, at 10,000 basis points) when overcharged.
Consumed(recipe, r, overcharge) ==
  LET inputs == recipe.inputs
      plain == SumSeq([i \in DOMAIN inputs |-> IF inputs[i][1] = r THEN inputs[i][2] ELSE 0])
  IN  plain + IF overcharge /\ inputs # << >> /\ inputs[1][1] = r
              THEN (inputs[1][2] * 10000) \div 10000 ELSE 0

\* Mutant: the surcharge burns and is not counted in the sink.
CraftUncounted(p, id, overcharge) ==
  LET recipe == Recipes[id]
      count == Get(mastery, <<p, id>>, 0) + 1
      output == recipe.output[2] + count \div MasteryInterval
  IN  /\ SumOf(mastery) < MaxCrafts
      /\ \A r \in ResourceName : BalanceOf(p, r) >= Consumed(recipe, r, overcharge)
      /\ balance' = [x \in DOMAIN balance \cup {<<p, recipe.output[1]>>} |->
           Get(balance, x, 0)
             - (IF x[1] = p THEN Consumed(recipe, x[2], overcharge) ELSE 0)
             + (IF x = <<p, recipe.output[1]>> THEN output ELSE 0)]
      /\ sink' = sink + SumSeq([i \in DOMAIN recipe.inputs |-> recipe.inputs[i][2]])
      /\ mastery' = With(mastery, <<p, id>>, count)
      /\ AddXp(p, 10 + recipe.rarity * 5)
      /\ produced' = produced + output
      /\ UNCHANGED <<granted, specialization, nodes, unlocked>>

\* craft_inner.  The roll of a plain craft may go either way; an overcharged
\* one always discovers the rare recipe.
Craft(p, id, overcharge) ==
  LET recipe == Recipes[id]
      count == Get(mastery, <<p, id>>, 0) + 1
      output == recipe.output[2] + count \div MasteryInterval
  IN  /\ SumOf(mastery) < MaxCrafts
      /\ IsRare(recipe) => <<p, id>> \in unlocked
      /\ recipe.specialization # "any" => Get(specialization, p, "none") = recipe.specialization
      /\ Level(p) >= recipe.required_level
      /\ \A r \in ResourceName : BalanceOf(p, r) >= Consumed(recipe, r, overcharge)
      /\ balance' = [x \in DOMAIN balance \cup {<<p, recipe.output[1]>>} |->
           Get(balance, x, 0)
             - (IF x[1] = p THEN Consumed(recipe, x[2], overcharge) ELSE 0)
             + (IF x = <<p, recipe.output[1]>> THEN output ELSE 0)]
      /\ sink' = sink + MapThenSumSet(LAMBDA r : Consumed(recipe, r, overcharge), ResourceName)
      /\ mastery' = With(mastery, <<p, id>>, count)
      /\ AddXp(p, 10 + recipe.rarity * 5)
      /\ \E discovered \in (IF overcharge THEN {TRUE} ELSE BOOLEAN) :
           unlocked' = unlocked \cup (IF discovered THEN {<<p, RareRecipe>>} ELSE {})
      /\ produced' = produced + output
      /\ UNCHANGED <<granted, specialization, nodes>>

ChooseSpecialization(p, s) ==
  /\ p \notin DOMAIN specialization
  /\ specialization' = With(specialization, p, s)
  /\ UNCHANGED <<balance, xp, level, skillPoints, nodes, mastery, unlocked, sink, granted, produced>>

UnlockSkillNode(p, n) ==
  /\ n \in DOMAIN SkillTree
  /\ p \in DOMAIN specialization /\ specialization[p] = SkillTree[n][1]
  /\ <<p, n>> \notin nodes
  /\ Points(p) >= SkillTree[n][2]
  /\ skillPoints' = With(skillPoints, p, Points(p) - SkillTree[n][2])
  /\ nodes' = nodes \cup {<<p, n>>}
  /\ UNCHANGED <<balance, xp, level, specialization, mastery, unlocked, sink, granted, produced>>

CraftNext ==
  /\ \E p \in Player :
       \/ \E r \in ResourceName : Receive(p, r)
       \/ \E id \in DOMAIN Recipes, o \in BOOLEAN : Craft(p, id, o)
       \/ \E s \in {"Metallurgy", "Alchemy"} : ChooseSpecialization(p, s)
       \/ \E n \in DOMAIN SkillTree : UnlockSkillNode(p, n)
  /\ UNCHANGED <<houseVars, shareVars, blueprintVars>>
-----------------------------------------------------------------------------
(* blueprint_factory.rs *)

RarityFromComponents(n) == IF n <= 3 THEN "Common" ELSE IF n <= 5 THEN "Uncommon" ELSE "Rare"

\* craft_blueprint for one count of components, batch_craft_blueprints for several.
BatchCraftBlueprints(p, counts) ==
  LET Minted(i) == counts[i - blueprintCount]
  IN  /\ Len(counts) <= MaxBatchCraft
      /\ \A i \in DOMAIN counts : counts[i] >= MinComponents
      /\ blueprintCount + Len(counts) <= MaxBlueprints
      /\ blueprintCount' = blueprintCount + Len(counts)
      /\ blueprints' = [i \in 1..blueprintCount' |->
           IF i <= blueprintCount THEN blueprints[i]
           ELSE [owner |-> p, components |-> Minted(i), rarity |-> RarityFromComponents(Minted(i)),
                 applied |-> FALSE]]
      /\ UNCHANGED appliedTo

\* Mutant: an applied blueprint can be applied again.
ApplyBlueprintAgain(p, id, s) ==
  /\ id \in DOMAIN blueprints /\ blueprints[id].owner = p
  /\ Cardinality(Get(appliedTo, id, {})) < 2
  /\ blueprints' = [blueprints EXCEPT ![id].applied = TRUE]
  /\ appliedTo' = With(appliedTo, id, Get(appliedTo, id, {}) \cup {s})
  /\ UNCHANGED blueprintCount

ApplyBlueprintToShip(p, id, s) ==
  /\ id \in DOMAIN blueprints
  /\ blueprints[id].owner = p
  /\ ~blueprints[id].applied
  /\ blueprints' = [blueprints EXCEPT ![id].applied = TRUE]
  /\ appliedTo' = With(appliedTo, id, Get(appliedTo, id, {}) \cup {s})
  /\ UNCHANGED blueprintCount

BlueprintNext ==
  /\ \E p \in Player :
       \/ \E counts \in BoundedSeq({1, 2, 4, 6}, MaxBatchCraft) : BatchCraftBlueprints(p, counts)
       \/ \E id \in 1..MaxBlueprints, s \in 1..2 : ApplyBlueprintToShip(p, id, s)
  /\ UNCHANGED <<houseVars, shareVars, craftVars>>

Next == FurnishNext \/ VisitNext \/ ShareNext \/ CraftNext \/ BlueprintNext

Spec == Init /\ [][Next]_vars
-----------------------------------------------------------------------------
(* Properties *)

\* Balances are never negative and ids stay within their counters.
TypeOK ==
  /\ \A p \in Player : dust[p] \in 0..StartDust
  /\ DOMAIN house \subseteq Player /\ DOMAIN placements = DOMAIN house /\ DOMAIN ratings = DOMAIN house
  /\ \A x \in DOMAIN balance : balance[x] >= 0
  /\ shareCounter \in 0..MaxCount /\ DOMAIN blueprints = 1..blueprintCount

\* A house counts exactly the furniture placed in it and never more than its
\* size allows; its rating is the mean, rounded down, of one rating per rater,
\* none from its owner; the visitor log is the start of its visits; a tier
\* features a house once (player_housing.rs place_furniture, rate_house,
\* visit_house, feature_house).
HousesAgree ==
  /\ \A p \in DOMAIN house :
       LET h == house[p]
           given == [i \in DOMAIN ratings[p] |-> ratings[p][i].rating]
       IN  /\ h.furniture_count = Len(placements[p]) /\ h.furniture_count <= FurnitureLimit[h.size]
           /\ h.rating_count = Len(given)
           /\ Len(given) > 0 => /\ h.average_rating * Len(given) <= SumSeq(given)
                                /\ SumSeq(given) < (h.average_rating + 1) * Len(given)
           /\ IsInjective([i \in DOMAIN ratings[p] |-> ratings[p][i].rater])
           /\ \A i \in DOMAIN ratings[p] : ratings[p][i].rater # p
           /\ Len(Get(visitors, p, << >>)) = Min({h.total_visits, MaxVisitorRecords})
  /\ \A t \in DOMAIN featured : IsInjective(featured[t]) /\ Range(featured[t]) \subseteq DOMAIN house

\* While ids are given out once, what was split off a resource is in its
\* shares or was merged, and a player's list names exactly their shares
\* (fractional_resources.rs fractionalize_resource, merge_fractions,
\* transfer_share).  A second initialization starts the ids again.
SharesAgree ==
  ~reused =>
    /\ \A o \in DOMAIN created :
         created[o] = Get(merged, o, 0)
           + MapThenSumSet(LAMBDA s : shares[s].amount, {s \in DOMAIN shares : shares[s].original = o})
    /\ \A p \in Player :
         LET list == Get(ownerShares, p, << >>)
         IN  IsInjective(list) /\ Range(list) = {s \in DOMAIN shares : shares[s].owner = p}

\* Every unit handed to players or put out by crafting is in a balance or in
\* the sink, surcharges included; a player's level follows from their
\* experience, and skill points kept and spent add up to the levels gained;
\* nodes belong to the one specialization chosen (crafting.rs craft_inner,
\* add_xp, unlock_skill_node).
CraftingAgrees ==
  /\ SumOf(balance) + sink = granted + produced
  /\ \A p \in Player :
       /\ Level(p) = 1 + (Get(xp, p, 0) \div XpPerLevel)
       /\ Points(p) + MapThenSumSet(LAMBDA n : SkillTree[n][2],
                                    {n \in DOMAIN SkillTree : <<p, n>> \in nodes}) = Level(p) - 1
       /\ \A n \in DOMAIN SkillTree :
            <<p, n>> \in nodes => Get(specialization, p, "none") = SkillTree[n][1]

\* A blueprint is applied to at most one ship, once (blueprint_factory.rs
\* apply_blueprint_to_ship).
BlueprintsAppliedOnce ==
  \A id \in DOMAIN blueprints :
    Cardinality(Get(appliedTo, id, {})) = IF blueprints[id].applied THEN 1 ELSE 0
=============================================================================
