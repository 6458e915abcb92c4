---------------------------- MODULE Achievements ----------------------------
(***************************************************************************)
(* Achievements and their badges.  Two layers unlock the same flags:       *)
(* achievement_engine.rs knows twenty templates and mints a badge for each *)
(* unlock, achievements.rs defines 250 achievements, unlocks through the   *)
(* engine and keeps statistics, notifications and a ranking by points.     *)
(* badges.rs adds metadata and ownership to the badges of the engine.      *)
(***************************************************************************)
EXTENDS Integers, Sequences, FiniteSets, SequencesExt

CONSTANTS Player,
          Profiles,       \* profiles a player can have: [scans, essence, ships]
          BoardSize,      \* entries kept in the ranking, 100 in the code
          MaxBatchUnlocks,
          Wanted,         \* achievement ids callers pass
          MaxBadges       \* bound: badges ever minted

VARIABLES profile,        \* player -> scans, essence and ships
          unlocked,       \* player -> ids with the PlayerAchievement flag
          badges,         \* AchievementKey::Badge: id -> achievement and owner
          playerBadges,   \* player -> ids of the badges the engine minted for them
          stats,          \* player -> PlayerAchievementStats
          board,          \* TopEntriesByPoints
          notified,       \* player -> achievements notified, in order
          metadata,       \* BadgeKey::Metadata: badge id -> rarity and first owner
          ownerBadges,    \* BadgeKey::OwnerBadges
          credited        \* history: player -> ids unlocked through try_unlock

engineVars == <<unlocked, badges, playerBadges>>
rankVars == <<stats, board, notified, credited>>
badgeVars == <<metadata, ownerBadges>>
vars == <<profile, engineVars, rankVars, badgeVars>>

Tiers == {"Bronze", "Silver", "Gold", "Platinum"}

Points(tier) ==
  [Bronze |-> 10, Silver |-> 25, Gold |-> 50, Platinum |-> 100][tier]

TotalAchievements == 250
SecretStart == 231
MetaStart == 201
AchievementId == 1 .. TotalAchievements

Def(tier, scans, essence, ships) ==
  [tier |-> tier, scans |-> scans, essence |-> essence, ships |-> ships]

\* Achievements whose custom requirement nothing evaluates.
Untested(tier) == Def(tier, 0, 0, 0)

\* The tier of a step on a ladder whose first steps are bronze, silver and gold.
Ladder(step, bronze, silver, gold) ==
  CASE step <= bronze -> "Bronze"
    [] step > bronze /\ step <= silver -> "Silver"
    [] step > silver /\ step <= gold -> "Gold"
    [] OTHER -> "Platinum"

ScanSteps == <<1, 10, 25, 50, 100, 150, 200, 300, 400, 500, 750, 1000, 1500, 2000, 3000, 5000>>
ScanDefs == [id \in 1 .. 16 |-> Def(Ladder(id, 4, 8, 11), ScanSteps[id], 0, 0)]

RegionDefs == [id \in 17 .. 20 |-> Def(Ladder(id, 17, 18, 19), IF id = 17 THEN 1 ELSE 0, 0, 0)]

NebulaDefs ==
  [id \in 21 .. 40 |-> Untested(CASE id \in {24, 25, 26, 27, 29} -> "Gold"
                                  [] id \in {28, 30} -> "Platinum"
                                  [] OTHER -> "Silver")]

DistanceDefs ==
  [id \in 41 .. 60 |-> Untested(CASE id \in {41, 47} -> "Bronze"
                                  [] id \in {44, 49} -> "Gold"
                                  [] id \in {45, 46, 50} -> "Platinum"
                                  [] OTHER -> "Silver")]

AdvancedDefs ==
  [id \in 61 .. 80 |-> Untested(IF id \in {61, 63} THEN "Platinum" ELSE "Gold")]

EssenceSteps == <<100, 500, 1000, 5000, 10000, 25000, 50000, 100000, 250000, 500000,
                  1000000, 10000000>>
EssenceDefs == [id \in 81 .. 92 |-> Def(Ladder(id, 83, 86, 89), 0, EssenceSteps[id - 80], 0)]

EconomicDefs ==
  [id \in 93 .. 130 |-> Def(IF id \in {93, 101, 121, 122} THEN "Bronze" ELSE "Silver",
                            0, IF id = 93 THEN 1 ELSE 0, 0)]

BondDefs == [id \in 131 .. 135 |-> Untested(Ladder(id, 132, 134, 135))]

SocialDefs == [id \in 136 .. 170 |-> Untested(IF id = 152 THEN "Silver" ELSE "Bronze")]

FleetSteps == <<1, 3, 5, 10, 20, 50, 100>>
FleetDefs == [id \in 171 .. 177 |-> Def(Ladder(id, 173, 175, 176), 0, 0, FleetSteps[id - 170])]

ProgressionDefs ==
  [id \in 178 .. 200 |-> Def(CASE id \in {178, 190} -> "Platinum"
                               [] id = 186 -> "Bronze"
                               [] OTHER -> "Silver",
                             0, 0, IF id = 178 THEN 200 ELSE 0)]

MasterDefs == [id \in 201 .. 204 |-> Untested("Platinum")]
MetaDefs == [id \in 205 .. 230 |-> Untested(IF id \in {205, 206} THEN "Gold" ELSE "Platinum")]
SecretDefs == [id \in 231 .. 250 |-> Untested(IF id = 250 THEN "Platinum" ELSE "Gold")]

\* get_achievement_def: a range of ids for each table.
GetAchievementDef(id) ==
  CASE id \in 1 .. 16 -> ScanDefs[id]
    [] id \in 17 .. 20 -> RegionDefs[id]
    [] id \in 21 .. 40 -> NebulaDefs[id]
    [] id \in 41 .. 60 -> DistanceDefs[id]
    [] id \in 61 .. 80 -> AdvancedDefs[id]
    [] id \in 81 .. 92 -> EssenceDefs[id]
    [] id \in 93 .. 130 -> EconomicDefs[id]
    [] id \in 131 .. 135 -> BondDefs[id]
    [] id \in 136 .. 170 -> SocialDefs[id]
    [] id \in 171 .. 177 -> FleetDefs[id]
    [] id \in 178 .. 200 -> ProgressionDefs[id]
    [] id \in 201 .. 204 -> MasterDefs[id]
    [] id \in 205 .. 230 -> MetaDefs[id]
    [] id \in 231 .. 250 -> SecretDefs[id]

\* The templates of the engine.  Their ids are its own: template 6 asks for 100
\* essence, achievement 6 for 150 scans.
DefaultTemplates ==
  LET scans(n) == Def("Bronze", n, 0, 0)
      essence(n) == Def("Bronze", 0, n, 0)
      ships(n) == Def("Bronze", 0, 0, n)
  IN  << scans(1), scans(10), scans(25), scans(50), scans(100),
         essence(100), essence(500), essence(1000), essence(5000),
         ships(1), ships(3), ships(5), ships(10),
         scans(150), scans(200), scans(300), essence(10000), ships(20), scans(400),
         Def("Bronze", 500, 20000, 10) >>

\* compute_progress_pct and achievement_progress_pct reach 100 when each
\* requirement that is not zero is met.
Percent(have, need) == IF need = 0 THEN 100 ELSE Min({100, (have * 100) \div need})
ProgressPct(d, who) ==
  Min({Percent(who.scans, d.scans), Percent(who.essence, d.essence), Percent(who.ships, d.ships)})
-----------------------------------------------------------------------------
NoStats == [total |-> 0, points |-> 0, secret |-> 0, meta |-> 0, pct |-> 0,
            count |-> [t \in Tiers |-> 0]]

Init ==
  /\ profile = [p \in Player |-> [scans |-> 0, essence |-> 0, ships |-> 0]]
  /\ unlocked = [p \in Player |-> {}]
  /\ badges = << >>
  /\ playerBadges = [p \in Player |-> << >>]
  /\ stats = [p \in Player |-> NoStats]
  /\ board = << >>
  /\ notified = [p \in Player |-> << >>]
  /\ metadata = << >>
  /\ ownerBadges = [p \in Player |-> << >>]
  /\ credited = [p \in Player |-> {}]

\* Scans, essence and ships are raised by the rest of the game.
Play(p) ==
  /\ profile' \in {[profile EXCEPT ![p] = q] : q \in Profiles}
  /\ profile' # profile
  /\ \A f \in {"scans", "essence", "ships"} : profile'[p][f] >= profile[p][f]
  /\ UNCHANGED <<engineVars, rankVars, badgeVars>>

\* What one unlock works on.
World == [unlocked |-> unlocked, badges |-> badges, playerBadges |-> playerBadges,
          stats |-> stats, board |-> board, notified |-> notified, credited |-> credited]

Become(w) ==
  /\ Len(w.badges) <= MaxBadges
  /\ unlocked' = w.unlocked
  /\ badges' = w.badges
  /\ playerBadges' = w.playerBadges
  /\ stats' = w.stats
  /\ board' = w.board
  /\ notified' = w.notified
  /\ credited' = w.credited

\* The checks without the look at what is unlocked, for the mutants.
CanUnlockAgain(w, p, id) ==
  /\ id \in DOMAIN DefaultTemplates
  /\ ProgressPct(DefaultTemplates[id], profile[p]) >= 100

\* The checks of unlock_achievement_inner.
CanUnlock(w, p, id) ==
  /\ id \notin w.unlocked[p]
  /\ id \in DOMAIN DefaultTemplates
  /\ ProgressPct(DefaultTemplates[id], profile[p]) >= 100

\* unlock_achievement_inner.
Unlocked(w, p, id) ==
  LET badge_id == Len(w.badges) + 1
  IN  [w EXCEPT !.unlocked[p] = @ \cup {id},
                !.badges = Append(@, [achievement |-> id, owner |-> p]),
                !.playerBadges[p] = Append(@, badge_id)]

\* increment_player_stats.
Counted(s, id) ==
  LET d == GetAchievementDef(id)
  IN  [s EXCEPT !.total = @ + 1, !.points = @ + Points(d.tier), !.count[d.tier] = @ + 1,
                !.secret = @ + (IF id >= SecretStart THEN 1 ELSE 0),
                !.meta = @ + (IF id >= MetaStart /\ id < SecretStart THEN 1 ELSE 0),
                !.pct = ((s.total + 1) * 100) \div TotalAchievements]

\* The ranking left alone once it is full, for the mutants.
RankedWhileRoom(b, p, s) ==
  IF Len(b) >= BoardSize THEN b
  ELSE Append(b, [player |-> p, total |-> s.total, points |-> s.points])

\* record_leaderboard_entry: the player goes before the first other entry that
\* has no more points; ranks are positions.
Ranked(b, p, s) ==
  LET others == SelectSeq(b, LAMBDA e : e.player # p)
      entry == [player |-> p, total |-> s.total, points |-> s.points]
      at == CHOOSE i \in 1 .. Len(others) + 1 :
              /\ i <= Len(others) => s.points >= others[i].points
              /\ \A j \in 1 .. i - 1 : s.points < others[j].points
      sorted == InsertAt(others, at, entry)
  IN  SubSeq(sorted, 1, Min({Len(sorted), BoardSize}))

\* check_meta_achievements: what the statistics call for.  None has a template,
\* so the unlock fails and its error is dropped.
MetaDue(s) ==
  {id \in {205, 206, 207, 208, 211, 212, 214, 215, 221, 222, 223} :
     CASE id = 205 -> s.count["Bronze"] >= 50
       [] id = 206 -> s.count["Silver"] >= 40
       [] id = 207 -> s.count["Gold"] >= 30
       [] id = 208 -> s.count["Platinum"] >= 20
       [] id = 211 -> s.total >= 50
       [] id = 212 -> s.total >= 100
       [] id = 214 -> s.total >= 200
       [] id = 215 -> s.total >= 250
       [] id = 221 -> s.points >= 1000
       [] id = 222 -> s.points >= 5000
       [] id = 223 -> s.points >= 10000}

\* One unlock of achievements.rs, without the meta achievements it leads to.
Credited(w, p, id) ==
  LET u == Unlocked(w, p, id)
      s == Counted(u.stats[p], id)
  IN  [u EXCEPT !.stats[p] = s,
                !.board = Ranked(@, p, s),
                !.notified[p] = Append(@, id),
                !.credited[p] = @ \cup {id}]

\* try_unlock.
TryUnlocked(w, p, id) ==
  LET v == Credited(w, p, id)
      due == SetToSortSeq({m \in MetaDue(v.stats[p]) : CanUnlock(v, p, m)}, <)
  IN  FoldLeft(LAMBDA x, m : Credited(x, p, m), v, due)
-----------------------------------------------------------------------------
\* unlock_achievement, called at the engine: no statistics.
UnlockAchievement(p, id) ==
  /\ CanUnlock(World, p, id)
  /\ Become(Unlocked(World, p, id))
  /\ UNCHANGED <<profile, badgeVars>>

\* batch_unlock_achievements: one refusal undoes the batch.
BatchUnlockAchievements(p, ids) ==
  /\ Len(ids) <= MaxBatchUnlocks
  /\ \A i \in 1 .. Len(ids) : CanUnlock(World, p, ids[i])
  /\ IsInjective(ids)
  /\ Become(FoldLeft(LAMBDA w, id : Unlocked(w, p, id), World, ids))
  /\ UNCHANGED <<profile, badgeVars>>

\* The statistics look the achievement up, and refuse an id without one.
TryUnlock(p, id) ==
  /\ id \in AchievementId
  /\ CanUnlock(World, p, id)
  /\ Become(TryUnlocked(World, p, id))
  /\ UNCHANGED <<profile, badgeVars>>

\* batch_check_and_unlock asks the definition, then try_unlock asks the
\* template; a refusal of the template skips the achievement.
BatchCheckAndUnlock(p) ==
  LET eligible(w, id) ==
        /\ ProgressPct(GetAchievementDef(id), profile[p]) >= 100
        /\ CanUnlock(w, p, id)
      step(w, id) == IF eligible(w, id) THEN TryUnlocked(w, p, id) ELSE w
      w1 == FoldLeft(step, World, [i \in 1 .. Len(DefaultTemplates) |-> i])
  IN  /\ w1 # World
      /\ Become(w1)
      /\ UNCHANGED <<profile, badgeVars>>

\* rarity_for_achievement: the fallback table is not reached, since every id of
\* a badge has a definition.
RarityForAchievement(id) ==
  [Bronze |-> "Uncommon", Silver |-> "Rare", Gold |-> "Epic", Platinum |-> "Legendary"]
    [GetAchievementDef(id).tier]

\* mint_badge may be called again for the same badge: it then overwrites the
\* metadata and lists the badge once more.
MintBadge(b) ==
  /\ b \in DOMAIN badges
  /\ Len(ownerBadges[badges[b].owner]) < MaxBadges
  /\ metadata' = [x \in DOMAIN metadata \cup {b} |->
                    IF x = b THEN [rarity |-> RarityForAchievement(badges[b].achievement),
                                   original |-> badges[b].owner]
                             ELSE metadata[x]]
  /\ ownerBadges' = [ownerBadges EXCEPT ![badges[b].owner] = Append(@, b)]
  /\ UNCHANGED <<profile, engineVars, rankVars>>

\* transfer_badge removing only the first entry of the badge from the list.
TransferBadgeOnce(from, to, b) ==
  /\ from # to
  /\ b \in DOMAIN badges /\ badges[b].owner = from
  /\ badges' = [badges EXCEPT ![b].owner = to]
  /\ ownerBadges' = [ownerBadges EXCEPT
                       ![from] = IF Contains(@, b)
                                   THEN RemoveAt(@, CHOOSE i \in DOMAIN @ : @[i] = b) ELSE @,
                       ![to] = Append(@, b)]
  /\ UNCHANGED <<profile, unlocked, playerBadges, rankVars, metadata>>

\* transfer_badge: the metadata and the engine's list of the former owner stay.
TransferBadge(from, to, b) ==
  /\ from # to
  /\ b \in DOMAIN badges /\ badges[b].owner = from
  /\ badges' = [badges EXCEPT ![b].owner = to]
  /\ ownerBadges' = [ownerBadges EXCEPT
                       ![from] = SelectSeq(@, LAMBDA x : x # b),
                       ![to] = Append(@, b)]
  /\ UNCHANGED <<profile, unlocked, playerBadges, rankVars, metadata>>

Next ==
  \/ \E p \in Player :
       \/ Play(p)
       \/ \E id \in Wanted : UnlockAchievement(p, id) \/ TryUnlock(p, id)
       \/ \E ids \in Wanted \X Wanted : BatchUnlockAchievements(p, ids)
       \/ BatchCheckAndUnlock(p)
       \/ \E to \in Player, b \in DOMAIN badges : TransferBadge(p, to, b)
  \/ \E b \in DOMAIN badges : MintBadge(b)

Spec == Init /\ [][Next]_vars
-----------------------------------------------------------------------------
TypeOK ==
  /\ unlocked \in [Player -> SUBSET (1 .. 20)]
  /\ \A b \in DOMAIN badges : badges[b].achievement \in 1 .. 20 /\ badges[b].owner \in Player
  /\ DOMAIN metadata \subseteq DOMAIN badges
  /\ Len(board) <= BoardSize

\* unlock_achievement, try_unlock: an achievement is unlocked once on either
\* path, each unlock minted one badge, and the statistics, notifications and
\* points of a player are those of the unlocks made through try_unlock.
UnlockedOnce ==
  \A p \in Player :
    /\ Len(playerBadges[p]) = Cardinality(unlocked[p])
    /\ {badges[b].achievement : b \in ToSet(playerBadges[p])} = unlocked[p]
    /\ credited[p] \subseteq unlocked[p]
    /\ stats[p].total = Cardinality(credited[p])
    /\ ToSet(notified[p]) = credited[p] /\ Len(notified[p]) = stats[p].total
    /\ \A t \in Tiers :
         stats[p].count[t] = Cardinality({id \in credited[p] : GetAchievementDef(id).tier = t})
    /\ stats[p].points = stats[p].count["Bronze"] * 10 + stats[p].count["Silver"] * 25
                         + stats[p].count["Gold"] * 50 + stats[p].count["Platinum"] * 100

\* record_leaderboard_entry: the ranking has each player once, in the order of
\* their points, with their present points; a player left out of a full ranking
\* has no more points than its last entry.
RankingIsCurrent ==
  /\ \A i, j \in 1 .. Len(board) :
       i < j => board[i].player # board[j].player /\ board[i].points >= board[j].points
  /\ \A i \in 1 .. Len(board) : board[i].points = stats[board[i].player].points
  /\ \A p \in Player :
       \/ stats[p].total = 0
       \/ \E i \in 1 .. Len(board) : board[i].player = p
       \/ Len(board) = BoardSize /\ stats[p].points <= board[BoardSize].points

\* mint_badge, transfer_badge: a badge is listed for its present owner only,
\* however often it was listed and passed on.
ListedForOwner ==
  \A p \in Player : \A b \in ToSet(ownerBadges[p]) : badges[b].owner = p
=============================================================================
