--------------------------- MODULE AllianceManager ---------------------------
(***************************************************************************)
(* src/alliance_manager.rs and src/guild_quests.rs: alliances, their       *)
(* members, treasury, level, territory and boss, and the quests that a     *)
(* defeated boss advances.  A treasury counts units; contributing debits   *)
(* no balance.                                                             *)
(***************************************************************************)
EXTENDS Naturals, Sequences, FiniteSets, SequencesExt

CONSTANTS Player,
          MaxMembers,      \* MAX_MEMBERS_PER_ALLIANCE
          DailyGuildCap,   \* guild_daily_cap of the anti-whale rules
          TerritoryCost, BossCost, BossReward, BossXp,
          BossHealth,      \* max_health of a boss
          BossTime,        \* how long a boss stays
          LevelXp,         \* experience for level 2; n times this for level n + 1
          DayLength,
          Coordinate,      \* coordinate hashes
          Quests,          \* quests that may be created: target, essence, xp, duration
          Gift, Damage,    \* amounts contributed, damages dealt
          MaxAlliances, MaxQuests, MaxContributed, MaxSpawned, MaxTime  \* bounds

VARIABLES now,
          alliances,     \* Alliance(id).members; AllianceCount is its length
          memberOf,      \* MemberAlliance
          treasury,      \* AllianceTreasury
          contribution,  \* MemberContribution
          given,         \* DailyGuildContribution of today
          level,         \* AllianceLevelInfo
          territory,     \* TerritoryClaim
          boss,          \* GuildBoss
          quests,        \* Quest(alliance, id); QuestCount is its length
          contributed, spawned, kills  \* history, by alliance

rosters == <<alliances, memberOf>>
guildVars == <<rosters, treasury, contribution, given, level, territory, boss, quests,
               contributed, spawned, kills>>

Alliance == 1 .. MaxAlliances
NoAlliance == 0
NoBoss == [health |-> 0, active_until |-> 0, defeated |-> TRUE]
zero == [g \in Alliance |-> 0]

Init ==
  /\ now = 0
  /\ alliances = << >>
  /\ memberOf = [p \in Player |-> NoAlliance]
  /\ treasury = zero
  /\ contribution = [g \in Alliance |-> [p \in Player |-> 0]]
  /\ given = [p \in Player |-> 0]
  /\ level = [g \in Alliance |-> [level |-> 1, xp |-> 0]]
  /\ territory = [c \in Coordinate |-> NoAlliance]
  /\ boss = [g \in Alliance |-> NoBoss]
  /\ quests = [g \in Alliance |-> << >>]
  /\ contributed = zero /\ spawned = zero /\ kills = zero

\* found_alliance: the treasury starts at INITIAL_TREASURY, which is 0.
FoundAlliance(p) ==
  LET g == Len(alliances) + 1
  IN  /\ memberOf[p] = NoAlliance
      /\ g \in Alliance
      /\ alliances' = Append(alliances, <<p>>)
      /\ memberOf' = [memberOf EXCEPT ![p] = g]
      /\ contribution' = [contribution EXCEPT ![g][p] = 0]
      /\ UNCHANGED <<now, treasury, given, level, territory, boss, quests, contributed, spawned, kills>>

\* join_alliance: the contribution of an earlier membership is forgotten.
JoinAlliance(p, g) ==
  /\ memberOf[p] = NoAlliance
  /\ Len(alliances[g]) < MaxMembers
  /\ alliances' = [alliances EXCEPT ![g] = Append(@, p)]
  /\ memberOf' = [memberOf EXCEPT ![p] = g]
  /\ contribution' = [contribution EXCEPT ![g][p] = 0]
  /\ UNCHANGED <<now, treasury, given, level, territory, boss, quests, contributed, spawned, kills>>

\* leave_alliance: the founder may leave, and an alliance may become empty.
LeaveAlliance(p) ==
  /\ memberOf[p] # NoAlliance
  /\ alliances' = [alliances EXCEPT ![memberOf[p]] = SelectSeq(@, LAMBDA q : q # p)]
  /\ memberOf' = [memberOf EXCEPT ![p] = NoAlliance]
  /\ UNCHANGED <<now, treasury, contribution, given, level, territory, boss, quests,
                 contributed, spawned, kills>>

\* contribute_to_treasury; the daily cap is recorded before membership is
\* checked, and a refusal undoes it.
ContributeToTreasury(p, n) ==
  LET g == memberOf[p]
  IN  /\ n > 0
      /\ given[p] + n <= DailyGuildCap
      /\ g # NoAlliance
      /\ contributed[g] + n <= MaxContributed
      /\ given' = [given EXCEPT ![p] = @ + n]
      /\ treasury' = [treasury EXCEPT ![g] = @ + n]
      /\ contribution' = [contribution EXCEPT ![g][p] = @ + n]
      /\ contributed' = [contributed EXCEPT ![g] = @ + n]
      /\ UNCHANGED <<now, rosters, level, territory, boss, quests, spawned, kills>>

\* claim_guild_territory
ClaimGuildTerritory(p, c) ==
  LET g == memberOf[p]
  IN  /\ g # NoAlliance
      /\ treasury[g] >= TerritoryCost
      /\ territory[c] = NoAlliance
      /\ treasury' = [treasury EXCEPT ![g] = @ - TerritoryCost]
      /\ territory' = [territory EXCEPT ![c] = g]
      /\ UNCHANGED <<now, rosters, contribution, given, level, boss, quests, contributed, spawned, kills>>

\* spawn_guild_boss: a boss that is still alive is replaced.
SpawnGuildBoss(p) ==
  LET g == memberOf[p]
  IN  /\ g # NoAlliance
      /\ treasury[g] >= BossCost
      /\ spawned[g] < MaxSpawned
      /\ treasury' = [treasury EXCEPT ![g] = @ - BossCost]
      /\ boss' = [boss EXCEPT ![g] = [health |-> BossHealth, active_until |-> now + BossTime,
                                      defeated |-> FALSE]]
      /\ spawned' = [spawned EXCEPT ![g] = @ + 1]
      /\ UNCHANGED <<now, rosters, contribution, given, level, territory, quests, contributed, kills>>

\* The loop of add_alliance_xp.
LevelUp[l \in Nat, x \in Nat] ==
  IF x >= l * LevelXp THEN LevelUp[l + 1, x - l * LevelXp] ELSE [level |-> l, xp |-> x]

AddAllianceXp(info, n) == LevelUp[info.level, info.xp + n]

\* create_guild_quest: any caller may create one, for any alliance.
CreateGuildQuest(g, q) ==
  /\ Len(quests[g]) < MaxQuests
  /\ quests' = [quests EXCEPT ![g] =
                  Append(@, [target |-> q.target, essence |-> q.essence, xp |-> q.xp, progress |-> 0,
                             expires_at |-> now + q.duration, completed |-> FALSE])]
  /\ UNCHANGED <<now, rosters, treasury, contribution, given, level, territory, boss,
                 contributed, spawned, kills>>

\* A quest as contribute_quest_progress looks at it.
Open(q) == ~q.completed /\ now <= q.expires_at


\* The quests of a list that contribute_quest_progress completes, in order.
Completing(list, n) == SelectSeq(list, LAMBDA q : Open(q) /\ q.progress + n >= q.target)

Advanced(q, n) ==
  IF Open(q) THEN [q EXCEPT !.progress = @ + n, !.completed = q.progress + n >= q.target] ELSE q

\* attack_guild_boss: defeat pays the treasury and the experience, then
\* advances the alliance's boss quests, which pay theirs.
AttackGuildBoss(p, damage) ==
  LET g == memberOf[p]
      left == IF boss[g].health > damage THEN boss[g].health - damage ELSE 0
      done == Completing(quests[g], 1)
  IN  /\ g # NoAlliance
      /\ ~boss[g].defeated /\ now <= boss[g].active_until
      /\ boss' = [boss EXCEPT ![g].health = left, ![g].defeated = (left = 0)]
      /\ \/ left > 0 /\ UNCHANGED <<treasury, level, quests, kills>>
         \/ /\ left = 0
            /\ treasury' = [treasury EXCEPT ![g] =
                              FoldLeft(LAMBDA t, q : t + q.essence, @ + BossReward, done)]
            /\ level' = [level EXCEPT ![g] =
                           FoldLeft(LAMBDA l, q : AddAllianceXp(l, q.xp),
                                    AddAllianceXp(@, BossXp), done)]
            /\ quests' = [quests EXCEPT ![g] = [i \in DOMAIN @ |-> Advanced(@[i], 1)]]
            /\ kills' = [kills EXCEPT ![g] = @ + 1]
      /\ UNCHANGED <<now, rosters, contribution, given, territory, contributed, spawned>>

Tick ==
  /\ now < MaxTime
  /\ now' = now + 1
  /\ given' = IF now' \div DayLength = now \div DayLength THEN given ELSE [p \in Player |-> 0]
  /\ UNCHANGED <<rosters, treasury, contribution, level, territory, boss, quests,
                 contributed, spawned, kills>>

Next ==
  \/ \E p \in Player : FoundAlliance(p) \/ LeaveAlliance(p) \/ SpawnGuildBoss(p)
  \/ \E p \in Player, g \in DOMAIN alliances : JoinAlliance(p, g)
  \/ \E p \in Player, n \in Gift : ContributeToTreasury(p, n)
  \/ \E p \in Player, c \in Coordinate : ClaimGuildTerritory(p, c)
  \/ \E p \in Player, d \in Damage : AttackGuildBoss(p, d)
  \/ \E g \in DOMAIN alliances, q \in Quests : CreateGuildQuest(g, q)
  \/ Tick

Spec == Init /\ [][Next]_<<now, guildVars>>
-----------------------------------------------------------------------------
\* Type invariant; levels below the next level's experience.
AllianceTypeOK ==
  /\ now \in 0 .. MaxTime
  /\ Len(alliances) <= MaxAlliances
  /\ memberOf \in [Player -> Alliance \cup {NoAlliance}]
  /\ treasury \in [Alliance -> Nat]
  /\ contribution \in [Alliance -> [Player -> 0 .. MaxContributed]]
  /\ given \in [Player -> 0 .. DailyGuildCap]
  /\ \A g \in Alliance : level[g].level >= 1 /\ level[g].xp < level[g].level * LevelXp
  /\ territory \in [Coordinate -> Alliance \cup {NoAlliance}]
  /\ boss \in [Alliance -> [health : 0 .. BossHealth, active_until : Nat, defeated : BOOLEAN]]

\* join_alliance, leave_alliance: the two records of a membership agree, no
\* member is listed twice, and no list exceeds MAX_MEMBERS_PER_ALLIANCE.
RostersAgree ==
  \A g \in DOMAIN alliances :
    /\ ToSet(alliances[g]) = {p \in Player : memberOf[p] = g}
    /\ IsInjective(alliances[g])
    /\ Len(alliances[g]) <= MaxMembers

Total(f(_), S) == FoldSet(LAMBDA x, acc : acc + f(x), 0, S)

\* contribute_to_treasury, claim_guild_territory, spawn_guild_boss,
\* attack_guild_boss, contribute_quest_progress: a treasury holds what was
\* contributed and won less what was spent, and a level and its experience are
\* worth what bosses and completed quests gave, each of them once.
BooksAgree ==
  \A g \in Alliance :
    LET won == {i \in DOMAIN quests[g] : quests[g][i].completed}
    IN  /\ treasury[g] + TerritoryCost * Cardinality({c \in Coordinate : territory[c] = g})
             + BossCost * spawned[g]
           = contributed[g] + BossReward * kills[g] + Total(LAMBDA i : quests[g][i].essence, won)
        /\ LevelXp * ((level[g].level * (level[g].level - 1)) \div 2) + level[g].xp
           = BossXp * kills[g] + Total(LAMBDA i : quests[g][i].xp, won)
=============================================================================
