------------------------------- MODULE Quests -------------------------------
(***************************************************************************)
(* What players work through: profiles (player_profile.rs), branching      *)
(* quest chains that pay essence (quest_system.rs), daily missions that    *)
(* feed the quests (mission_generator.rs) and the battle pass of a season  *)
(* (battle_pass.rs).                                                       *)
(***************************************************************************)
EXTENDS Integers, Sequences, FiniteSets, SequencesExt, FiniteSetsExt, Functions

CONSTANTS Player, Objective,
          Shapes,             \* nodes: [objective, target, essence, branches, duration]
          MaxChainLength, MaxBranches, MaxActiveQuests,
          DailyMissionLimit, Day, \* Day: length of a day
          Progress,           \* amounts of progress reported at once
          MaxChains, MaxNodes, MaxMissions, MaxClaims, MaxTime, \* bounds of the runs
          XpGains,            \* <<scans, essence>> pairs passed to add_xp
          Tier,               \* tiers claimed
          MaxXp, Challenge

VARIABLES now,
          profiles,           \* seq of profiles: [owner, scans, essence, ...]
          reported,           \* history: profile id -> essence reported by its owner
          chains, nodes,      \* Chain(id), Node(id)
          states,             \* State(player, quest)
          progress,           \* Progress(player, chain)
          active,             \* ActiveQuests(player)
          claims,             \* history: <<player, quest>> of every claim
          starts,             \* history: <<player, quest>> of every activation
          missions, dailyReset, earned,
          seasonId, pass, passRewards, xpGranted,
          tierClaims          \* history: claim -> how often it was paid

profileVars == <<profiles, reported>>
questVars == <<chains, nodes, states, progress, active, claims, starts>>
missionVars == <<missions, dailyReset, earned>>
passVars == <<seasonId, pass, passRewards, xpGranted, tierClaims>>
vars == <<now, profileVars, questVars, missionVars, passVars>>

ChainTerminus == 0
With(f, k, v) == [x \in DOMAIN f \cup {k} |-> IF x = k THEN v ELSE f[x]]
Count(seq, x) == Cardinality({i \in DOMAIN seq : seq[i] = x})

Init ==
  /\ now = 0
  /\ profiles = << >> /\ reported = << >>
  /\ chains = << >> /\ nodes = << >> /\ states = << >> /\ progress = << >>
  /\ active = [p \in Player |-> << >>] /\ claims = << >> /\ starts = << >>
  /\ missions = << >> /\ dailyReset = [p \in Player |-> 0] /\ earned = << >>
  /\ seasonId = 0 /\ pass = << >> /\ passRewards = << >> /\ xpGranted = {} /\ tierClaims = << >>

Tick ==
  /\ now < MaxTime
  /\ now' = now + 1
  /\ UNCHANGED <<profileVars, questVars, missionVars, passVars>>
-----------------------------------------------------------------------------
(* Profiles *)

ProfileOf(p) == {i \in DOMAIN profiles : profiles[i].owner = p}

InitializeProfile(p) ==
  /\ ProfileOf(p) = {}
  /\ profiles' = Append(profiles, [owner |-> p, scans |-> 0, essence |-> 0,
                                   streak |-> 0, longest |-> 0, lastDay |-> 0, updated |-> now])
  /\ reported' = Append(reported, 0)
  /\ UNCHANGED <<now, questVars, missionVars, passVars>>

Updated(i, scans, essence) ==
  [profiles[i] EXCEPT !.scans = @ + scans, !.essence = @ + essence, !.updated = now]

UpdateProgress(i, scans, essence) ==
  /\ i \in DOMAIN profiles
  /\ reported[i] + essence <= 2
  /\ profiles' = [profiles EXCEPT ![i] = Updated(i, scans, essence)]
  /\ reported' = [reported EXCEPT ![i] = @ + essence]
  /\ UNCHANGED <<now, questVars, missionVars, passVars>>

\* batch_update_progress: every update is for a profile of the caller, or none
\* is made.
BatchUpdateProgress(p, ids) ==
  /\ ids # << >>
  /\ \A k \in DOMAIN ids : ids[k] \in ProfileOf(p)
  /\ \A i \in ToSet(ids) : reported[i] + Count(ids, i) <= 2
  /\ profiles' = [i \in DOMAIN profiles |->
                    IF i \in ToSet(ids) THEN Updated(i, Count(ids, i), Count(ids, i))
                                        ELSE profiles[i]]
  /\ reported' = [i \in DOMAIN reported |-> reported[i] + Count(ids, i)]
  /\ UNCHANGED <<now, questVars, missionVars, passVars>>

\* record_login: a day is recorded once.
RecordLogin(i, day, streak) ==
  /\ i \in DOMAIN profiles
  /\ ~(day <= profiles[i].lastDay /\ profiles[i].lastDay # 0)
  /\ profiles' = [profiles EXCEPT ![i].streak = streak, ![i].longest = Max({@, streak}),
                                  ![i].lastDay = day, ![i].updated = now]
  /\ UNCHANGED <<now, reported, questVars, missionVars, passVars>>

\* credit_essence.
CreditEssence(i, amount) ==
  profiles' = [profiles EXCEPT ![i].essence = @ + amount, ![i].updated = now]
-----------------------------------------------------------------------------
(* Quest chains *)

DefineChain(p) ==
  /\ Len(chains) < MaxChains
  /\ chains' = Append(chains, [creator |-> p, root |-> ChainTerminus, count |-> 0])
  /\ UNCHANGED <<now, profileVars, nodes, states, progress, active, claims, starts, missionVars,
                 passVars>>

\* add_quest_node: branches may lead to nodes that do not exist yet.
AddQuestNode(p, c, shape) ==
  /\ c \in DOMAIN chains /\ chains[c].creator = p
  /\ chains[c].count < MaxChainLength
  /\ Len(shape.branches) <= MaxBranches
  /\ shape.target > 0
  /\ Len(nodes) < MaxNodes
  /\ nodes' = Append(nodes, [chain |-> c, shape |-> shape])
  /\ chains' = [chains EXCEPT ![c].count = @ + 1,
                              ![c].root = IF @ = ChainTerminus THEN Len(nodes') ELSE @]
  /\ UNCHANGED <<now, profileVars, states, progress, active, claims, starts, missionVars, passVars>>

\* activate: push_active, then the state.  A quest that was active or finished
\* before starts over.
Activate(p, q) ==
  /\ q \in DOMAIN nodes
  /\ Len(active[p]) < MaxActiveQuests
  /\ active' = [active EXCEPT ![p] = Append(@, q)]
  /\ starts' = Append(starts, <<p, q>>)

ActiveState(q) ==
  LET d == nodes[q].shape.duration
  IN  [status |-> "Active", progress |-> 0, expires |-> IF d = 0 THEN 0 ELSE now + d, chosen |-> 0]

StartChain(p, c) ==
  /\ c \in DOMAIN chains /\ chains[c].root # ChainTerminus
  /\ <<p, c>> \notin DOMAIN progress
  /\ Activate(p, chains[c].root)
  /\ states' = With(states, <<p, chains[c].root>>, ActiveState(chains[c].root))
  /\ progress' = With(progress, <<p, c>>,
                      [current |-> chains[c].root, steps |-> 0, essence |-> 0, path |-> << >>,
                       finished |-> FALSE])
  /\ UNCHANGED <<now, profileVars, chains, nodes, claims, missionVars, passVars>>

\* record_progress_unchecked on a state and an active list.
Lapsed(s) == s.expires # 0 /\ now > s.expires
Advanced(q, s, amount) ==
  IF Lapsed(s) THEN [s EXCEPT !.status = "Expired"]
  ELSE IF s.progress + amount >= nodes[q].shape.target
    THEN [s EXCEPT !.progress = nodes[q].shape.target, !.status = "Completed"]
    ELSE [s EXCEPT !.progress = @ + amount]
StillActive(p, list, st) == SelectSeq(list, LAMBDA q : st[<<p, q>>].status = "Active")

\* record_progress: the error for a quest past its time undoes the call, so the
\* quest stays active.
RecordProgress(p, q, amount) ==
  /\ <<p, q>> \in DOMAIN states /\ states[<<p, q>>].status = "Active"
  /\ ~Lapsed(states[<<p, q>>])
  /\ states' = [states EXCEPT ![<<p, q>>] = Advanced(q, @, amount)]
  /\ active' = [active EXCEPT ![p] = StillActive(p, @, states')]
  /\ UNCHANGED <<now, profileVars, chains, nodes, progress, claims, starts, missionVars, passVars>>

\* on_mission_completed leaving what it finds expired in the list.
KeepExpiredListed(p, objective, amount) ==
  LET hit == {q \in ToSet(active[p]) : nodes[q].shape.objective = objective}
  IN  /\ states' = [k \in DOMAIN states |->
                      IF k[1] = p /\ k[2] \in hit THEN Advanced(k[2], states[k], amount)
                                                  ELSE states[k]]
      /\ active' = [active EXCEPT ![p] =
                      SelectSeq(@, LAMBDA q : states'[<<p, q>>].status \in {"Active", "Expired"})]

\* on_mission_completed: every active quest with the objective advances; one
\* past its time expires here, since its error is dropped.
OnMissionCompleted(p, objective, amount) ==
  LET hit == {q \in ToSet(active[p]) : nodes[q].shape.objective = objective}
  IN  /\ states' = [k \in DOMAIN states |->
                      IF k[1] = p /\ k[2] \in hit THEN Advanced(k[2], states[k], amount)
                                                  ELSE states[k]]
      /\ active' = [active EXCEPT ![p] = StillActive(p, @, states')]

HasSuccessor(q) == \E i \in DOMAIN nodes[q].shape.branches :
                     nodes[q].shape.branches[i] # ChainTerminus

\* claim_quest_reward for a quest that was completed, whether or not claimed.
ClaimTwice(p, q) ==
  LET c == nodes[q].chain
  IN  /\ <<p, q>> \in DOMAIN states /\ states[<<p, q>>].status \in {"Completed", "Claimed"}
      /\ Len(claims) < MaxClaims
      /\ ProfileOf(p) # {} /\ <<p, c>> \in DOMAIN progress
      /\ \E i \in ProfileOf(p) : CreditEssence(i, nodes[q].shape.essence)
      /\ states' = [states EXCEPT ![<<p, q>>].status = "Claimed"]
      /\ progress' = [progress EXCEPT ![<<p, c>>].steps = @ + 1,
                        ![<<p, c>>].essence = @ + nodes[q].shape.essence,
                        ![<<p, c>>].current = q,
                        ![<<p, c>>].finished = @ \/ ~HasSuccessor(q)]
      /\ claims' = Append(claims, <<p, q>>)
      /\ UNCHANGED <<now, reported, chains, nodes, active, starts, missionVars, passVars>>

ClaimQuestReward(p, q) ==
  LET c == nodes[q].chain
  IN  /\ <<p, q>> \in DOMAIN states /\ states[<<p, q>>].status = "Completed"
      /\ Len(claims) < MaxClaims
      /\ ProfileOf(p) # {} /\ <<p, c>> \in DOMAIN progress
      /\ \E i \in ProfileOf(p) : CreditEssence(i, nodes[q].shape.essence)
      /\ states' = [states EXCEPT ![<<p, q>>].status = "Claimed"]
      /\ progress' = [progress EXCEPT ![<<p, c>>].steps = @ + 1,
                        ![<<p, c>>].essence = @ + nodes[q].shape.essence,
                        ![<<p, c>>].current = q,
                        ![<<p, c>>].finished = @ \/ ~HasSuccessor(q)]
      /\ claims' = Append(claims, <<p, q>>)
      /\ UNCHANGED <<now, reported, chains, nodes, active, starts, missionVars, passVars>>

\* choose_branch: to the end of the chain, or to a node of whatever chain.
ChooseBranch(p, q, choice) ==
  LET c == nodes[q].chain
      next == nodes[q].shape.branches[choice]
      marked == [states EXCEPT ![<<p, q>>].chosen = choice]
  IN  /\ <<p, q>> \in DOMAIN states
      /\ states[<<p, q>>].status = "Claimed" /\ states[<<p, q>>].chosen = 0
      /\ choice \in DOMAIN nodes[q].shape.branches
      /\ <<p, c>> \in DOMAIN progress
      /\ \/ /\ next = ChainTerminus
            /\ states' = marked
            /\ progress' = [progress EXCEPT ![<<p, c>>].path = Append(@, choice),
                                            ![<<p, c>>].finished = TRUE]
            /\ UNCHANGED <<active, starts>>
         \/ /\ next # ChainTerminus
            /\ Activate(p, next)
            /\ states' = With(marked, <<p, next>>, ActiveState(next))
            /\ progress' = [progress EXCEPT ![<<p, c>>].path = Append(@, choice),
                                            ![<<p, c>>].current = next]
      /\ UNCHANGED <<now, profileVars, chains, nodes, claims, missionVars, passVars>>

\* A mission of another player feeds no quest of this one; missions and quests
\* meet in CompleteMission, here a completed mission of any objective.
MissionFeeds(p, objective, amount) ==
  /\ active[p] # << >>
  /\ OnMissionCompleted(p, objective, amount)
  /\ UNCHANGED <<now, profileVars, chains, nodes, progress, claims, starts, missionVars, passVars>>

ProfileNext ==
  \/ Tick
  \/ \E p \in Player : InitializeProfile(p)
  \/ \E i \in DOMAIN profiles : UpdateProgress(i, 1, 1)
  \/ \E p \in Player, ids \in SeqOf(DOMAIN profiles, 2) : BatchUpdateProgress(p, ids)
  \/ \E i \in DOMAIN profiles, day \in 1 .. 2, streak \in 1 .. 2 : RecordLogin(i, day, streak)

QuestNext ==
  \/ Tick
  \/ \E p \in Player :
       \/ InitializeProfile(p)
       \/ DefineChain(p)
       \/ \E c \in DOMAIN chains, shape \in Shapes : AddQuestNode(p, c, shape)
       \/ \E c \in DOMAIN chains : StartChain(p, c)
       \/ \E q \in DOMAIN nodes, amount \in Progress : RecordProgress(p, q, amount)
       \/ \E q \in DOMAIN nodes : ClaimQuestReward(p, q)
       \/ \E q \in DOMAIN nodes, choice \in 1 .. MaxBranches : ChooseBranch(p, q, choice)
       \/ \E o \in Objective, amount \in Progress : MissionFeeds(p, o, amount)
-----------------------------------------------------------------------------
(* Missions *)

Today == now \div Day

\* The missions counted against the limit of a day that has begun before: the
\* ones whose number is one of the next three after the number of the day.
DailyCount(p) ==
  IF Today > dailyReset[p] THEN 0
  ELSE Cardinality({m \in Today .. Today + DailyMissionLimit - 1 :
                      m \in DOMAIN missions /\ missions[m].player = p})

\* generate_daily_mission and generate_ai_mission differ in how the objective
\* and target are drawn.
NewMission(p, o, target) ==
  /\ DailyCount(p) < DailyMissionLimit
  /\ Len(missions) < MaxMissions
  /\ dailyReset' = [dailyReset EXCEPT ![p] = Max({@, Today})]
  /\ missions' = Append(missions,
       [player |-> p, objective |-> o, target |-> target, progress |-> 0, completed |-> FALSE,
        claimed |-> FALSE, expires |-> now + Day])
  /\ UNCHANGED <<now, profileVars, questVars, earned, passVars>>

GenerateDailyMission(p, o) == NewMission(p, o, 2)
GenerateAiMission(p, o) == NewMission(p, o, 1)

UpdateMissionProgress(m, amount) ==
  LET done == missions[m].progress + amount
  IN  /\ m \in DOMAIN missions
      /\ done <= 2
      /\ missions' = [missions EXCEPT ![m].progress = done,
                                      ![m].completed = @ \/ done >= missions[m].target]
      /\ UNCHANGED <<now, profileVars, questVars, dailyReset, earned, passVars>>

\* complete_mission without the look at the claimed flag.
CompleteAgain(p, m) ==
  /\ m \in DOMAIN missions /\ missions[m].player = p
  /\ missions[m].completed
  /\ now <= missions[m].expires
  /\ Len(earned) < MaxMissions
  /\ missions' = [missions EXCEPT ![m].claimed = TRUE]
  /\ earned' = Append(earned, m)
  /\ OnMissionCompleted(p, missions[m].objective, missions[m].target)
  /\ UNCHANGED <<now, profileVars, chains, nodes, progress, claims, starts, dailyReset, passVars>>

CompleteMission(p, m) ==
  /\ m \in DOMAIN missions /\ missions[m].player = p
  /\ ~missions[m].claimed
  /\ missions[m].completed
  /\ now <= missions[m].expires
  /\ missions' = [missions EXCEPT ![m].claimed = TRUE]
  /\ earned' = Append(earned, m)
  /\ OnMissionCompleted(p, missions[m].objective, missions[m].target)
  /\ UNCHANGED <<now, profileVars, chains, nodes, progress, claims, starts, dailyReset, passVars>>

MissionNext ==
  \/ Tick
  \/ \E p \in Player, o \in Objective : GenerateDailyMission(p, o) \/ GenerateAiMission(p, o)
  \/ \E m \in DOMAIN missions, amount \in Progress : UpdateMissionProgress(m, amount)
  \/ \E p \in Player, m \in DOMAIN missions : CompleteMission(p, m)
-----------------------------------------------------------------------------
(* The battle pass; profile ids are the players here *)

MaxFreeTiers == 30
MaxPremiumTiers == 50
NoPass == [xp |-> 0, free |-> {}, lo |-> {}, hi |-> {}, premium |-> FALSE]
Pass(p) == IF <<p, seasonId>> \in DOMAIN pass THEN pass[<<p, seasonId>>] ELSE NoPass

\* seasons.rs opens the first season and rolls over to the next.
NextSeason ==
  /\ seasonId < 2
  /\ seasonId' = seasonId + 1
  /\ UNCHANGED <<now, profileVars, questVars, missionVars, pass, passRewards, xpGranted, tierClaims>>

GainXp(p, xp) ==
  /\ seasonId > 0
  /\ Pass(p).xp + xp <= MaxXp
  /\ pass' = With(pass, <<p, seasonId>>, [Pass(p) EXCEPT !.xp = @ + xp])
  /\ UNCHANGED <<now, profileVars, questVars, missionVars, seasonId, passRewards, tierClaims>>

AddXp(p, scans, essence) ==
  /\ GainXp(p, scans * 10 + Max({essence, 0}))
  /\ UNCHANGED xpGranted

\* add_xp_for_challenge: a challenge counts once, in whatever season.
AddXpForChallenge(p, k) ==
  /\ <<p, k>> \notin xpGranted
  /\ GainXp(p, 100)
  /\ xpGranted' = xpGranted \cup {<<p, k>>}

AddXpForSeasonalNebula(p) == GainXp(p, 50) /\ UNCHANGED xpGranted

UnlockPremiumPass(p) ==
  /\ seasonId > 0
  /\ ~Pass(p).premium
  /\ pass' = With(pass, <<p, seasonId>>, [Pass(p) EXCEPT !.premium = TRUE])
  /\ UNCHANGED <<now, profileVars, questVars, missionVars, seasonId, passRewards, xpGranted,
                 tierClaims>>

\* init_default_season_rewards, for the tiers that are claimed.
DefaultXp(tier, kind) == IF kind = "Free" THEN 100 + (tier - 1) * 150 ELSE 200 + (tier - 1) * 100
InitDefaultSeasonRewards(s) ==
  /\ passRewards' = [k \in DOMAIN passRewards \cup ({s} \X Tier \X {"Free", "Premium"}) |->
                       IF k[1] = s THEN DefaultXp(k[2], k[3]) ELSE passRewards[k]]
  /\ UNCHANGED <<now, profileVars, questVars, missionVars, seasonId, pass, xpGranted, tierClaims>>

\* init_season_rewards may replace the requirement of a tier at any time.
InitSeasonRewards(s, tier, kind, xp) ==
  /\ passRewards' = With(passRewards, <<s, tier, kind>>, xp)
  /\ UNCHANGED <<now, profileVars, questVars, missionVars, seasonId, pass, xpGranted, tierClaims>>


\* The claimed tiers are bits of one word for the free tiers and of two words,
\* 32 and 18 bits long, for the premium tiers.
Word(tier, kind) == IF kind = "Free" THEN "free" ELSE IF tier <= 32 THEN "lo" ELSE "hi"
Bit(tier, kind) == IF kind = "Premium" /\ tier > 32 THEN tier - 33 ELSE tier - 1

ClaimRewardV2(p, tier, kind) ==
  LET w == Word(tier, kind)
      k == <<p, seasonId>>
  IN  /\ seasonId > 0 /\ k \in DOMAIN pass
      /\ tier > 0 /\ tier <= (IF kind = "Free" THEN MaxFreeTiers ELSE MaxPremiumTiers)
      /\ kind = "Premium" => pass[k].premium
      /\ Bit(tier, kind) \notin pass[k][w]
      /\ <<seasonId, tier, kind>> \in DOMAIN passRewards
      /\ pass[k].xp >= passRewards[<<seasonId, tier, kind>>]
      /\ pass' = [pass EXCEPT ![k][w] = @ \cup {Bit(tier, kind)}]
      /\ LET c == <<p, seasonId, tier, kind>>
         IN  tierClaims' = With(tierClaims, c, 1 + (IF c \in DOMAIN tierClaims THEN tierClaims[c] ELSE 0))
      /\ UNCHANGED <<now, profileVars, questVars, missionVars, seasonId, passRewards, xpGranted>>

PassNext ==
  \/ NextSeason
  \/ \E p \in Player, g \in XpGains : AddXp(p, g[1], g[2])
  \/ \E p \in Player, k \in Challenge : AddXpForChallenge(p, k)
  \/ \E p \in Player : AddXpForSeasonalNebula(p) \/ UnlockPremiumPass(p)
  \/ \E s \in 1 .. 2 : InitDefaultSeasonRewards(s)
  \/ \E s \in 1 .. 2 : InitSeasonRewards(s, 33, "Premium", 150)
  \/ \E p \in Player, tier \in Tier, kind \in {"Free", "Premium"} : ClaimRewardV2(p, tier, kind)

Next == ProfileNext \/ QuestNext \/ MissionNext \/ PassNext
Spec == Init /\ [][Next]_vars
-----------------------------------------------------------------------------
TypeOK ==
  /\ now \in 0 .. MaxTime
  /\ \A k \in DOMAIN states : states[k].status \in {"Active", "Completed", "Claimed", "Expired"}
  /\ \A p \in Player : Len(active[p]) <= MaxActiveQuests

\* claim_quest_reward: an activation of a quest is paid at most once; the steps
\* and the essence a player's chains report are what they claimed, and the
\* essence of a profile is what its chains paid and its owner reported.
QuestsPayOnce ==
  /\ \A k \in ToSet(claims) : Count(claims, k) <= Count(starts, k)
  /\ \A i \in DOMAIN profiles :
       LET p == profiles[i].owner
           mine == {k \in DOMAIN progress : k[1] = p}
       IN  /\ profiles[i].essence - reported[i]
                = MapThenSumSet(LAMBDA k : progress[k].essence, mine)
           /\ MapThenSumSet(LAMBDA k : progress[k].steps, mine)
                = Len(SelectSeq(claims, LAMBDA k : k[1] = p))

\* push_active, remove_active: the list of active quests of a player names just
\* the quests whose state is active, through expiry, completion and branches
\* into quests that were finished before.
ActiveQuestsListed ==
  \A p \in Player :
    ToSet(active[p]) = {q \in DOMAIN nodes : <<p, q>> \in DOMAIN states
                                             /\ states[<<p, q>>].status = "Active"}

\* complete_mission: a mission is rewarded once, after it was completed.
MissionsPaidOnce ==
  /\ IsInjective(earned)
  /\ \A m \in ToSet(earned) : missions[m].completed /\ missions[m].claimed

\* claim_reward_v2: the bits set in the words of a pass are those of the tiers
\* that were claimed for the season, each claimed once.
TierClaimedOnce ==
  /\ \A c \in DOMAIN tierClaims : tierClaims[c] = 1
  /\ \A k \in DOMAIN pass :
       LET mine == {c \in DOMAIN tierClaims : c[1] = k[1] /\ c[2] = k[2]}
           of(kind, w) == {c \in mine : c[4] = kind /\ (w = "hi" <=> c[3] > 32)}
       IN  /\ Cardinality(pass[k].free) = Cardinality({c \in mine : c[4] = "Free"})
           /\ pass[k].lo = {c[3] - 1 : c \in of("Premium", "lo")}
           /\ pass[k].hi = {c[3] - 33 : c \in of("Premium", "hi")}
           /\ pass[k].lo \subseteq 0 .. 31 /\ pass[k].hi \subseteq 0 .. 17

=============================================================================
