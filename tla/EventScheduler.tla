--------------------------- MODULE EventScheduler ---------------------------
(***************************************************************************)
(* The event scheduler: community events with a burst limit, recurring     *)
(* events, time limited challenges, and seasonal events whose windows must *)
(* stay apart and whose pools are shared by points (event_scheduler.rs),   *)
(* inside the seasons that pay participants at rollover (seasons.rs).      *)
(* Anyone may call initialize_scheduler again; it resets the counters and  *)
(* lists but no record.                                                    *)
(***************************************************************************)
EXTENDS Integers, Sequences, FiniteSets, SequencesExt, FiniteSetsExt, Functions

CONSTANTS Profile, Category,
          MaxActiveEvents, MaxActiveChallenges, Grace,
          Interval,            \* recurring event type -> seconds between runs
          SeasonDuration, ChapterDuration, ChaptersPerSeason,
          MinDuration, MaxDuration, MaxCooldown, MaxPending, MaxChallengesPerEvent,
          ClaimWindow,
          MaxTime, MaxEvents, MaxInits, MaxPoints \* bounds of the runs

VARIABLES now,
          inits,               \* calls of initialize_scheduler
          eventCounter, events, activeEvents, burst, lastRun,
          challengeCounter, challenges, activeChallenges, progress, claimed,
          season, participants, seasonReward, archives, seasonPaid,
          seasonal, pending, cooldown, entries

eventVars == <<eventCounter, events, activeEvents, burst, lastRun>>
challengeVars == <<challengeCounter, challenges, activeChallenges, progress, claimed>>
seasonVars == <<season, participants, seasonReward, archives, seasonPaid>>
seasonalVars == <<seasonal, pending, cooldown, entries>>
vars == <<now, inits, eventVars, challengeVars, seasonVars, seasonalVars>>

Without(seq, x) == SelectSeq(seq, LAMBDA y : y # x)
Stored(f, k, default) == IF k \in DOMAIN f THEN f[k] ELSE default
SumOver(f, S) == MapThenSumSet(LAMBDA x : f[x], S)
None == [id |-> 0]

Init ==
  /\ now = 1 /\ inits = 0
  /\ eventCounter = 0 /\ events = << >> /\ activeEvents = << >> /\ burst = 0
  /\ lastRun = << >>
  /\ challengeCounter = 0 /\ challenges = << >> /\ activeChallenges = << >>
  /\ progress = << >> /\ claimed = {}
  /\ season = None /\ participants = << >> /\ seasonReward = << >>
  /\ archives = << >> /\ seasonPaid = << >>
  /\ seasonal = << >> /\ pending = << >> /\ cooldown = [c \in Category |-> 0]
  /\ entries = << >>

Tick ==
  /\ now < MaxTime
  /\ now' = now + 1
  /\ UNCHANGED <<inits, eventVars, challengeVars, seasonVars, seasonalVars>>

InitializeScheduler ==
  /\ inits < MaxInits
  /\ inits' = inits + 1
  /\ eventCounter' = 0
  /\ activeEvents' = << >>
  /\ challengeCounter' = 0
  /\ activeChallenges' = << >>
  /\ UNCHANGED <<now, events, burst, lastRun, challenges, progress, claimed,
                 seasonVars, seasonalVars>>

\* require_admin: some admin is stored.
HasAdmin == inits > 0
-----------------------------------------------------------------------------
(* Community events *)

CheckBurstLimit == burst < MaxActiveEvents

ResetBurstCounter ==
  /\ burst' = 0
  /\ burst # 0
  /\ UNCHANGED <<now, inits, eventCounter, events, activeEvents, lastRun,
                 challengeVars, seasonVars, seasonalVars>>

\* schedule_event_authorized; a refused call leaves the burst counter as it was.
Schedule(start) ==
  /\ Len(activeEvents) < MaxActiveEvents
  /\ CheckBurstLimit
  /\ start > now
  /\ eventCounter < MaxEvents
  /\ burst' = burst + 1
  /\ eventCounter' = eventCounter + 1
  /\ events' = [e \in DOMAIN events \cup {eventCounter'} |->
                  IF e = eventCounter'
                    THEN [start |-> start, executed |-> FALSE, participants |-> 0]
                    ELSE events[e]]
  /\ activeEvents' = Append(activeEvents, eventCounter')

ScheduleEvent(start) ==
  /\ HasAdmin
  /\ Schedule(start)
  /\ UNCHANGED <<now, inits, lastRun, challengeVars, seasonVars, seasonalVars>>

\* The due date of a recurring event counts from the run before it.
RecurringDue(type) == type \in DOMAIN lastRun => now >= lastRun[type] + Interval[type]

ScheduleRecurringEvent(type) ==
  /\ HasAdmin
  /\ RecurringDue(type)
  /\ Schedule(now + Interval[type])
  /\ lastRun' = [t \in DOMAIN lastRun \cup {type} |-> IF t = type THEN now ELSE lastRun[t]]
  /\ UNCHANGED <<now, inits, challengeVars, seasonVars, seasonalVars>>

\* An event that is over and still listed, for the mutants.
CloseListed(e) ==
  /\ e \in DOMAIN events /\ ~events[e].executed
  /\ events' = [events EXCEPT ![e].executed = TRUE]
  /\ UNCHANGED <<now, inits, activeEvents, eventCounter, burst, lastRun, challengeVars, seasonVars,
                 seasonalVars>>

\* The executed flag and the list, set together by trigger and cancel.
Close(e) ==
  /\ e \in DOMAIN events /\ ~events[e].executed
  /\ events' = [events EXCEPT ![e].executed = TRUE]
  /\ activeEvents' = Without(activeEvents, e)
  /\ UNCHANGED <<now, inits, eventCounter, burst, lastRun, challengeVars, seasonVars,
                 seasonalVars>>

TriggerScheduledEvent(e) == Close(e) /\ now >= events[e].start

CancelEvent(e) == HasAdmin /\ Close(e)

UpdateParticipants(e, n) ==
  /\ e \in DOMAIN events
  /\ events' = [events EXCEPT ![e].participants = n]
  /\ UNCHANGED <<now, inits, eventCounter, activeEvents, burst, lastRun, challengeVars,
                 seasonVars, seasonalVars>>

EventNext ==
  \/ Tick
  \/ InitializeScheduler
  \/ ResetBurstCounter
  \/ \E start \in 1 .. MaxTime : ScheduleEvent(start)
  \/ \E type \in DOMAIN Interval : ScheduleRecurringEvent(type)
  \/ \E e \in DOMAIN events : TriggerScheduledEvent(e) \/ CancelEvent(e)
  \/ \E e \in DOMAIN events : UpdateParticipants(e, 1)
-----------------------------------------------------------------------------
(* Time limited challenges *)

NewChallenge(start, end, target) ==
  [start |-> start, end |-> end, target |-> target, participants |-> 0, completedBy |-> 0]

\* register_challenge.
RegisterChallenge(c) ==
  /\ Len(activeChallenges) < MaxActiveChallenges
  /\ challengeCounter < MaxEvents
  /\ challengeCounter' = challengeCounter + 1
  /\ challenges' = [k \in DOMAIN challenges \cup {challengeCounter'} |->
                      IF k = challengeCounter' THEN c ELSE challenges[k]]
  /\ activeChallenges' = Append(activeChallenges, challengeCounter')
  /\ UNCHANGED <<progress, claimed>>

CreateTimeLimitedChallenge(duration, target) ==
  /\ HasAdmin
  /\ RegisterChallenge(NewChallenge(now, now + duration, target))
  /\ UNCHANGED <<now, inits, eventVars, seasonVars, seasonalVars>>

\* A profile is counted again at each call that finds its progress at zero, and
\* completion is counted when the target is first reached.
RecordChallengeProgress(k, p, delta) ==
  LET old == Stored(progress, <<k, p>>, [value |-> 0, completed |-> FALSE])
      value == old.value + delta
      just_completed == ~old.completed /\ value >= challenges[k].target
      was_new == old.value = 0 /\ delta > 0
  IN  /\ k \in DOMAIN challenges
      /\ now >= challenges[k].start /\ now <= challenges[k].end
      /\ value <= MaxPoints
      /\ progress' = [q \in DOMAIN progress \cup {<<k, p>>} |->
                        IF q = <<k, p>>
                          THEN [value |-> value, completed |-> old.completed \/ just_completed]
                          ELSE progress[q]]
      /\ challenges' = [challenges EXCEPT
                          ![k].completedBy = @ + (IF just_completed THEN 1 ELSE 0),
                          ![k].participants = @ + (IF was_new THEN 1 ELSE 0)]
      /\ UNCHANGED <<now, inits, challengeCounter, activeChallenges, claimed, eventVars,
                     seasonVars, seasonalVars>>

\* Claiming in spite of an earlier claim.
ClaimAgain(k, p) ==
  /\ k \in DOMAIN challenges
  /\ now <= challenges[k].end + Grace
  /\ <<k, p>> \in DOMAIN progress
  /\ claimed' = claimed \cup {<<k, p>>}
  /\ UNCHANGED <<now, inits, challengeCounter, challenges, activeChallenges, progress,
                 eventVars, seasonVars, seasonalVars>>

ClaimChallengeReward(k, p) ==
  /\ k \in DOMAIN challenges
  /\ now <= challenges[k].end + Grace
  /\ <<k, p>> \notin claimed
  /\ <<k, p>> \in DOMAIN progress /\ progress[<<k, p>>].completed
  /\ claimed' = claimed \cup {<<k, p>>}
  /\ UNCHANGED <<now, inits, challengeCounter, challenges, activeChallenges, progress,
                 eventVars, seasonVars, seasonalVars>>

\* get_active_challenges: those that still take progress.
ExpireChallenges ==
  /\ HasAdmin
  /\ activeChallenges' =
       SelectSeq(activeChallenges, LAMBDA k : now <= challenges[k].end + Grace)
  /\ activeChallenges' # activeChallenges
  /\ UNCHANGED <<now, inits, challengeCounter, challenges, progress, claimed, eventVars,
                 seasonVars, seasonalVars>>

ChallengeNext ==
  \/ Tick
  \/ InitializeScheduler
  \/ \E d \in 1 .. 2 : CreateTimeLimitedChallenge(d, 2)
  \/ \E k \in DOMAIN challenges, p \in Profile :
       \/ \E delta \in 0 .. 2 : RecordChallengeProgress(k, p, delta)
       \/ ClaimChallengeReward(k, p)
  \/ ExpireChallenges
-----------------------------------------------------------------------------
(* Seasons *)

Themes == <<"EmberNebula", "VoidTide", "StellarApex", "CrimsonDrift", "AzureVeil", "NovaBurst">>
FromSeasonId(id) == Themes[((id - 1) % 6) + 1]
EventRewardMultiplierBps(theme) ==
  [EmberNebula |-> 11000, VoidTide |-> 12500, StellarApex |-> 11500,
   CrimsonDrift |-> 13000, AzureVeil |-> 12000, NovaBurst |-> 15000][theme]

\* seasonal_event_reward_pool: the pool scaled by the theme and the bonus of an
\* exclusive event.
SeasonalEventRewardPool(theme, base, exclusive) ==
  (base * (EventRewardMultiplierBps(theme) + (IF exclusive THEN 2500 ELSE 0))) \div 10000

ChapterIndex(elapsed) == Min({elapsed \div ChapterDuration, ChaptersPerSeason - 1})

NewSeason(id) ==
  [id |-> id, start |-> now, end |-> now + SeasonDuration, theme |-> FromSeasonId(id), chapter |-> 1]

InitializeSeason ==
  /\ season = None
  /\ season' = NewSeason(1)
  /\ UNCHANGED <<now, inits, participants, seasonReward, archives, seasonPaid, eventVars,
                 challengeVars, seasonalVars>>

AdvanceChapter ==
  /\ season # None
  /\ season.chapter < ChaptersPerSeason
  /\ ChapterIndex(now - season.start) + 1 > season.chapter
  /\ season' = [season EXCEPT !.chapter = ChapterIndex(now - season.start) + 1]
  /\ UNCHANGED <<now, inits, participants, seasonReward, archives, seasonPaid, eventVars,
                 challengeVars, seasonalVars>>

NoParticipation == [scans |-> 0, essence |-> 0, chapters |-> {}, nebula |-> FALSE]

PutParticipation(p, stats) ==
  /\ season # None
  /\ participants' = [q \in DOMAIN participants \cup {<<p, season.id>>} |->
                        IF q = <<p, season.id>> THEN stats ELSE participants[q]]
  /\ UNCHANGED <<now, inits, season, seasonReward, archives, seasonPaid, eventVars,
                 challengeVars, seasonalVars>>

\* record_participation: also after the season's end, until it is rolled over.
RecordParticipation(p, scans, essence) ==
  LET old == Stored(participants, <<p, season.id>>, NoParticipation)
  IN  /\ season # None
      /\ old.scans + scans <= 2
      /\ PutParticipation(p, [old EXCEPT !.scans = @ + scans, !.essence = @ + essence,
                                         !.chapters = @ \cup {ChapterIndex(now - season.start)}])

RecordSeasonalNebulaDiscovery(p) ==
  /\ season # None
  /\ PutParticipation(p, [Stored(participants, <<p, season.id>>, NoParticipation)
                            EXCEPT !.nebula = TRUE])

RewardPerScan == 10
ChapterCompletionBonus == 500
Reward(stats) ==
  stats.scans * RewardPerScan + (stats.essence * 500) \div 10000
    + (IF Cardinality(stats.chapters) = ChaptersPerSeason THEN ChapterCompletionBonus ELSE 0)

\* rollover_season without dropping the participation that it pays.
RolloverKeepingStats(ids) ==
  LET paid == {p \in ids : <<p, season.id>> \in DOMAIN participants}
      reward == [q \in {<<p, season.id>> : p \in paid} |-> Reward(participants[q])]
  IN  /\ season # None /\ now >= season.end
      /\ seasonReward' = [q \in DOMAIN seasonReward \cup DOMAIN reward |->
                            IF q \in DOMAIN reward THEN reward[q] ELSE seasonReward[q]]
      /\ archives' = Append(archives, [total |-> 0])
      /\ season' = NewSeason(season.id + 1)
      /\ UNCHANGED <<now, inits, participants, seasonPaid, eventVars, challengeVars,
                     seasonalVars>>

\* rollover_season: the admin names the participants; the rewards of the named
\* ones replace their statistics, the others keep theirs and get nothing.
RolloverSeason(ids) ==
  LET paid == {p \in ids : <<p, season.id>> \in DOMAIN participants}
      reward == [q \in {<<p, season.id>> : p \in paid} |-> Reward(participants[q])]
  IN  /\ season # None /\ now >= season.end
      /\ seasonReward' = [q \in DOMAIN seasonReward \cup DOMAIN reward |->
                            IF q \in DOMAIN reward THEN reward[q] ELSE seasonReward[q]]
      /\ participants' = Restrict(participants, DOMAIN participants \ DOMAIN reward)
      /\ archives' = Append(archives, [total |-> SumOver(reward, DOMAIN reward)])
      /\ season' = NewSeason(season.id + 1)
      /\ UNCHANGED <<now, inits, seasonPaid, eventVars, challengeVars, seasonalVars>>

\* claim_season_reward removes the reward it pays.
ClaimSeasonReward(s, p) ==
  /\ <<p, s>> \in DOMAIN seasonReward /\ seasonReward[<<p, s>>] # 0
  /\ seasonReward' = Restrict(seasonReward, DOMAIN seasonReward \ {<<p, s>>})
  /\ seasonPaid' = Append(seasonPaid, [season |-> s, profile |-> p,
                                       amount |-> seasonReward[<<p, s>>]])
  /\ UNCHANGED <<now, inits, season, participants, archives, eventVars, challengeVars,
                 seasonalVars>>

SeasonNext ==
  \/ Tick
  \/ InitializeSeason
  \/ AdvanceChapter
  \/ \E p \in Profile : RecordParticipation(p, 1, 20) \/ RecordSeasonalNebulaDiscovery(p)
  \/ \E ids \in SUBSET Profile : RolloverSeason(ids)
  \/ \E s \in DOMAIN archives, p \in Profile : ClaimSeasonReward(s, p)
-----------------------------------------------------------------------------
(* Seasonal events *)

Pending == ToSet(pending)

\* check_window_conflicts against the pending events alone that are exclusive.
OwnExclusiveOnly(c, start, end, cool, exclusive) ==
  \A e \in Pending :
    LET other == seasonal[e]
    IN  /\ ~(start < other.end /\ other.start < end /\ exclusive)
        /\ other.category = c =>
             start >= other.end + other.cooldown \/ end + cool <= other.start

CheckWindowConflicts(c, start, end, cool, exclusive) ==
  \A e \in Pending :
    LET other == seasonal[e]
    IN  /\ ~(start < other.end /\ other.start < end /\ (exclusive \/ other.exclusive))
        /\ other.category = c =>
             start >= other.end + other.cooldown \/ end + cool <= other.start

ScheduleSeasonalEvent(c, start, duration, cool, base, exclusive) ==
  LET end == start + duration
  IN  /\ HasAdmin
      /\ season # None
      /\ start >= now
      /\ duration >= MinDuration /\ duration <= MaxDuration /\ cool <= MaxCooldown
      /\ start >= season.start /\ end <= season.end
      /\ start >= cooldown[c]
      /\ Len(pending) < MaxPending
      /\ CheckWindowConflicts(c, start, end, cool, exclusive)
      /\ base > 0
      /\ Len(seasonal) < MaxEvents
      /\ seasonal' = Append(seasonal,
           [category |-> c, start |-> start, end |-> end, cooldown |-> cool,
            exclusive |-> exclusive, status |-> "Scheduled", participants |-> 0,
            pool |-> SeasonalEventRewardPool(season.theme, base, exclusive),
            points |-> 0, paid |-> 0, challenges |-> << >>])
      /\ pending' = Append(pending, Len(seasonal'))
      /\ UNCHANGED <<now, inits, cooldown, entries, eventVars, challengeVars, seasonVars>>

ActivateSeasonalEvent(e) ==
  /\ e \in DOMAIN seasonal /\ seasonal[e].status = "Scheduled"
  /\ now >= seasonal[e].start /\ now < seasonal[e].end
  /\ seasonal' = [seasonal EXCEPT ![e].status = "Active"]
  /\ UNCHANGED <<now, inits, pending, cooldown, entries, eventVars, challengeVars, seasonVars>>

Open(e) == e \in DOMAIN seasonal /\ seasonal[e].status \in {"Scheduled", "Active"}

EndSeasonalEvent(e) ==
  /\ Open(e)
  /\ now >= seasonal[e].end
  /\ seasonal' = [seasonal EXCEPT ![e].status = "Ended"]
  /\ pending' = Without(pending, e)
  /\ cooldown' = [cooldown EXCEPT ![seasonal[e].category] =
                    Max({@, seasonal[e].end + seasonal[e].cooldown})]
  /\ UNCHANGED <<now, inits, entries, eventVars, challengeVars, seasonVars>>

CancelSeasonalEvent(e) ==
  /\ HasAdmin
  /\ Open(e)
  /\ seasonal' = [seasonal EXCEPT ![e].status = "Cancelled"]
  /\ pending' = Without(pending, e)
  /\ UNCHANGED <<now, inits, cooldown, entries, eventVars, challengeVars, seasonVars>>

AddSeasonalEventChallenge(e) ==
  /\ HasAdmin
  /\ Open(e)
  /\ Len(seasonal[e].challenges) < MaxChallengesPerEvent
  /\ RegisterChallenge(NewChallenge(seasonal[e].start, seasonal[e].end, 2))
  /\ seasonal' = [seasonal EXCEPT ![e].challenges = Append(@, challengeCounter')]
  /\ UNCHANGED <<now, inits, pending, cooldown, entries, eventVars, seasonVars>>

RecordSeasonalEventPoints(e, p, points) ==
  LET old == Stored(entries, <<e, p>>, [points |-> 0, claimed |-> FALSE, paid |-> 0])
  IN  /\ e \in DOMAIN seasonal /\ seasonal[e].status = "Active"
      /\ now < seasonal[e].end
      /\ old.points + points <= MaxPoints
      /\ entries' = [q \in DOMAIN entries \cup {<<e, p>>} |->
                       IF q = <<e, p>> THEN [old EXCEPT !.points = @ + points] ELSE entries[q]]
      /\ seasonal' = [seasonal EXCEPT
                        ![e].participants = @ + (IF old.points = 0 /\ points > 0 THEN 1 ELSE 0),
                        ![e].points = @ + points]
      /\ UNCHANGED <<now, inits, pending, cooldown, eventVars, challengeVars, seasonVars>>

\* claim_seasonal_event_reward; the amount an entry was paid is a history.
ClaimWhen(statuses, e, p) ==
  LET reward == (seasonal[e].pool * entries[<<e, p>>].points) \div seasonal[e].points
  IN  /\ e \in DOMAIN seasonal /\ seasonal[e].status \in statuses
      /\ now <= seasonal[e].end + ClaimWindow
      /\ <<e, p>> \in DOMAIN entries
      /\ ~entries[<<e, p>>].claimed
      /\ entries[<<e, p>>].points > 0 /\ seasonal[e].points > 0
      /\ reward > 0
      /\ entries' = [entries EXCEPT ![<<e, p>>].claimed = TRUE, ![<<e, p>>].paid = reward]
      /\ seasonal' = [seasonal EXCEPT ![e].paid = @ + reward]
      /\ UNCHANGED <<now, inits, pending, cooldown, eventVars, challengeVars, seasonVars>>

ClaimSeasonalEventReward(e, p) == ClaimWhen({"Ended"}, e, p)

\* The seasonal events and the challenges and season they use.
SeasonalNext ==
  \/ Tick
  \/ InitializeScheduler
  \/ InitializeSeason
  \/ \E c \in Category, start \in 1 .. MaxTime, d \in MinDuration - 1 .. MaxDuration,
        cool \in 0 .. MaxCooldown, x \in BOOLEAN :
       ScheduleSeasonalEvent(c, start, d, cool, 3, x)
  \/ \E e \in DOMAIN seasonal :
       \/ ActivateSeasonalEvent(e) \/ EndSeasonalEvent(e) \/ CancelSeasonalEvent(e)
       \/ AddSeasonalEventChallenge(e)
  \/ \E e \in DOMAIN seasonal, p \in Profile :
       \/ \E points \in 1 .. 2 : RecordSeasonalEventPoints(e, p, points)
       \/ ClaimSeasonalEventReward(e, p)

Next == EventNext \/ ChallengeNext \/ SeasonNext \/ SeasonalNext
Spec == Init /\ [][Next]_vars
-----------------------------------------------------------------------------
TypeOK ==
  /\ now \in 1 .. MaxTime /\ inits \in 0 .. MaxInits
  /\ burst \in 0 .. MaxActiveEvents
  /\ \A e \in DOMAIN seasonal : seasonal[e].status \in {"Scheduled", "Active", "Ended", "Cancelled"}

\* schedule_event, trigger, cancel, initialize_scheduler: the list of active
\* events holds no event twice and none that was executed or cancelled; while
\* the scheduler was initialised once it holds every other event.
ActiveEventsPending ==
  /\ IsInjective(activeEvents)
  /\ Len(activeEvents) <= MaxActiveEvents
  /\ \A e \in ToSet(activeEvents) : e \in DOMAIN events /\ ~events[e].executed
  /\ inits <= 1 => {e \in DOMAIN events : ~events[e].executed} \subseteq ToSet(activeEvents)

\* record_challenge_progress, claim_challenge_reward: a reward goes to profiles
\* that completed the challenge, and while the scheduler was initialised once
\* the counters of a challenge agree with the progress of its profiles.
ChallengesAgree ==
  /\ \A q \in claimed : q \in DOMAIN progress /\ progress[q].completed
  /\ inits <= 1 =>
       \A k \in DOMAIN challenges :
         LET mine == {q \in DOMAIN progress : q[1] = k}
         IN  /\ challenges[k].completedBy = Cardinality({q \in mine : progress[q].completed})
             /\ challenges[k].participants = Cardinality({q \in mine : progress[q].value > 0})
             /\ k \notin ToSet(activeChallenges) => now > challenges[k].end + Grace

\* rollover_season, claim_season_reward: what a season paid and still owes is
\* the total its archive names, and nobody is paid twice for a season.
SeasonRewardsCovered ==
  \A s \in DOMAIN archives :
    LET owed == {q \in DOMAIN seasonReward : q[2] = s}
        mine == SelectSeq(seasonPaid, LAMBDA r : r.season = s)
    IN  /\ IsInjective([i \in DOMAIN mine |-> mine[i].profile])
        /\ SumOver(seasonReward, owed)
             + SumOver([i \in DOMAIN mine |-> mine[i].amount], DOMAIN mine) = archives[s].total

\* schedule_seasonal_event, end_seasonal_event: of two events that were not
\* cancelled, one that is exclusive shares no time with the other, and two of
\* a category keep the cooldown of the earlier between them, through whatever
\* order they are scheduled, activated and ended in.
WindowsApart ==
  \A e, f \in DOMAIN seasonal :
    LET a == seasonal[e]
        b == seasonal[f]
    IN  e # f /\ a.status # "Cancelled" /\ b.status # "Cancelled" =>
          /\ (a.exclusive \/ b.exclusive) => a.end <= b.start \/ b.end <= a.start
          /\ a.category = b.category =>
               a.end + a.cooldown <= b.start \/ b.end + b.cooldown <= a.start

\* record_seasonal_event_points, claim_seasonal_event_reward: the points and
\* participants of an event are those of its entries, and the rewards paid,
\* rounded down, never exceed the pool.
PoolsCoverRewards ==
  \A e \in DOMAIN seasonal :
    LET mine == {q \in DOMAIN entries : q[1] = e}
    IN  /\ seasonal[e].points = MapThenSumSet(LAMBDA q : entries[q].points, mine)
        /\ seasonal[e].participants = Cardinality({q \in mine : entries[q].points > 0})
        /\ seasonal[e].paid = MapThenSumSet(LAMBDA q : entries[q].paid, mine)
        /\ seasonal[e].paid <= seasonal[e].pool
        /\ Open(e) <=> e \in Pending
=============================================================================
