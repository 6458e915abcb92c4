----------------------------- MODULE MCEconomy -----------------------------
(***************************************************************************)
(* What moves value beside the market: the mint ledger with its burns,     *)
(* tournaments paid from it, alliances and their treasuries, guild stakes, *)
(* individual stakes, and what players are rewarded for: achievements and  *)
(* badges, events and seasons, quests, missions and the battle pass.       *)
(* A behaviour exercises one of them, `focus`:                             *)
(*   burn    the mint ledger of two players                                *)
(*   cup     a tournament of four, in a resource of its own                *)
(*   guild   one alliance, with treasury, territory, boss and quests       *)
(*   pool    guild stakes of two members, in two alliances                 *)
(*   stakes  individual stakes of two players                              *)
(*   unlocks achievements and badges of two players, a ranking of one      *)
(*   events, challenges, seasons      one or two of each, two profiles     *)
(*   windows, rewards                 of seasonal events in two categories *)
(*   profiles, quests, missions, pass of one player                        *)
(***************************************************************************)
EXTENDS TokenBurning

CONSTANTS alice, bob, carol, dave

VARIABLES focus,
          now, t, entrants, rounds, fought, pot, potSupply, potMinted, prizes,
          day, alliances, memberOf, treasury, contribution, given, level, territory, boss, quests,
          contributed, spawned, kills,
          purse, shares, shareTotal, acc, stakeAsset, openings,
          seq, initialized, tiers, stakes, stakeTier, totalStaked, stakerCount, totalSlashed,
          delegation, deposited, withdrawn, penalties,
          profile, unlocked, badges, playerBadges, stats, board, notified, metadata,
          ownerBadges, credited,
          clock,              \* of events, challenges and seasons
          inits, eventCounter, events, activeEvents, burst, lastRun,
          challengeCounter, challenges, activeChallenges, progress, claimed,
          season, participants, seasonReward, archives, seasonPaid,
          seasonal, pending, cooldown, entries,
          profiles, reported, chains, nodes, states, chainProgress, active, claims, starts,
          missions, dailyReset, earned, seasonId, pass, passRewards, xpGranted, tierClaims

MCFeeBands == << >>
MCFlatFee == [floor |-> 3, bps |-> 5000]

MCElo == [p \in {alice, bob, carol, dave} |->
            CASE p = alice -> 1 [] p \in {bob, carol} -> 2 [] p = dave -> 3]

Bracket == INSTANCE Tournament WITH
  Player <- {alice, bob, carol, dave}, Elo <- MCElo,
  Funds <- [p \in {alice, bob, carol, dave} |-> 3],
  Fees <- {0, 3}, Caps <- {3, 4}, Shares <- {<<5, 3, 1>>, <<6>>, <<7, 4>>},
  Whole <- 10, MaxTime <- 1,
  balance <- pot, supply <- potSupply, minted <- potMinted

\* One alliance of two players, with everything it can buy and win.
Guild == INSTANCE AllianceManager WITH
  now <- day, Player <- {alice, bob}, MaxMembers <- 1, DailyGuildCap <- 2, TerritoryCost <- 1,
  BossCost <- 1, BossReward <- 2, BossXp <- 3, BossHealth <- 2, BossTime <- 1, LevelXp <- 2,
  DayLength <- 2, Coordinate <- {"c1"},
  Quests <- {[target |-> 1, essence |-> 1, xp |-> 4, duration |-> 1],
             [target |-> 2, essence |-> 3, xp |-> 0, duration |-> 2]},
  Gift <- {1, 2}, Damage <- {1, 2}, MaxAlliances <- 1, MaxQuests <- 1, MaxContributed <- 2,
  MaxSpawned <- 2, MaxTime <- 2

\* Two alliances whose members stake; the treasury has no other use.
Pool == INSTANCE GuildStaking WITH
  now <- day, Player <- {alice, bob}, MaxMembers <- 2, DailyGuildCap <- 2, TerritoryCost <- 1,
  BossCost <- 1, BossReward <- 2, BossXp <- 3, BossHealth <- 2, BossTime <- 1, LevelXp <- 2,
  DayLength <- 2, Coordinate <- {}, Quests <- {}, Gift <- {}, Damage <- {}, MaxAlliances <- 2,
  MaxQuests <- 0, MaxContributed <- 0, MaxSpawned <- 0, MaxTime <- 1,
  Asset <- {"ore", "dust"}, StartUnits <- 2, StakeLock <- 1, RewardPrecision <- 4, MaxU32 <- 9,
  Units <- {1, 2}, MaxOpenings <- 2, MaxAcc <- 4,
  balance <- purse, stakes <- shares, stakedTotal <- shareTotal

MCTiers == {[min_amount |-> 0, lock |-> 0, penalty |-> 0], [min_amount |-> 2, lock |-> 2, penalty |-> 1]}
MCDefaultTiers ==
  [tier \in {"Flexible", "Gold"} |->
     CHOOSE c \in MCTiers : c.lock = IF tier = "Gold" THEN 2 ELSE 0]

Stake == INSTANCE Staking WITH
  ledger <- seq,
  Player <- {alice, bob}, Tier <- {"Flexible", "Gold"}, Flexible <- "Flexible",
  TierConfigs <- MCTiers, DefaultTiers <- MCDefaultTiers, MinStake <- 2, LockDuration <- 1,
  Amount <- {0, 1, 3}, SlashBps <- {0, 1, 2}, BpsDenominator <- 2, MaxDeposited <- 4, MaxLedger <- 2

Honours == INSTANCE Achievements WITH
  Player <- {alice, bob},
  Profiles <- {[scans |-> 10, essence |-> 100, ships |-> 1]},
  BoardSize <- 1, MaxBatchUnlocks <- 2, Wanted <- {1, 6, 205}, MaxBadges <- 2

Calendar == INSTANCE EventScheduler WITH
  Profile <- {alice, bob}, Category <- {carol, dave}, MaxActiveEvents <- 2,
  MaxActiveChallenges <- 2, Grace <- 1, Interval <- [boss |-> 2], SeasonDuration <- 3,
  ChapterDuration <- 1, ChaptersPerSeason <- 2, MinDuration <- 1, MaxDuration <- 2,
  MaxCooldown <- 1, MaxPending <- 2, MaxChallengesPerEvent <- 1, ClaimWindow <- 1,
  MaxTime <- 5, MaxEvents <- 2, MaxInits <- 2, MaxPoints <- 2, now <- clock

Shape(target, essence, branches, duration) ==
  [objective |-> "scan", target |-> target, essence |-> essence, branches |-> branches,
   duration |-> duration]

Story == INSTANCE Quests WITH
  Player <- {alice}, Objective <- {"scan"},
  Shapes <- {Shape(2, 1, <<2, 0>>, 0), Shape(1, 1, <<1>>, 1), Shape(1, 0, << >>, 1)},
  MaxChainLength <- 2, MaxBranches <- 2, MaxActiveQuests <- 2, DailyMissionLimit <- 1,
  Day <- 2, Progress <- {1, 2}, MaxChains <- 2, MaxNodes <- 2, MaxMissions <- 2, MaxClaims <- 2,
  MaxTime <- 3, XpGains <- {<<10, -5>>, <<0, 100>>}, Tier <- {1, 33}, MaxXp <- 200,
  Challenge <- {1}, progress <- chainProgress

valueParts == {"burn", "cup", "guild", "pool", "stakes"}
eventParts == {"events", "challenges", "seasons", "windows", "rewards"}
storyParts == {"profiles", "quests", "missions", "pass"}

burnVars == vars
cupVars == <<t, entrants, rounds, fought, pot, potSupply, potMinted, prizes>>
guildVars == <<day, alliances, memberOf, treasury, contribution, given, level, territory, boss,
               quests, contributed, spawned, kills>>
poolVars == <<purse, shares, shareTotal, acc, stakeAsset, openings>>
stakeVars == <<seq, initialized, tiers, stakes, stakeTier, totalStaked, stakerCount,
               totalSlashed, delegation, deposited, withdrawn, penalties>>

honourVars == <<profile, unlocked, badges, playerBadges, stats, board, notified, metadata,
                ownerBadges, credited>>
eventVars == <<clock, inits, eventCounter, events, activeEvents, burst, lastRun,
               challengeCounter, challenges, activeChallenges, progress, claimed,
               season, participants, seasonReward, archives, seasonPaid,
               seasonal, pending, cooldown, entries>>
storyVars == <<profiles, reported, chains, nodes, states, chainProgress, active, claims, starts,
               missions, dailyReset, earned, seasonId, pass, passRewards, xpGranted, tierClaims>>

\* The tables of alliances have an entry for each alliance of the focus.
EconomyInit ==
  /\ focus \in {"unlocks"} \cup valueParts \cup eventParts \cup storyParts
  /\ Init /\ Bracket!Init /\ Stake!Init /\ Honours!Init /\ Calendar!Init /\ Story!Init
  /\ \/ focus # "guild" /\ Pool!StakeInit
     \/ focus = "guild" /\ Guild!Init
        /\ purse = 0 /\ shares = 0 /\ shareTotal = 0 /\ acc = 0 /\ stakeAsset = 0 /\ openings = 0

ValueNext ==
  \/ focus = "burn" /\ Next /\ UNCHANGED <<now, cupVars, guildVars, poolVars, stakeVars>>
  \/ focus = "cup" /\ Bracket!Next /\ UNCHANGED <<burnVars, guildVars, poolVars, stakeVars>>
  \/ focus = "guild" /\ Guild!Next /\ UNCHANGED <<burnVars, now, cupVars, poolVars, stakeVars>>
  \/ focus = "pool" /\ Pool!StakeNext /\ UNCHANGED <<burnVars, now, cupVars, stakeVars>>
  \/ focus = "stakes" /\ Stake!Next /\ UNCHANGED <<burnVars, now, cupVars, guildVars, poolVars>>

\* one challenge; windows without the challenges and points of the events; the
\* rewards of one event
CalendarNext ==
  \/ focus = "events" /\ Calendar!EventNext
  \/ focus = "challenges" /\ Calendar!ChallengeNext /\ challengeCounter' <= 1 /\ clock' <= 4
  \/ focus = "seasons" /\ Calendar!SeasonNext /\ clock' <= 4
  \/ focus = "windows" /\ Calendar!SeasonalNext /\ inits' <= 1 /\ clock' <= 4
     /\ UNCHANGED <<entries, challenges>>
  \/ focus = "rewards" /\ Calendar!SeasonalNext /\ inits' <= 1 /\ clock' <= 4
     /\ Len(seasonal') <= 1

StoryNext ==
  \/ focus = "profiles" /\ Story!ProfileNext
  \/ focus = "quests" /\ Story!QuestNext
  \/ focus = "missions" /\ Story!MissionNext
  \/ focus = "pass" /\ Story!PassNext

EconomyNext ==
  /\ \/ ValueNext /\ UNCHANGED <<honourVars, eventVars, storyVars>>
     \/ focus = "unlocks" /\ Honours!Next
        /\ UNCHANGED <<burnVars, now, cupVars, guildVars, poolVars, stakeVars, eventVars, storyVars>>
     \/ CalendarNext
        /\ UNCHANGED <<burnVars, now, cupVars, guildVars, poolVars, stakeVars, honourVars, storyVars>>
     \/ StoryNext
        /\ UNCHANGED <<burnVars, cupVars, guildVars, poolVars, stakeVars, honourVars, eventVars>>
  /\ UNCHANGED focus

EconomySpec ==
  EconomyInit /\ [][EconomyNext]_<<focus, burnVars, now, cupVars, guildVars, poolVars, stakeVars,
                                  Honours!vars, Calendar!vars, Story!vars>>
-----------------------------------------------------------------------------
\* mint, burn and transfer keep three entries: the supply is what players hold,
\* what was minted is the supply and what was burned, and the burn statistics
\* are those of the receipts.
LedgerAgrees ==
  focus = "burn" =>
    TypeOK /\ SupplyIsHeld /\ MintedIsSupplyPlusBurned /\ StatsAgreeWithReceipts

\* start_tournament, report_match_result, distribute_prizes: every round halves
\* the field, a player who lost plays no more, byes go to the highest ratings
\* and prizes to the places the bracket decided.
BracketIsFair ==
  focus = "cup" =>
    /\ Bracket!TypeOK /\ Bracket!SingleElimination /\ Bracket!ByesGoToTheStrongest
    /\ Bracket!PrizesFollowTheBracket




=============================================================================
