------------------------------ MODULE MCSocial ------------------------------
(***************************************************************************)
(* What players do to each other: gifts of resources, bonds that delegate  *)
(* a share of one's essence, combats, the lobby that matches players and   *)
(* seats spectators, referrals, reputation, the content players sell, and  *)
(* the leaderboards.  They share no state, so a behaviour exercises one of *)
(* them, `focus`:                                                          *)
(*   gifts       the gifts of two players                                  *)
(*   bonds       the bonds of three                                        *)
(*   many        two challenges, combats of two moves                      *)
(*   long        one challenge, a combat of four moves with two powers     *)
(*   lobby       four players in the queue and at one combat               *)
(*   referrals   both referral programmes of two players, over two days    *)
(*   rewards     the code of a referrer                                    *)
(*   reputation  three recorded acts, two reports                          *)
(*   review, sales   votes on two contents; prices and sales of one        *)
(*   boards      one category by week and by season, over two weeks        *)
(*   tables      the boards of guilds, of a region and of achievements     *)
(*   prizes      two fundings, snapshots of up to three winners            *)
(***************************************************************************)
EXTENDS MCGiftingSystem, Integers

CONSTANTS alice, bob, carol, dave, c1

VARIABLES focus,
          bonds, delegation, essence, accrued, claimed,
          now, challenges, combats, stats, elo, active, history,
          queue, running, spectators, joins,
          ledger,             \* the time of referrals, reports and contents
          referral, rewardPool, rewardConfig, dailyClaims, lifetime, tiers, referralCount,
          analytics, fraud, fingerprint, distributedV2, funded, claimsMade,
          codeOwner, referrers, suspicious, distributed, recorded,
          admins, scores, acts, disputes, reportCount, banned,
          contentAdmin, contents, contentCounter, creatorContent, status, votes, voteCount,
          ratingSum, ratingCount, listings, creatorRevenue, platformRevenue, split, paid, withdrawn,
          boardAdmin, boards, guildBoard, regional, achievementBoard, playerGuild, seasonNo,
          archive, lastReset, best,
          prizeAdmin, pool, prizesPaid, snapshot, snapshotSize, prizeFund, lastSnapshot, payout

Bond == INSTANCE NomadBonding WITH
  Player <- {alice, bob, carol}, Percent <- {0, 1, 2}, Hundred <- 2, Accrual <- {3},
  MaxU64 <- 6, MaxBonds <- 2, MaxAccrued <- 3, MaxClaimed <- 3

Fight == INSTANCE PvpCombat WITH
  Player <- {alice, bob}, Power <- {1, 2}, MaxHp <- 3, MaxEnergy <- 1, DefendGain <- 1,
  InitialElo <- 5, DecayPoints <- 1, DecayFloor <- 4, Inactivity <- 1,
  CombatTimeout <- 1, ChallengeExpiry <- 1, MaxTime <- 4, MaxChallenges <- 2, MaxDepth <- 4

Many == INSTANCE PvpCombat WITH
  Player <- {alice, bob}, Power <- {2}, MaxHp <- 3, MaxEnergy <- 1, DefendGain <- 1,
  InitialElo <- 5, DecayPoints <- 1, DecayFloor <- 4, Inactivity <- 1,
  CombatTimeout <- 1, ChallengeExpiry <- 1, MaxTime <- 1, MaxChallenges <- 2, MaxDepth <- 2

Long == INSTANCE PvpCombat WITH
  Player <- {alice, bob}, Power <- {1, 2}, MaxHp <- 3, MaxEnergy <- 1, DefendGain <- 1,
  InitialElo <- 5, DecayPoints <- 1, DecayFloor <- 4, Inactivity <- 1,
  CombatTimeout <- 1, ChallengeExpiry <- 1, MaxTime <- 4, MaxChallenges <- 1, MaxDepth <- 4

Lobby == INSTANCE PvpLobby WITH
  Player <- {alice, bob, carol, dave}, Combat <- {c1}, MaxQueue <- 3, MaxSpectators <- 2,
  MaxJoins <- 4

Folk == INSTANCE Community WITH
  Player <- {alice, bob}, NoOne <- dave, Funding <- {3}, Rewards <- {2}, DefaultReward <- 1,
  MaxDailyClaims <- 1, MaxReferralsPerHour <- 1, Hour <- 1, Day <- 2, TierMinimum <- <<1, 2, 3, 4>>,
  Fingerprint <- {c1}, Tier2Threshold <- 1, Tier3Threshold <- 2, Points <- {20, -20},
  MaxHistory <- 3, MaxActiveReports <- 2, MaxContentPerCreator <- 1, Price <- {1, 3},
  Split <- {[creator |-> 3333, platform |-> 6667]}, Rating <- {1, 4},
  Start <- 4, MaxTime <- 6, MaxFunded <- 3, MaxContents <- 2, MaxListings <- 1, MaxSales <- 2,
  MaxRecorded <- 3, MaxCalls <- 2, now <- ledger, stats <- referrers, history <- acts

Ranks == INSTANCE Leaderboards WITH
  Player <- {alice, bob}, Guild <- {alice, carol}, Region <- {"europe"}, Category <- {"scans"},
  Period <- {"weekly", "seasonal"}, Duration <- [weekly |-> 1], MaxEntries <- 2,
  MaxGuildEntries <- 1, MaxPageSize <- 2, MaxPayoutPositions <- 3, MaxScore <- 2, MaxTime <- 2,
  MaxSeason <- 2, MaxFunding <- 4, distributed <- prizesPaid, funded <- prizeFund, paid <- payout

playParts == {"gifts", "bonds", "many", "long", "lobby"}
folkParts == {"referrals", "rewards", "reputation", "review", "sales"}
rankParts == {"boards", "tables", "prizes"}

giftVars == vars
bondVars == <<bonds, delegation, essence, accrued, claimed>>
combatVars == <<challenges, combats, stats, elo, active, history>>
lobbyVars == <<queue, running, spectators, joins>>

folkVars == <<ledger, referral, rewardPool, rewardConfig, dailyClaims, lifetime, tiers,
              referralCount, analytics, fraud, fingerprint, distributedV2, funded, claimsMade,
              codeOwner, referrers, suspicious, distributed, recorded,
              admins, scores, acts, disputes, reportCount, banned,
              contentAdmin, contents, contentCounter, creatorContent, status, votes, voteCount,
              ratingSum, ratingCount, listings, creatorRevenue, platformRevenue, split, paid,
              withdrawn>>
rankVars == <<boardAdmin, boards, guildBoard, regional, achievementBoard, playerGuild, seasonNo,
              archive, lastReset, best, prizeAdmin, pool, prizesPaid, snapshot, snapshotSize,
              prizeFund, lastSnapshot, payout>>

SocialInit ==
  /\ Init /\ Bond!Init /\ Fight!Init /\ Lobby!Init /\ Folk!Init /\ Ranks!Init
  /\ focus \in playParts \cup folkParts \cup rankParts

\* players are alike: the first bond and challenge are those of alice, the
\* first nomad referred is bob
PlayNext ==
  \/ focus = "gifts" /\ Next /\ UNCHANGED <<bondVars, now, combatVars, lobbyVars>>
  \/ focus = "bonds" /\ Bond!Next /\ UNCHANGED <<giftVars, now, combatVars, lobbyVars>>
     /\ (bonds' # << >> => bonds'[1].initiator = alice)
  \/ /\ \/ focus = "many" /\ Many!Next
        \/ focus = "long" /\ Long!Next
     /\ (challenges' # << >> => challenges'[1].challenger = alice)
     /\ UNCHANGED <<giftVars, bondVars, lobbyVars>>
  \/ focus = "lobby" /\ Lobby!Next /\ UNCHANGED <<giftVars, bondVars, now, combatVars>>

FolkNext ==
  \/ focus = "referrals" /\ Folk!ReferralNext /\ DOMAIN referral' # {alice}
  \/ focus = "rewards" /\ Folk!RewardNext
  \/ focus = "reputation" /\ Folk!ReputationNext /\ admins' \subseteq {alice}
  \/ focus = "review" /\ Folk!ReviewNext /\ contentAdmin' \in {dave, alice}
  \/ focus = "sales" /\ Folk!SalesNext /\ contentAdmin' \in {dave, alice}
     /\ contentCounter' <= 1

RankNext ==
  \/ focus = "boards" /\ Ranks!BoardNext
  \/ focus = "tables" /\ Ranks!TableNext /\ DOMAIN playerGuild' \subseteq {alice}
  \/ focus = "prizes" /\ Ranks!PrizeNext

SocialNext ==
  /\ \/ PlayNext /\ UNCHANGED <<folkVars, rankVars>>
     \/ FolkNext /\ UNCHANGED <<giftVars, bondVars, now, combatVars, lobbyVars, rankVars>>
     \/ RankNext /\ UNCHANGED <<giftVars, bondVars, combatVars, lobbyVars, folkVars>>
  /\ UNCHANGED focus

SocialSpec ==
  SocialInit
  /\ [][SocialNext]_<<focus, giftVars, bondVars, combatVars, lobbyVars, Folk!vars, Ranks!vars>>
-----------------------------------------------------------------------------





\* submit_leaderboard_snapshot, distribute_weekly_prizes: pool and prizes paid
\* are what was funded, and a distribution pays the winners of the last
\* snapshot, a better place no less than a worse one.
PrizesFollowSnapshot ==
  [](focus = "prizes" => Ranks!PrizesFollowSnapshot) /\ Ranks!PaysLastSnapshot
=============================================================================
