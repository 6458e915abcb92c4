------------------------------ MODULE Community ------------------------------
(***************************************************************************)
(* What players do for one another: referrals paid from a pool             *)
(* (referral_system.rs), tiered referral rewards (rewards.rs), reputation  *)
(* with reports and bans (reputation.rs) and content that players create,  *)
(* rate and sell (content_tools.rs).  A call that fails leaves no trace,   *)
(* so only the calls that succeed are actions.                             *)
(***************************************************************************)
EXTENDS Integers, Sequences, FiniteSets, SequencesExt, FiniteSetsExt, Functions

CONSTANTS Player, NoOne,
          Funding,            \* amounts added to the reward pool
          Rewards,            \* rewards per claim an admin may configure
          DefaultReward, MaxDailyClaims, MaxReferralsPerHour, Hour, Day,
          TierMinimum,        \* referrals that tiers 1, 2, ... ask for
          Fingerprint,
          Tier2Threshold, Tier3Threshold,
          Points, MaxHistory, MaxActiveReports,
          MaxContentPerCreator, Price, Split, Rating,
          Start, MaxTime, MaxFunded, MaxContents, MaxListings, MaxSales,
          MaxRecorded, MaxCalls \* bounds of the runs

VARIABLES now,
          referral, rewardPool, rewardConfig, dailyClaims, lifetime, tiers,
          referralCount, analytics, fraud, fingerprint, distributedV2,
          funded, claimsMade, \* history: paid into the pool, claims that paid
                              \* and, distributedV2, what the second programme gave
          codeOwner, stats, suspicious,
          distributed,        \* TotalRewardsDistributed, a slot both referral programmes add to
          recorded,
          admins, scores, history, disputes, reportCount, banned,
          contentAdmin, contents, contentCounter, creatorContent, status, votes,
          voteCount, ratingSum, ratingCount, listings, creatorRevenue, platformRevenue, split,
          paid, withdrawn     \* history: paid by buyers, withdrawn by creators

referralVars == <<referral, rewardPool, rewardConfig, dailyClaims, lifetime, tiers, referralCount,
                  analytics, fraud, fingerprint, distributedV2, funded, claimsMade>>
rewardVars == <<codeOwner, stats, suspicious, distributed, recorded>>
reputationVars == <<admins, scores, history, disputes, reportCount, banned>>
contentVars == <<contentAdmin, contents, contentCounter, creatorContent, status, votes, voteCount,
                 ratingSum, ratingCount, listings, creatorRevenue, platformRevenue, split, paid,
                 withdrawn>>
vars == <<now, referralVars, rewardVars, reputationVars, contentVars>>

With(f, k, v) == [x \in DOMAIN f \cup {k} |-> IF x = k THEN v ELSE f[x]]
Get(f, k, default) == IF k \in DOMAIN f THEN f[k] ELSE default
SumOf(f) == MapThenSumSet(LAMBDA x : f[x], DOMAIN f)

Init ==
  /\ now = Start
  /\ referral = << >> /\ rewardPool = 0 /\ rewardConfig = DefaultReward /\ dailyClaims = << >>
  /\ lifetime = << >> /\ tiers = << >> /\ referralCount = << >> /\ analytics = << >>
  /\ fraud = << >> /\ fingerprint = << >> /\ distributedV2 = 0 /\ funded = 0 /\ claimsMade = 0
  /\ codeOwner = NoOne /\ stats = << >> /\ suspicious = {} /\ distributed = 0 /\ recorded = << >>
  /\ admins = {} /\ scores = << >> /\ history = << >> /\ disputes = << >>
  /\ reportCount = << >> /\ banned = {}
  /\ contentAdmin = NoOne /\ contents = << >> /\ contentCounter = 0 /\ creatorContent = << >>
  /\ status = << >> /\ votes = << >> /\ voteCount = << >> /\ ratingSum = << >>
  /\ ratingCount = << >> /\ listings = << >> /\ creatorRevenue = << >> /\ platformRevenue = 0
  /\ split = [creator |-> 8500, platform |-> 1500] /\ paid = 0 /\ withdrawn = 0

Tick ==
  /\ now < MaxTime
  /\ now' = now + 1
  /\ UNCHANGED <<referralVars, rewardVars, reputationVars, contentVars>>
-----------------------------------------------------------------------------
(* referral_system.rs *)

FundRewardPool(amount) ==
  /\ funded + amount <= MaxFunded
  /\ rewardPool' = rewardPool + amount /\ funded' = funded + amount
  /\ UNCHANGED <<now, referral, rewardConfig, dailyClaims, lifetime, tiers, referralCount,
                 analytics, fraud, fingerprint, distributedV2, claimsMade, rewardVars,
                 reputationVars, contentVars>>

SetRewardConfig(amount) ==
  /\ rewardConfig' = amount
  /\ UNCHANGED <<now, referral, rewardPool, dailyClaims, lifetime, tiers, referralCount, analytics,
                 fraud, fingerprint, distributedV2, funded, claimsMade, rewardVars,
                 reputationVars, contentVars>>

\* register_referral.
Register(referrer, nomad) ==
  /\ referrer # nomad
  /\ nomad \notin DOMAIN referral
  /\ referral' = With(referral, nomad, [referrer |-> referrer, claimed |-> FALSE, scanned |-> FALSE])

RegisterReferral(referrer, nomad) ==
  /\ Register(referrer, nomad)
  /\ UNCHANGED <<now, rewardPool, rewardConfig, dailyClaims, lifetime, tiers, referralCount,
                 analytics, fraud, fingerprint, distributedV2, funded, claimsMade, rewardVars,
                 reputationVars, contentVars>>

MarkFirstScan(nomad) ==
  /\ nomad \in DOMAIN referral
  /\ referral' = [referral EXCEPT ![nomad].scanned = TRUE]
  /\ UNCHANGED <<now, rewardPool, rewardConfig, dailyClaims, lifetime, tiers, referralCount,
                 analytics, fraud, fingerprint, distributedV2, funded, claimsMade, rewardVars,
                 reputationVars, contentVars>>

\* A claim that forgets to mark the referral, for the mutants.
ClaimForgetful(referrer, nomad) ==
  /\ nomad \in DOMAIN referral
  /\ referral[nomad].scanned /\ ~referral[nomad].claimed
  /\ rewardPool >= rewardConfig
  /\ Get(dailyClaims, <<referrer, now \div Day>>, 0) < MaxDailyClaims
  /\ dailyClaims' = With(dailyClaims, <<referrer, now \div Day>>,
                         Get(dailyClaims, <<referrer, now \div Day>>, 0) + 1)
  /\ rewardPool' = rewardPool - rewardConfig
  /\ lifetime' = With(lifetime, referrer, Get(lifetime, referrer, 0) + rewardConfig)
  /\ referral' = referral
  /\ claimsMade' = claimsMade + 1

\* claim_referral_reward: the caller is paid, whoever registered the nomad.
Claim(referrer, nomad) ==
  LET key == <<referrer, now \div Day>>
  IN  /\ nomad \in DOMAIN referral
      /\ referral[nomad].scanned /\ ~referral[nomad].claimed
      /\ rewardPool >= rewardConfig
      /\ Get(dailyClaims, key, 0) < MaxDailyClaims
      /\ dailyClaims' = With(dailyClaims, key, Get(dailyClaims, key, 0) + 1)
      /\ rewardPool' = rewardPool - rewardConfig
      /\ lifetime' = With(lifetime, referrer, Get(lifetime, referrer, 0) + rewardConfig)
      /\ referral' = [referral EXCEPT ![nomad].claimed = TRUE]
      /\ claimsMade' = claimsMade + 1

ClaimReferralReward(referrer, nomad) ==
  /\ Claim(referrer, nomad)
  /\ UNCHANGED <<now, rewardConfig, tiers, referralCount, analytics, fraud, fingerprint,
                 distributedV2, funded, rewardVars, reputationVars, contentVars>>

InitTiers ==
  /\ tiers' = [l \in 1 .. 5 |-> [minimum |-> (<<0>> \o TierMinimum)[l],
                                 bps |-> <<10000, 12000, 15000, 20000, 25000>>[l]]]
  /\ UNCHANGED <<now, referral, rewardPool, rewardConfig, dailyClaims, lifetime, referralCount,
                 analytics, fraud, fingerprint, distributedV2, funded, claimsMade, rewardVars,
                 reputationVars, contentVars>>

\* tier_for_count: the last tier whose minimum is reached.
TierForCount(count) ==
  LET reached == {l \in DOMAIN tiers : count >= tiers[l].minimum}
  IN  IF reached = {} THEN [level |-> 0, bps |-> 10000]
                      ELSE [level |-> Max(reached) - 1, bps |-> tiers[Max(reached)].bps]

IsBlocked(p) == Get(fraud, p, 0) >= 3

\* check_fraud and flag_fraud: a fingerprint that another referrer used counts
\* against the caller.  NoOne stands for a call without a fingerprint.
CheckFraud(referrer, fp) ==
  /\ ~IsBlocked(referrer)
  /\ fraud' = IF Get(fingerprint, fp, referrer) # referrer
                THEN With(fraud, referrer, Get(fraud, referrer, 0) + 1) ELSE fraud
  /\ fingerprint' = IF fp = NoOne \/ fp \in DOMAIN fingerprint THEN fingerprint
                                                               ELSE With(fingerprint, fp, referrer)

\* check_velocity: its counter shares the keys of the daily claims.  A caller
\* over the limit gets an error, and the flag set for them is rolled back.
CheckVelocity(referrer) ==
  LET key == <<referrer, now \div Hour>>
  IN  /\ Get(dailyClaims, key, 0) < MaxReferralsPerHour
      /\ dailyClaims' = With(dailyClaims, key, Get(dailyClaims, key, 0) + 1)

RegisterReferralV2(referrer, nomad, fp) ==
  LET count == Get(referralCount, referrer, 0) + 1
      a == Get(analytics, referrer, [total |-> 0, successful |-> 0, earned |-> 0, tier |-> 0])
  IN  /\ CheckFraud(referrer, fp)
      /\ CheckVelocity(referrer)
      /\ Register(referrer, nomad)
      /\ referralCount' = With(referralCount, referrer, count)
      /\ analytics' = With(analytics, referrer,
                           [a EXCEPT !.total = @ + 1, !.tier = TierForCount(count).level])
      /\ UNCHANGED <<now, rewardPool, rewardConfig, lifetime, tiers, distributedV2, funded,
                     claimsMade, rewardVars, reputationVars, contentVars>>

\* claim_referral_reward_v2: the bonus of the tier is counted, and paid out of
\* nothing: the pool gives the base reward only.
ClaimReferralRewardV2(referrer, nomad) ==
  LET tier == TierForCount(Get(referralCount, referrer, 0))
      total == rewardConfig + (rewardConfig * (tier.bps - 10000)) \div 10000
  IN  /\ ~IsBlocked(referrer)
      /\ Claim(referrer, nomad)
      /\ analytics' = IF referrer \in DOMAIN analytics
                        THEN [analytics EXCEPT ![referrer].successful = @ + 1,
                                               ![referrer].earned = @ + total,
                                               ![referrer].tier = tier.level]
                        ELSE analytics
      /\ distributed' = distributed + total /\ distributedV2' = distributedV2 + total
      /\ UNCHANGED <<now, rewardConfig, tiers, referralCount, fraud, fingerprint, funded, codeOwner,
                     stats, suspicious, recorded, reputationVars, contentVars>>

AdminBlockReferrer(p) ==
  /\ fraud' = With(fraud, p, 99)
  /\ UNCHANGED <<now, referral, rewardPool, rewardConfig, dailyClaims, lifetime, tiers,
                 referralCount, analytics, fingerprint, distributedV2, funded, claimsMade,
                 rewardVars, reputationVars, contentVars>>

ReferralNext ==
  \/ Tick
  \/ InitTiers
  \/ \E x \in Funding : FundRewardPool(x)
  \/ \E x \in Rewards : SetRewardConfig(x)
  \/ \E p \in Player : MarkFirstScan(p) \/ AdminBlockReferrer(p)
  \/ \E p, q \in Player : RegisterReferral(p, q) \/ ClaimReferralReward(p, q)
                                                 \/ ClaimReferralRewardV2(p, q)
  \/ \E p, q \in Player, fp \in Fingerprint \cup {NoOne} : RegisterReferralV2(p, q, fp)
-----------------------------------------------------------------------------
(* rewards.rs *)

TierOf(activeReferrals) ==
  IF activeReferrals >= Tier3Threshold THEN 3 ELSE IF activeReferrals >= Tier2Threshold THEN 2 ELSE 1

GetTierReward(tier) == CASE tier = 2 -> 150 [] tier = 3 -> 200 [] OTHER -> 100

\* generate_referral_code: generate_code_from_address answers the same code for
\* every address, so the first caller owns it and a later one is not recorded.
GenerateReferralCode(p) ==
  /\ codeOwner = NoOne
  /\ codeOwner' = p
  /\ stats' = With(stats, p, [total |-> 0, active |-> 0, tier |-> 1, earned |-> 0, pending |-> 0])
  /\ recorded' = With(recorded, p, 0)
  /\ UNCHANGED <<now, suspicious, distributed, referralVars, reputationVars, contentVars>>

RecordReferral(p, q) ==
  LET reward == GetTierReward(stats[p].tier)
  IN  /\ p # q /\ p \notin suspicious /\ p \in DOMAIN stats
      /\ stats[p].total < MaxRecorded
      /\ stats' = [stats EXCEPT ![p].total = @ + 1, ![p].pending = @ + reward,
                                ![p].tier = TierOf(stats[p].active)]
      /\ recorded' = [recorded EXCEPT ![p] = @ + reward]
      /\ UNCHANGED <<now, codeOwner, suspicious, distributed, referralVars, reputationVars,
                     contentVars>>

MarkReferralActive(p) ==
  /\ p \in DOMAIN stats /\ stats[p].active < stats[p].total
  /\ stats' = [stats EXCEPT ![p].active = @ + 1, ![p].tier = TierOf(stats[p].active + 1)]
  /\ UNCHANGED <<now, codeOwner, suspicious, distributed, recorded, referralVars, reputationVars,
                 contentVars>>


ClaimRewards(p) ==
  /\ p \in DOMAIN stats /\ stats[p].pending # 0
  /\ stats' = [stats EXCEPT ![p].earned = @ + stats[p].pending, ![p].pending = 0]
  /\ distributed' = distributed + stats[p].pending
  /\ UNCHANGED <<now, codeOwner, suspicious, recorded, referralVars, reputationVars, contentVars>>

FlagSuspicious(p) ==
  /\ suspicious' = suspicious \cup {p}
  /\ UNCHANGED <<now, codeOwner, stats, distributed, recorded, referralVars, reputationVars,
                 contentVars>>

RewardNext ==
  \E p, q \in Player :
    \/ GenerateReferralCode(p) \/ RecordReferral(p, q) \/ MarkReferralActive(p)
    \/ ClaimRewards(p) \/ FlagSuspicious(p)
-----------------------------------------------------------------------------
(* reputation.rs *)

LevelForScore(score) == Cardinality({limit \in {20, 40, 65, 85} : score > limit})

BenefitsForScore(score) ==
  LET level == LevelForScore(score) + 1
  IN  [voting |-> <<0, 100, 250, 500, 750>>[level], discount |-> <<0, 25, 50, 100, 150>>[level],
       support |-> level > 2]

\* apply_monthly_decay: 5 percent of the score a month, at least a point.
Decay[months \in Nat, score \in Nat] ==
  LET before == IF months = 0 THEN Min({Max({score, 1}), 100}) ELSE Decay[months - 1, score]
  IN  IF months = 0 THEN before ELSE Max({before - Max({(before * 500) \div 10000, 1}), 1})

InitializeReputation(admin) ==
  /\ admins' = admins \cup {admin}
  /\ UNCHANGED <<now, scores, history, disputes, reportCount, banned, referralVars, rewardVars,
                 contentVars>>

CreatePlayerReputation(p) ==
  /\ p \notin DOMAIN scores
  /\ scores' = With(scores, p, [score |-> 50, positive |-> 0, negative |-> 0])
  /\ UNCHANGED <<now, admins, history, disputes, reportCount, banned, referralVars, rewardVars,
                 contentVars>>

\* A gain that is not bounded is refused; a loss stops at 1.
NewScore(score, points) == IF points > 0 THEN Max({score + points, 1})
                                         ELSE Max({Min({score + points, 100}), 1})

\* record_behavior, on scores and history.
Record(p, kind, points) ==
  LET new == NewScore(scores[p].score, points)
      log == Append(Get(history, p, << >>), points)
  IN  /\ p \in DOMAIN scores
      /\ new \in 1 .. 100
      /\ scores' = [scores EXCEPT ![p].score = new,
                                  ![p].positive = IF kind = "Positive" THEN @ + 1 ELSE @,
                                  ![p].negative = IF kind = "Negative" THEN @ + 1 ELSE @]
      /\ history' = With(history, p, IF Len(log) > MaxHistory THEN Tail(log) ELSE log)

Calls == IF scores = << >> THEN 0
         ELSE MapThenSumSet(LAMBDA p : scores[p].positive + scores[p].negative, DOMAIN scores)

RecordBehavior(p, kind, points) ==
  /\ points \in -20 .. 20
  /\ Calls < MaxCalls
  /\ Record(p, kind, points)
  /\ UNCHANGED <<now, admins, disputes, reportCount, banned, referralVars, rewardVars, contentVars>>

\* A report that counts for the one who made it, for the mutants.
SubmitReportSelf(reporter, accused) ==
  /\ Len(disputes) < MaxActiveReports
  /\ disputes' = Append(disputes, [id |-> now, accused |-> accused])
  /\ reportCount' = With(reportCount, reporter, Get(reportCount, reporter, 0) + 1)
  /\ UNCHANGED <<now, admins, scores, history, banned, referralVars, rewardVars, contentVars>>

\* submit_report: the id is the ledger's sequence number, so reports of one
\* ledger share it.
SubmitReport(reporter, accused) ==
  /\ Len(disputes) < MaxActiveReports
  /\ disputes' = Append(disputes, [id |-> now, accused |-> accused])
  /\ reportCount' = With(reportCount, accused, Get(reportCount, accused, 0) + 1)
  /\ UNCHANGED <<now, admins, scores, history, banned, referralVars, rewardVars, contentVars>>

\* resolve_report: the status is set on a copy and the list is stored as it
\* was, so a report can be resolved again.  The first report with the id is
\* meant, and a failing record_behavior is ignored.
ResolveReport(admin, id, resolved) ==
  /\ admin \in admins
  /\ \E i \in DOMAIN disputes :
       /\ disputes[i].id = id
       /\ \A j \in 1 .. i - 1 : disputes[j].id # id
       /\ IF resolved /\ disputes[i].accused \in DOMAIN scores
            THEN Calls < MaxCalls /\ Record(disputes[i].accused, "Negative", -5)
            ELSE UNCHANGED <<scores, history>>
  /\ UNCHANGED <<now, admins, disputes, reportCount, banned, referralVars, rewardVars, contentVars>>

BanPlayer(admin, p) ==
  /\ admin \in admins /\ p \notin banned /\ p \in DOMAIN scores
  /\ banned' = banned \cup {p}
  /\ scores' = [scores EXCEPT ![p].score = 1]
  /\ UNCHANGED <<now, admins, history, disputes, reportCount, referralVars, rewardVars, contentVars>>

ReputationNext ==
  \/ Tick
  \/ \E p \in Player : InitializeReputation(p) \/ CreatePlayerReputation(p)
  \/ \E p \in Player, kind \in {"Positive", "Negative"}, x \in Points : RecordBehavior(p, kind, x)
  \/ \E p, q \in Player : SubmitReport(p, q) \/ BanPlayer(p, q)
  \/ \E p \in Player, id \in Start .. MaxTime, ok \in BOOLEAN : ResolveReport(p, id, ok)
-----------------------------------------------------------------------------
(* content_tools.rs *)

SetAdmin(p) ==
  /\ contentAdmin = NoOne
  /\ contentAdmin' = p
  /\ UNCHANGED <<now, contents, contentCounter, creatorContent, status, votes, voteCount, ratingSum,
                 ratingCount, listings, creatorRevenue, platformRevenue, split, paid, withdrawn,
                 referralVars, rewardVars, reputationVars>>

\* create_content: the content waits for review.
CreateContent(p) ==
  LET id == contentCounter + 1
      mine == Get(creatorContent, p, << >>)
  IN  /\ Len(mine) < MaxContentPerCreator
      /\ id <= MaxContents
      /\ contentCounter' = id
      /\ contents' = With(contents, id, [creator |-> p, public |-> FALSE, verified |-> FALSE,
                                         plays |-> 0, rating |-> 0, price |-> 0])
      /\ creatorContent' = With(creatorContent, p, Append(mine, id))
      /\ status' = With(status, id, "pending")
      /\ UNCHANGED <<now, contentAdmin, votes, voteCount, ratingSum, ratingCount, listings,
                     creatorRevenue, platformRevenue, split, paid, withdrawn, referralVars,
                     rewardVars, reputationVars>>

Owns(p, id) == id \in DOMAIN contents /\ contents[id].creator = p

\* update_content, with the visibility standing for what an update replaces.
UpdateContent(p, id, public) ==
  /\ Owns(p, id)
  /\ contents' = [contents EXCEPT ![id].public = public]
  /\ UNCHANGED <<now, contentAdmin, contentCounter, creatorContent, status, votes, voteCount,
                 ratingSum, ratingCount, listings, creatorRevenue, platformRevenue, split, paid,
                 withdrawn, referralVars, rewardVars, reputationVars>>

\* A deletion that leaves the creator's list alone, for the mutants.
DeleteListed(p, id) ==
  /\ Owns(p, id)
  /\ contents' = Restrict(contents, DOMAIN contents \ {id})
  /\ UNCHANGED <<now, contentAdmin, contentCounter, creatorContent, status, votes, voteCount,
                 ratingSum, ratingCount, listings, creatorRevenue, platformRevenue, split, paid,
                 withdrawn, referralVars, rewardVars, reputationVars>>

\* delete_content: status, votes and listings stay behind.
DeleteContent(p, id) ==
  /\ Owns(p, id)
  /\ contents' = Restrict(contents, DOMAIN contents \ {id})
  /\ creatorContent' = [creatorContent EXCEPT ![p] = SelectSeq(@, LAMBDA c : c # id)]
  /\ UNCHANGED <<now, contentAdmin, contentCounter, status, votes, voteCount, ratingSum,
                 ratingCount, listings, creatorRevenue, platformRevenue, split, paid, withdrawn,
                 referralVars, rewardVars, reputationVars>>

ApproveContent(p, id) ==
  /\ p = contentAdmin /\ id \in DOMAIN contents
  /\ status' = With(status, id, "approved")
  /\ contents' = [contents EXCEPT ![id].verified = TRUE]
  /\ UNCHANGED <<now, contentAdmin, contentCounter, creatorContent, votes, voteCount, ratingSum,
                 ratingCount, listings, creatorRevenue, platformRevenue, split, paid, withdrawn,
                 referralVars, rewardVars, reputationVars>>

\* reject_content does not look for the content, and leaves is_verified alone.
RejectContent(p, id) ==
  /\ p = contentAdmin
  /\ status' = With(status, id, "rejected")
  /\ UNCHANGED <<now, contentAdmin, contents, contentCounter, creatorContent, votes, voteCount,
                 ratingSum, ratingCount, listings, creatorRevenue, platformRevenue, split, paid,
                 withdrawn, referralVars, rewardVars, reputationVars>>

GetContentStatus(id) == Get(status, id, "unknown")

\* A vote that replaces the voter's earlier one, for the mutants.
VoteAgain(p, id, r) ==
  /\ GetContentStatus(id) # "rejected" /\ id \in DOMAIN contents
  /\ Get(voteCount, id, 0) < 3
  /\ votes' = With(votes, <<id, p>>, r)
  /\ voteCount' = With(voteCount, id, Get(voteCount, id, 0) + 1)
  /\ ratingSum' = With(ratingSum, id, Get(ratingSum, id, 0) + r)
  /\ ratingCount' = With(ratingCount, id, Get(ratingCount, id, 0) + 1)
  /\ contents' = [contents EXCEPT ![id].rating = ratingSum'[id] \div ratingCount'[id]]
  /\ UNCHANGED <<now, contentAdmin, contentCounter, creatorContent, status, listings,
                 creatorRevenue, platformRevenue, split, paid, withdrawn, referralVars,
                 rewardVars, reputationVars>>

VoteContent(p, id, r) ==
  /\ r \in 1 .. 5
  /\ GetContentStatus(id) # "rejected"
  /\ <<id, p>> \notin DOMAIN votes
  /\ id \in DOMAIN contents
  /\ votes' = With(votes, <<id, p>>, r)
  /\ voteCount' = With(voteCount, id, Get(voteCount, id, 0) + 1)
  /\ ratingSum' = With(ratingSum, id, Get(ratingSum, id, 0) + r)
  /\ ratingCount' = With(ratingCount, id, Get(ratingCount, id, 0) + 1)
  /\ contents' = [contents EXCEPT ![id].rating = ratingSum'[id] \div ratingCount'[id]]
  /\ UNCHANGED <<now, contentAdmin, contentCounter, creatorContent, status, listings,
                 creatorRevenue, platformRevenue, split, paid, withdrawn, referralVars,
                 rewardVars, reputationVars>>

GetVoteResult(id) ==
  [votes |-> Get(voteCount, id, 0), sum |-> Get(ratingSum, id, 0),
   average |-> IF Get(ratingCount, id, 0) > 0 THEN ratingSum[id] \div ratingCount[id] ELSE 0]

IncrementPlayCount(id) ==
  /\ id \in DOMAIN contents
  /\ contents[id].plays < MaxSales
  /\ contents' = [contents EXCEPT ![id].plays = @ + 1]
  /\ UNCHANGED <<now, contentAdmin, contentCounter, creatorContent, status, votes, voteCount,
                 ratingSum, ratingCount, listings, creatorRevenue, platformRevenue, split, paid,
                 withdrawn, referralVars, rewardVars, reputationVars>>

ListOnMarketplace(p, id, price) ==
  /\ Owns(p, id) /\ GetContentStatus(id) = "approved"
  /\ Len(listings) < MaxListings
  /\ listings' = Append(listings, [content |-> id, seller |-> p, price |-> price, active |-> TRUE])
  /\ UNCHANGED <<now, contentAdmin, contents, contentCounter, creatorContent, status, votes,
                 voteCount, ratingSum, ratingCount, creatorRevenue, platformRevenue, split, paid,
                 withdrawn, referralVars, rewardVars, reputationVars>>

UnlistFromMarketplace(p, l) ==
  /\ l \in DOMAIN listings /\ listings[l].seller = p
  /\ listings' = [listings EXCEPT ![l].active = FALSE]
  /\ UNCHANGED <<now, contentAdmin, contents, contentCounter, creatorContent, status, votes,
                 voteCount, ratingSum, ratingCount, creatorRevenue, platformRevenue, split, paid,
                 withdrawn, referralVars, rewardVars, reputationVars>>

SetRevenueSplitConfig(p, s) ==
  /\ p = contentAdmin
  /\ split' = s
  /\ UNCHANGED <<now, contentAdmin, contents, contentCounter, creatorContent, status, votes,
                 voteCount, ratingSum, ratingCount, listings, creatorRevenue, platformRevenue,
                 paid, withdrawn, referralVars, rewardVars, reputationVars>>

SetContentPrice(p, id, price) ==
  /\ price >= 0 /\ Owns(p, id)
  /\ contents' = [contents EXCEPT ![id].price = price]
  /\ UNCHANGED <<now, contentAdmin, contentCounter, creatorContent, status, votes, voteCount,
                 ratingSum, ratingCount, listings, creatorRevenue, platformRevenue, split, paid,
                 withdrawn, referralVars, rewardVars, reputationVars>>


Share(price, bps) == (price * bps) \div 10000

\* purchase_content: a sale in whole units; what rounding leaves over is
\* credited to no one.
PurchaseContent(id) ==
  LET c == contents[id]
  IN  /\ id \in DOMAIN contents
      /\ c.price > 0 /\ GetContentStatus(id) = "approved"
      /\ c.plays < MaxSales
      /\ creatorRevenue' = With(creatorRevenue, c.creator,
                                Get(creatorRevenue, c.creator, 0) + Share(c.price, split.creator))
      /\ platformRevenue' = platformRevenue + Share(c.price, split.platform)
      /\ contents' = [contents EXCEPT ![id].plays = @ + 1]
      /\ paid' = paid + c.price
      /\ UNCHANGED <<now, contentAdmin, contentCounter, creatorContent, status, votes, voteCount,
                     ratingSum, ratingCount, listings, split, withdrawn, referralVars, rewardVars,
                     reputationVars>>

WithdrawCreatorRevenue(p, amount) ==
  /\ amount > 0 /\ Get(creatorRevenue, p, 0) >= amount
  /\ creatorRevenue' = [creatorRevenue EXCEPT ![p] = @ - amount]
  /\ withdrawn' = withdrawn + amount
  /\ UNCHANGED <<now, contentAdmin, contents, contentCounter, creatorContent, status, votes,
                 voteCount, ratingSum, ratingCount, listings, platformRevenue, split, paid,
                 referralVars, rewardVars, reputationVars>>

ReviewNext ==
  \E p \in Player :
    \/ SetAdmin(p) \/ CreateContent(p)
    \/ \E id \in 1 .. MaxContents :
         \/ DeleteContent(p, id) \/ ApproveContent(p, id) \/ RejectContent(p, id)
         \/ \E r \in Rating : VoteContent(p, id, r)
         \/ \E public \in BOOLEAN : UpdateContent(p, id, public)

SalesNext ==
  \E p \in Player :
    \/ SetAdmin(p) \/ CreateContent(p)
    \/ \E s \in Split : SetRevenueSplitConfig(p, s)
    \/ \E x \in Price : WithdrawCreatorRevenue(p, x)
    \/ \E l \in DOMAIN listings : UnlistFromMarketplace(p, l)
    \/ \E id \in 1 .. MaxContents :
         \/ DeleteContent(p, id) \/ ApproveContent(p, id)
         \/ IncrementPlayCount(id) \/ PurchaseContent(id)
         \/ \E x \in Price : SetContentPrice(p, id, x) \/ ListOnMarketplace(p, id, x)

Next == ReferralNext \/ RewardNext \/ ReputationNext \/ ReviewNext \/ SalesNext

Spec == Init /\ [][Next]_vars
-----------------------------------------------------------------------------
\* The state has its types: what the tables of the four contracts may hold.
TypeOK ==
  /\ DOMAIN referral \subseteq Player /\ rewardPool \in Nat /\ DOMAIN lifetime \subseteq Player
  /\ DOMAIN stats = DOMAIN recorded /\ suspicious \subseteq Player
  /\ DOMAIN history \subseteq DOMAIN scores /\ banned \subseteq DOMAIN scores
  /\ DOMAIN contents \subseteq 1 .. contentCounter /\ platformRevenue \in Nat

\* A reward leaves the pool once per referral (referral_system.rs): what was
\* funded is in the pool or in the lifetime rewards of the referrers, and as
\* many claims paid as referrals are marked claimed, each after a first scan,
\* in whatever mix of the two versions of the calls.
ReferralPoolAgrees ==
  /\ rewardPool + SumOf(lifetime) = funded
  /\ claimsMade = Cardinality({n \in DOMAIN referral : referral[n].claimed})
  /\ \A n \in DOMAIN referral : referral[n].claimed => referral[n].scanned

\* The tiered rewards (rewards.rs): everything a referrer was awarded is either
\* pending or claimed, the total distributed is what they all claimed and
\* what the other programme gave (claim_referral_reward_v2), and the tier is the one that the active referrals give.
ReferrerBooksAgree ==
  /\ \A p \in DOMAIN stats :
       /\ stats[p].earned + stats[p].pending = recorded[p]
       /\ stats[p].active <= stats[p].total
       /\ stats[p].tier = TierOf(stats[p].active)
  /\ distributed = distributedV2 + MapThenSumSet(LAMBDA p : stats[p].earned, DOMAIN stats)

\* Reputation can be explained (reputation.rs): while the log of a player is
\* complete and they are not banned, their score is what the logged changes
\* make of the initial 50; the report count is the number of reports listed;
\* and inactivity never raises a score or a benefit.
ReputationExplained ==
  /\ \A p \in DOMAIN scores \ banned :
       Len(Get(history, p, << >>)) < MaxHistory =>
         scores[p].score = FoldLeft(NewScore, 50, Get(history, p, << >>))
  /\ \A p \in Player :
       Get(reportCount, p, 0) = Cardinality({i \in DOMAIN disputes : disputes[i].accused = p})
  /\ \A p \in DOMAIN scores :
       LET s == scores[p].score
           later == Decay[3, s]
       IN  /\ later \in 1 .. s
           /\ BenefitsForScore(later).voting <= BenefitsForScore(s).voting
           /\ BenefitsForScore(later).discount <= BenefitsForScore(s).discount

\* The rating shown is the mean of one vote per voter (content_tools.rs), and a
\* creator's list names exactly the contents that are theirs, however votes,
\* reviews and deletions are mixed.
RatingsAgree ==
  /\ \A id \in 1 .. contentCounter :
       LET cast == {v \in DOMAIN votes : v[1] = id}
       IN  /\ GetVoteResult(id).votes = Cardinality(cast)
           /\ GetVoteResult(id).sum = MapThenSumSet(LAMBDA v : votes[v], cast)
           /\ id \in DOMAIN contents => contents[id].rating = GetVoteResult(id).average
  /\ \A p \in Player :
       LET mine == Get(creatorContent, p, << >>)
       IN  /\ ToSet(mine) = {id \in DOMAIN contents : contents[id].creator = p}
           /\ IsInjective(mine)

\* No sale credits more than the buyer paid (content_tools.rs): revenues held
\* and withdrawn stay within the prices paid, for every split whose shares add
\* up to at most the whole.
RevenueBacked == SumOf(creatorRevenue) + platformRevenue + withdrawn <= paid
=============================================================================
