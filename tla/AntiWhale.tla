------------------------------ MODULE AntiWhale ------------------------------
(***************************************************************************)
(* src/economics/anti_whale.rs: daily caps, diminishing returns on         *)
(* gathering, progressive fees, activity tiers and the board of each tier. *)
(* Keys that end in the day index start afresh every day, so only the      *)
(* current day's values are kept.                                          *)
(***************************************************************************)
EXTENDS AntiWhaleCurves, FiniteSets

CONSTANTS User, Admin,
          Amount,        \* units gathered in a call
          Moved,         \* units traded, contributed or minted in a call
          Score,         \* scores passed to record_tier_score
          Defaults,      \* AntiWhaleConfig::defaults
          Configs,       \* configurations an admin tries to store
          GovSets,       \* parameters governance sets
          GovValue,      \* values of a governance parameter, 0 and below ignored
          DailyCaps,     \* values of DailyCap, the first being the default
          PointsPer,     \* ACTIVITY_PER_SCAN, _MINT and _TRADE
          UnitsPerPoint, \* UNITS_PER_ACTIVITY_POINT
          MaxBoard,      \* MAX_TIER_BOARD_ENTRIES
          MaxDay,        \* bound: days
          MaxUnits,      \* bound: units of each kind a user moves in a day
          MaxActivity    \* bound: activity points of a user

VARIABLES day,
          admin,      \* WhaleAdmin
          stored,     \* WhaleConfig
          gov,        \* the aw_* game parameters, 0 when unset
          dailyCap, exempt,
          gathered,   \* DailyGathered
          volume,     \* DailyVolume
          traded,     \* DailyTradeVolume
          guild,      \* DailyGuildContribution
          ops,        \* DailyOps
          activity,
          boards,     \* TierBoard
          impact,     \* WhaleImpact
          credited,   \* history: units credited for today's gathering
          paid,       \* history: progressive fees on today's trades
          best        \* history: best score recorded on each board

settings == <<day, admin, stored, gov, dailyCap, exempt>>
counters == <<gathered, volume, traded, guild, ops, credited, paid>>
vars == <<settings, counters, activity, boards, impact, best>>

Kind == {"Scan", "Mint", "Trade"}
Tier == {"Casual", "Dedicated", "Hardcore"}
NoAdmin == "none"

AntiWhaleConfig == [tier_width : Nat, caps : [Kind -> Nat], guild_daily_cap : Nat,
                    dedicated_threshold : Nat, hardcore_threshold : Nat]
GovKey == {"width", "Scan", "Mint", "Trade", "guild", "dedic", "hard"}

\* AntiWhaleConfig::is_valid
IsValid(c) ==
  /\ c.tier_width > 0
  /\ \A k \in Kind : c.caps[k] > 0
  /\ c.guild_daily_cap > 0
  /\ c.dedicated_threshold < c.hardcore_threshold

\* gov_u64, gov_u32, gov_i128: a positive parameter overrides the fallback.
Gov(key, fallback) == IF gov[key] > 0 THEN gov[key] ELSE fallback

\* Mutant: governance thresholds are taken even when out of order.
EffectiveConfigUnordered ==
  [tier_width |-> Gov("width", stored.tier_width),
   caps |-> [k \in Kind |-> Gov(k, stored.caps[k])],
   guild_daily_cap |-> Gov("guild", stored.guild_daily_cap),
   dedicated_threshold |-> Gov("dedic", stored.dedicated_threshold),
   hardcore_threshold |-> Gov("hard", stored.hardcore_threshold)]

\* effective_config
EffectiveConfig ==
  LET dedicated == Gov("dedic", stored.dedicated_threshold)
      hardcore == Gov("hard", stored.hardcore_threshold)
      ordered == dedicated < hardcore
  IN  [tier_width |-> Gov("width", stored.tier_width),
       caps |-> [k \in Kind |-> Gov(k, stored.caps[k])],
       guild_daily_cap |-> Gov("guild", stored.guild_daily_cap),
       dedicated_threshold |-> IF ordered THEN dedicated ELSE stored.dedicated_threshold,
       hardcore_threshold |-> IF ordered THEN hardcore ELSE stored.hardcore_threshold]

\* tier_for_activity, get_player_tier
TierOf(user) ==
  CASE activity[user] >= EffectiveConfig.hardcore_threshold -> "Hardcore"
    [] activity[user] < EffectiveConfig.dedicated_threshold -> "Casual"
    [] OTHER -> "Dedicated"

Zero == [u \in User |-> 0]

Init ==
  /\ day = 0
  /\ admin = NoAdmin
  /\ stored = Defaults
  /\ gov = [k \in GovKey |-> 0]
  /\ dailyCap = DailyCaps[1]
  /\ exempt = {}
  /\ gathered = Zero /\ volume = Zero /\ traded = Zero /\ guild = Zero
  /\ ops = [u \in User |-> [k \in Kind |-> 0]]
  /\ credited = Zero /\ paid = Zero
  /\ activity = Zero
  /\ boards = [t \in Tier |-> << >>]
  /\ impact = [raw |-> 0, effective |-> 0, fees |-> 0]
  /\ best = [t \in Tier |-> Zero]

\* Time passes to the next day: every daily key is a fresh one.
NextDay ==
  /\ day < MaxDay
  /\ day' = day + 1
  /\ gathered' = Zero /\ volume' = Zero /\ traded' = Zero /\ guild' = Zero
  /\ ops' = [u \in User |-> [k \in Kind |-> 0]]
  /\ credited' = Zero /\ paid' = Zero
  /\ UNCHANGED <<admin, stored, gov, dailyCap, exempt, activity, boards, impact, best>>

\* init_admin
InitAdmin(a) ==
  /\ admin = NoAdmin
  /\ admin' = a
  /\ UNCHANGED <<day, stored, gov, dailyCap, exempt, counters, activity, boards, impact, best>>

\* set_config
SetConfig(caller, c) ==
  /\ caller = admin
  /\ IsValid(c)
  /\ stored' = c
  /\ UNCHANGED <<day, admin, gov, dailyCap, exempt, counters, activity, boards, impact, best>>

\* set_daily_cap
SetDailyCap(caller, cap) ==
  /\ caller = admin
  /\ cap # 0
  /\ dailyCap' = cap
  /\ UNCHANGED <<day, admin, stored, gov, exempt, counters, activity, boards, impact, best>>

\* set_exempt
SetExempt(caller, user, on) ==
  /\ caller = admin
  /\ exempt' = IF on THEN exempt \cup {user} ELSE exempt \ {user}
  /\ UNCHANGED <<day, admin, stored, gov, dailyCap, counters, activity, boards, impact, best>>

\* set_game_parameter of src/governance.rs, for the keys read here
SetGameParameter(key, value) ==
  /\ gov' = [gov EXCEPT ![key] = value]
  /\ UNCHANGED <<day, admin, stored, dailyCap, exempt, counters, activity, boards, impact, best>>

\* add_activity_with
AddActivity(user, points) ==
  /\ activity[user] + points <= MaxActivity
  /\ activity' = [activity EXCEPT ![user] = Sat(@ + points)]

\* Mutant: the volume already gathered today is not looked at.
ApplyGatheringFresh(user, amount) ==
  /\ user \notin exempt
  /\ gathered[user] + amount <= MaxUnits
  /\ LET effective == DiminishingReturns(0, amount, EffectiveConfig.tier_width)
     IN  /\ credited' = [credited EXCEPT ![user] = @ + effective]
         /\ impact' = [impact EXCEPT !.raw = Sat(@ + amount),
                                     !.effective = Sat(@ + effective)]
  /\ gathered' = [gathered EXCEPT ![user] = @ + amount]
  /\ AddActivity(user, amount \div UnitsPerPoint)
  /\ UNCHANGED <<settings, volume, traded, guild, ops, paid, boards, best>>

\* apply_gathering, for a user who is not exempt and a positive amount (the
\* other calls change nothing)
ApplyGathering(user, amount) ==
  /\ user \notin exempt
  /\ gathered[user] + amount <= MaxUnits
  /\ LET effective == DiminishingReturns(gathered[user], amount, EffectiveConfig.tier_width)
     IN  /\ credited' = [credited EXCEPT ![user] = @ + effective]
         /\ impact' = [impact EXCEPT !.raw = Sat(@ + amount),
                                     !.effective = Sat(@ + effective)]
  /\ gathered' = [gathered EXCEPT ![user] = @ + amount]
  /\ AddActivity(user, amount \div UnitsPerPoint)
  /\ UNCHANGED <<settings, volume, traded, guild, ops, paid, boards, best>>

\* check_operation
CheckOperation(user, kind, count) ==
  /\ IF user \in exempt
     THEN UNCHANGED ops
     ELSE /\ ops[user][kind] + count <= EffectiveConfig.caps[kind]
          /\ ops' = [ops EXCEPT ![user][kind] = @ + count]
  /\ AddActivity(user, PointsPer[kind] * count)
  /\ UNCHANGED <<settings, gathered, volume, traded, guild, credited, paid, boards, impact, best>>

\* charge_progressive_fee, for a user who is not exempt
ChargeProgressiveFee(user, amount) ==
  /\ user \notin exempt
  /\ traded[user] + amount <= MaxUnits
  /\ traded' = [traded EXCEPT ![user] = @ + amount]
  /\ LET fee == ProgressiveTradeFee(traded[user], amount)
     IN  /\ impact' = [impact EXCEPT !.fees = Sat(@ + fee)]
         /\ paid' = [paid EXCEPT ![user] = @ + fee]
  /\ UNCHANGED <<settings, gathered, volume, guild, ops, credited, activity, boards, best>>

\* check_guild_contribution, for a user who is not exempt
CheckGuildContribution(user, amount) ==
  /\ user \notin exempt
  /\ guild[user] + amount <= EffectiveConfig.guild_daily_cap
  /\ guild' = [guild EXCEPT ![user] = @ + amount]
  /\ UNCHANGED <<settings, gathered, volume, traded, ops, credited, paid, activity, boards, impact, best>>

\* process_anti_whale_action, for a user who is not exempt
ProcessAntiWhaleAction(user, amount) ==
  /\ user \notin exempt
  /\ volume[user] + amount <= dailyCap
  /\ volume' = [volume EXCEPT ![user] = @ + amount]
  /\ UNCHANGED <<settings, gathered, traded, guild, ops, credited, paid, activity, boards, impact, best>>

\* The board's rows ranked by score; rows with equal scores keep their order,
\* as the insertion sort leaves them.
Ranked(rows) ==
  LET before(i, j) == rows[i].score > rows[j].score
                        \/ (rows[i].score = rows[j].score /\ i < j)
      place(i) == Cardinality({j \in DOMAIN rows : before(j, i)}) + 1
  IN  [n \in DOMAIN rows |-> rows[CHOOSE i \in DOMAIN rows : place(i) = n]]

\* The row update: the player's row keeps the larger score, a new player's
\* row goes to the end. (Rows also carry a timestamp, which orders nothing.)
WithScore(rows, player, score) ==
  IF \E i \in DOMAIN rows : rows[i].player = player
  THEN [i \in DOMAIN rows |->
          IF rows[i].player = player /\ rows[i].score < score
          THEN [rows[i] EXCEPT !.score = score] ELSE rows[i]]
  ELSE Append(rows, [player |-> player, score |-> score])

\* Mutant: the player's latest score replaces a better one.
WithScoreLatest(rows, player, score) ==
  IF \E i \in DOMAIN rows : rows[i].player = player
  THEN [i \in DOMAIN rows |->
          IF rows[i].player = player THEN [rows[i] EXCEPT !.score = score] ELSE rows[i]]
  ELSE Append(rows, [player |-> player, score |-> score])

\* Mutant: see WithScoreLatest.
RecordTierScoreLatest(player, score) ==
  LET tier == TierOf(player)
      rows == Ranked(WithScoreLatest(boards[tier], player, score))
  IN  /\ boards' = [boards EXCEPT ![tier] = SubSeq(rows, 1, Min({Len(rows), MaxBoard}))]
      /\ best' = [best EXCEPT ![tier][player] = Max({@, score})]
      /\ UNCHANGED <<settings, counters, activity, impact>>

\* record_tier_score: update, sort, cut to MAX_TIER_BOARD_ENTRIES.
RecordTierScore(player, score) ==
  LET tier == TierOf(player)
      rows == Ranked(WithScore(boards[tier], player, score))
  IN  /\ boards' = [boards EXCEPT ![tier] = SubSeq(rows, 1, Min({Len(rows), MaxBoard}))]
      /\ best' = [best EXCEPT ![tier][player] = Max({@, score})]
      /\ UNCHANGED <<settings, counters, activity, impact>>

Next ==
  \/ NextDay
  \/ \E a \in Admin : InitAdmin(a)
  \/ \E a \in Admin, c \in Configs : SetConfig(a, c)
  \/ \E a \in Admin, cap \in {DailyCaps[i] : i \in DOMAIN DailyCaps} : SetDailyCap(a, cap)
  \/ \E a \in Admin, u \in User, on \in BOOLEAN : SetExempt(a, u, on)
  \/ \E k \in GovSets, v \in GovValue : SetGameParameter(k, v)
  \/ \E u \in User, n \in Amount : ApplyGathering(u, n)
  \/ \E u \in User, n \in Moved :
       \/ ChargeProgressiveFee(u, n)
       \/ CheckGuildContribution(u, n)
       \/ ProcessAntiWhaleAction(u, n)
  \/ \E u \in User, k \in Kind : CheckOperation(u, k, 1)
  \/ \E u \in User, s \in Score : RecordTierScore(u, s)

Spec == Init /\ [][Next]_vars

\* Types; no stored configuration has a zero width (set_config), and no board
\* is longer than MAX_TIER_BOARD_ENTRIES.
TypeOK ==
  /\ admin \in Admin \cup {NoAdmin}
  /\ stored \in AntiWhaleConfig /\ stored.tier_width > 0 /\ stored.guild_daily_cap > 0
  /\ exempt \subseteq User
  /\ \A c \in {gathered, volume, traded, guild, activity, credited, paid} : c \in [User -> Nat]
  /\ \A t \in Tier : Len(boards[t]) <= MaxBoard

\* The limits in force are a valid configuration whatever governance and the
\* admin stored, in any order: an out-of-order threshold pair falls back
\* (effective_config).
EffectiveConfigIsValid == IsValid(EffectiveConfig)

\* What the curve pays for the first n units of a day, without rounding.
Curve(n, width) ==
  LET rate(k) == TierMultiplier[Min({TierCount, (k - 1) \div width + 1})]
  IN  FoldLeft(LAMBDA sum, k : sum + rate(k), 0, [k \in 1 .. n |-> k])

\* However a day's gathering is split into calls, and whichever widths are in
\* force in between, it earns no more than the curve of the widest band pays
\* for the whole of it (apply_gathering).
SplittingNeverPays ==
  LET widest == Max({c.tier_width : c \in Configs \cup {Defaults}} \cup GovValue)
  IN  \A u \in User : credited[u] * Bps <= Curve(gathered[u], widest)

\* However a day's trading is split into calls, it never costs more than one
\* trade of the whole volume would (charge_progressive_fee).
SplitTradesCostNoMore ==
  \A u \in User : paid[u] <= ProgressiveTradeFee(0, traded[u])

\* A tier's board shows its players' best scores, best first, once each, and
\* a player it does not show has scored no more than any it shows. A player
\* dropped from a full board cannot come back with a score below their best
\* (record_tier_score).
BoardHoldsTheBest ==
  \A t \in Tier :
    LET b == boards[t]
        shown == {b[i].player : i \in DOMAIN b}
    IN  /\ \A i, j \in DOMAIN b :
             i < j => b[i].score >= b[j].score /\ b[i].player # b[j].player
        /\ \A i \in DOMAIN b : b[i].score = best[t][b[i].player]
        /\ \A u \in User \ shown : \A i \in DOMAIN b : best[t][u] <= b[i].score
=============================================================================
