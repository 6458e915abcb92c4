---------------------------- MODULE Leaderboards ----------------------------
(***************************************************************************)
(* leaderboards.rs: boards by category and period, guild, regional and     *)
(* achievement boards, their pages, resets and archives; and the weekly    *)
(* prizes of prize_distributor.rs, paid from a pool to a snapshot of a     *)
(* board.                                                                  *)
(***************************************************************************)
EXTENDS Integers, Sequences, FiniteSets, SequencesExt, FiniteSetsExt, Functions

CONSTANTS Player, Guild, Region,
          Category,         \* the categories that are used
          Period,           \* the periods that are used
          Duration,         \* period -> seconds, for weekly and monthly
          MaxEntries, MaxGuildEntries, MaxPageSize, MaxPayoutPositions,
          MaxScore, MaxTime, MaxSeason, MaxFunding \* bounds of the runs

VARIABLES now,
          boardAdmin,       \* whether set_admin was called
          boards,           \* <<category, period>> -> entries, best first
          guildBoard, regional, achievementBoard,
          playerGuild,
          seasonNo,         \* <<category, period>> -> Season, 1 when absent
          archive,          \* <<category, period, season>> -> entries
          lastReset,        \* <<category, period>> -> time, absent before a reset
          best,             \* history: the best score given since the last reset
          prizeAdmin, pool, distributed, snapshot, snapshotSize,
          funded,           \* history: funding since the distributor was initialised
          lastSnapshot,     \* history: the winners last submitted
          paid              \* history: the last distribution

boardVars == <<boardAdmin, boards, guildBoard, regional, achievementBoard, playerGuild,
               seasonNo, archive, lastReset, best>>
prizeVars == <<prizeAdmin, pool, distributed, snapshot, snapshotSize, funded,
               lastSnapshot, paid>>
vars == <<now, boardVars, prizeVars>>

ValidCategories == {"essence", "scans", "missions", "nebulae", "ships", "trades", "crafts",
                    "bounties", "pvp_wins", "pvp_rating", "guild_contrib", "achievements"}
ValidPeriods == {"daily", "weekly", "monthly", "all_time", "seasonal"}
ValidRegions == {"namerica", "europe", "asia", "samerica", "africa", "oceania"}

Board == {<<c, t>> : c \in Category \cap ValidCategories, t \in Period \cap ValidPeriods}

Init ==
  /\ now = 1
  /\ boardAdmin = FALSE
  /\ boards = [b \in Board |-> << >>]
  /\ guildBoard = << >> /\ achievementBoard = << >>
  /\ regional = [r \in Region |-> << >>]
  /\ playerGuild = << >>
  /\ seasonNo = [b \in Board |-> 1]
  /\ archive = << >> /\ lastReset = << >>
  /\ best = [b \in Board |-> << >>]
  /\ prizeAdmin = FALSE /\ pool = 0 /\ distributed = 0
  /\ snapshot = << >> /\ snapshotSize = 0 /\ funded = 0 /\ lastSnapshot = << >> /\ paid = << >>

Tick ==
  /\ now < MaxTime
  /\ now' = now + 1
  /\ UNCHANGED <<boardVars, prizeVars>>

With(f, k, v) == [x \in DOMAIN f \cup {k} |-> IF x = k THEN v ELSE f[x]]
-----------------------------------------------------------------------------
(* Boards *)

\* The exchange sort the boards share: entry j is swapped with entry i < j when
\* it is larger, for every pair in order.
Exchanged(entries, Key(_)) ==
  LET n == Len(entries)
      pairs == SetToSortSeq({ij \in (1 .. n) \X (1 .. n) : ij[1] < ij[2]},
                            LAMBDA p, q : p[1] < q[1] \/ (p[1] = q[1] /\ p[2] < q[2]))
      swap(s, ij) == IF Key(s[ij[2]]) > Key(s[ij[1]])
                       THEN [s EXCEPT ![ij[1]] = s[ij[2]], ![ij[2]] = s[ij[1]]]
                       ELSE s
  IN  FoldLeft(swap, entries, pairs)

SortEntriesDescending(entries) == Exchanged(entries, LAMBDA e : e.score)
SortGuildEntriesDescending(entries) == Exchanged(entries, LAMBDA e : e.score)
SortRegionalEntriesDescending(entries) == Exchanged(entries, LAMBDA e : e.score)
SortAchievementEntriesDescending(entries) == Exchanged(entries, LAMBDA e : e.points)

Higher(x, y) == IF x >= y THEN x ELSE y

\* The entries with the one of a player raised, or a new one added while there
\* is room; the position of the entry does not matter before the sort.
Has(entries, p) == \E i \in DOMAIN entries : entries[i].player = p
Room(entries, p, max) == Has(entries, p) \/ Len(entries) < max
Upsert(entries, p, Raise(_), new) ==
  IF Has(entries, p)
    THEN [i \in DOMAIN entries |-> IF entries[i].player = p THEN Raise(entries[i]) ELSE entries[i]]
    ELSE Append(entries, new)

SetAdmin ==
  /\ ~boardAdmin
  /\ boardAdmin' = TRUE
  /\ UNCHANGED <<now, boards, guildBoard, regional, achievementBoard, playerGuild, seasonNo,
                 archive, lastReset, best, prizeVars>>

\* update_score with the last score in place of the best.
LastScore(p, b, score) ==
  /\ Room(boards[b], p, MaxEntries)
  /\ boards' = [boards EXCEPT ![b] = SortEntriesDescending(
                  Upsert(@, p, LAMBDA e : [e EXCEPT !.score = score],
                         [player |-> p, score |-> score]))]
  /\ best' = [best EXCEPT ![b] = With(@, p, IF p \in DOMAIN @ THEN Higher(@[p], score) ELSE score)]
  /\ UNCHANGED <<now, boardAdmin, guildBoard, regional, achievementBoard, playerGuild, seasonNo,
                 archive, lastReset, prizeVars>>

UpdateScore(p, b, score) ==
  /\ Room(boards[b], p, MaxEntries)
  /\ boards' = [boards EXCEPT ![b] = SortEntriesDescending(
                  Upsert(@, p, LAMBDA e : [e EXCEPT !.score = Higher(@, score)],
                         [player |-> p, score |-> score]))]
  /\ best' = [best EXCEPT ![b] = With(@, p, IF p \in DOMAIN @ THEN Higher(@[p], score) ELSE score)]
  /\ UNCHANGED <<now, boardAdmin, guildBoard, regional, achievementBoard, playerGuild, seasonNo,
                 archive, lastReset, prizeVars>>

UpdateGuildScore(g, score, members) ==
  /\ boardAdmin
  /\ Room(guildBoard, g, MaxGuildEntries)
  /\ guildBoard' = SortGuildEntriesDescending(
       Upsert(guildBoard, g, LAMBDA e : [e EXCEPT !.score = Higher(@, score), !.members = members],
              [player |-> g, score |-> score, members |-> members]))
  /\ UNCHANGED <<now, boardAdmin, boards, regional, achievementBoard, playerGuild, seasonNo,
                 archive, lastReset, best, prizeVars>>

SetPlayerGuild(p, g) ==
  /\ playerGuild' = With(playerGuild, p, g)
  /\ UNCHANGED <<now, boardAdmin, boards, guildBoard, regional, achievementBoard, seasonNo,
                 archive, lastReset, best, prizeVars>>

UpdateRegionalScore(p, r, score) ==
  /\ r \in ValidRegions
  /\ Room(regional[r], p, MaxEntries)
  /\ regional' = [regional EXCEPT ![r] = SortRegionalEntriesDescending(
                    Upsert(@, p, LAMBDA e : [e EXCEPT !.score = Higher(@, score)],
                           [player |-> p, score |-> score]))]
  /\ UNCHANGED <<now, boardAdmin, boards, guildBoard, achievementBoard, playerGuild, seasonNo,
                 archive, lastReset, best, prizeVars>>

UpdateAchievementScore(p, count, points) ==
  /\ Room(achievementBoard, p, MaxEntries)
  /\ achievementBoard' = SortAchievementEntriesDescending(
       Upsert(achievementBoard, p,
              LAMBDA e : [e EXCEPT !.count = Higher(@, count), !.points = Higher(@, points)],
              [player |-> p, count |-> count, points |-> points]))
  /\ UNCHANGED <<now, boardAdmin, boards, guildBoard, regional, playerGuild, seasonNo, archive,
                 lastReset, best, prizeVars>>

\* Archiving a board under a season, emptying it and moving to the next season.
ArchiveAs(b, s) ==
  /\ s < MaxSeason
  /\ archive' = With(archive, <<b[1], b[2], s>>, boards[b])
  /\ boards' = [boards EXCEPT ![b] = << >>]
  /\ seasonNo' = [seasonNo EXCEPT ![b] = s + 1]
  /\ lastReset' = With(lastReset, b, now)
  /\ best' = [best EXCEPT ![b] = << >>]
  /\ UNCHANGED <<now, boardAdmin, guildBoard, regional, achievementBoard, playerGuild, prizeVars>>


ResetLeaderboard(b) == boardAdmin /\ ArchiveAs(b, seasonNo[b])

\* reset_if_due: the first reset is always due.
ResetIfDue(b) ==
  /\ b[2] \in DOMAIN Duration
  /\ b \in DOMAIN lastReset => now - lastReset[b] >= Duration[b[2]]
  /\ ResetLeaderboard(b)

\* reset_seasonal_leaderboard archives under the season it is told.
ResetSeasonalLeaderboard(c, season_id) ==
  /\ boardAdmin
  /\ <<c, "seasonal">> \in Board
  /\ ArchiveAs(<<c, "seasonal">>, season_id)

\* take_range and paginate; pages count from zero.
TakeRange(entries, start, end) ==
  SubSeq(entries, Min({start, Len(entries)}) + 1, Min({end, Len(entries)}))

\* Pages that end one entry early, for the mutants.
PaginateShort(entries, page, size) ==
  LET total == Len(entries)
      start == Min({page * size, total})
      end == Min({start + size - 1, total})
  IN  [entries |-> TakeRange(entries, start, end), has_more |-> end < total]

Paginate(entries, page, size) ==
  LET total == Len(entries)
      start == Min({page * size, total})
      end == Min({start + size, total})
  IN  [entries |-> TakeRange(entries, start, end), has_more |-> end < total]

GetLeaderboard(b, limit) == TakeRange(boards[b], 0, limit)

\* distribute_rewards: the winners among the first ten, with what their place
\* earns; rewards are four amounts by place.
DistributeRewards(b, rewards) ==
  LET top == GetLeaderboard(b, 10)
      at(i) == rewards[Min({i, 4})]
  IN  SelectSeq([i \in DOMAIN top |-> [winner |-> top[i].player, amount |-> at(i)]],
                LAMBDA r : r.amount > 0)

BoardNext ==
  \/ Tick
  \/ SetAdmin
  \/ \E p \in Player, b \in Board, s \in 1 .. MaxScore : UpdateScore(p, b, s)
  \/ \E b \in Board : ResetLeaderboard(b)
  \/ \E b \in Board : ResetIfDue(b)
  \/ \E c \in Category, s \in 1 .. MaxSeason : ResetSeasonalLeaderboard(c, s)

\* The boards without resets.
TableNext ==
  \/ SetAdmin
  \/ \E g \in Guild, s, m \in 1 .. MaxScore : UpdateGuildScore(g, s, m)
  \/ \E p \in Player, g \in Guild : SetPlayerGuild(p, g)
  \/ \E p \in Player, r \in Region, s \in 1 .. MaxScore : UpdateRegionalScore(p, r, s)
  \/ \E p \in Player, c, s \in 1 .. MaxScore : UpdateAchievementScore(p, c, s)
-----------------------------------------------------------------------------
(* Weekly prizes *)

\* Shares that grow with the place, for the mutants.
RisingShare(amount, rank, top_n) == (amount * rank) \div ((top_n * (top_n + 1)) \div 2)

PrizeShare(amount, rank, top_n) ==
  (amount * (top_n + 1 - rank)) \div ((top_n * (top_n + 1)) \div 2)

\* initialize_prize_distributor may be called again: the pool restarts at zero.
InitializePrizeDistributor ==
  /\ prizeAdmin' = TRUE
  /\ pool' = 0 /\ distributed' = 0 /\ snapshotSize' = 0 /\ funded' = 0
  /\ UNCHANGED <<now, boardVars, snapshot, lastSnapshot, paid>>

FundPrizePool(amount) ==
  /\ amount > 0
  /\ funded + amount <= MaxFunding
  /\ pool' = pool + amount
  /\ funded' = funded + amount
  /\ UNCHANGED <<now, boardVars, prizeAdmin, distributed, snapshot, snapshotSize, lastSnapshot,
                 paid>>

\* submit_leaderboard_snapshot leaves the places past the new winners as they were.
SubmitLeaderboardSnapshot(winners) ==
  /\ prizeAdmin
  /\ snapshot' = [i \in 1 .. Higher(Len(winners), Len(snapshot)) |->
                    IF i <= Len(winners) THEN winners[i] ELSE snapshot[i]]
  /\ snapshotSize' = Len(winners)
  /\ lastSnapshot' = winners
  /\ UNCHANGED <<now, boardVars, prizeAdmin, pool, distributed, funded, paid>>

\* distribute_weekly_prizes paying every place that was ever submitted.
DistributeStale(top_n) ==
  LET effective_n == Min({top_n, Len(snapshot)})
      amounts == [r \in 1 .. effective_n |-> PrizeShare(pool, r, effective_n)]
      total == FoldFunction(LAMBDA x, y : x + y, 0, amounts)
  IN  /\ prizeAdmin
      /\ top_n > 0 /\ top_n <= MaxPayoutPositions
      /\ snapshotSize > 0
      /\ pool >= effective_n
      /\ pool' = pool - total
      /\ distributed' = distributed + total
      /\ paid' = [r \in 1 .. effective_n |-> [winner |-> snapshot[r], amount |-> amounts[r]]]
      /\ snapshotSize' = 0
      /\ UNCHANGED <<now, boardVars, prizeAdmin, snapshot, funded, lastSnapshot>>

DistributeWeeklyPrizes(top_n) ==
  LET effective_n == Min({top_n, snapshotSize})
      amounts == [r \in 1 .. effective_n |-> PrizeShare(pool, r, effective_n)]
      total == FoldFunction(LAMBDA x, y : x + y, 0, amounts)
  IN  /\ prizeAdmin
      /\ top_n > 0 /\ top_n <= MaxPayoutPositions
      /\ snapshotSize > 0
      /\ pool >= effective_n
      /\ pool' = pool - total
      /\ distributed' = distributed + total
      /\ paid' = [r \in 1 .. effective_n |-> [winner |-> snapshot[r], amount |-> amounts[r]]]
      /\ snapshotSize' = 0
      /\ UNCHANGED <<now, boardVars, prizeAdmin, snapshot, funded, lastSnapshot>>

PrizeNext ==
  \/ InitializePrizeDistributor
  \/ \E amount \in 0 .. 3 : FundPrizePool(amount)
  \/ \E winners \in SeqOf(Player, 3) : SubmitLeaderboardSnapshot(winners)
  \/ \E top_n \in 0 .. MaxPayoutPositions + 1 : DistributeWeeklyPrizes(top_n)

Next == BoardNext \/ TableNext \/ PrizeNext
Spec == Init /\ [][Next]_vars
-----------------------------------------------------------------------------
TypeOK ==
  /\ now \in 1 .. MaxTime
  /\ boardAdmin \in BOOLEAN /\ prizeAdmin \in BOOLEAN
  /\ pool \in 0 .. MaxFunding /\ distributed \in 0 .. MaxFunding
  /\ \A b \in Board : Len(boards[b]) <= MaxEntries /\ seasonNo[b] \in 1 .. MaxSeason

Ordered(entries, Key(_)) ==
  \A i, j \in DOMAIN entries :
    i < j => entries[i].player # entries[j].player /\ Key(entries[i]) >= Key(entries[j])


\* paginate: the pages of a board follow each other without a gap or an overlap,
\* and has_more tells the last of them.
PagesCoverBoard ==
  \A b \in Board, size \in 1 .. MaxPageSize :
    LET page == [n \in 0 .. MaxEntries |-> Paginate(boards[b], n, size)]
    IN  /\ FlattenSeq([n \in 1 .. MaxEntries + 1 |-> page[n - 1].entries]) = boards[b]
        /\ \A n \in 0 .. MaxEntries - 1 : page[n].has_more <=> page[n + 1].entries # << >>

\* reset_leaderboard, reset_if_due: no later reset changes the archive of a
\* season of a board that is not the seasonal one, and its archives are those
\* of all earlier seasons.
ArchivesKept ==
  [][\A k \in DOMAIN archive : k[2] # "seasonal" =>
       /\ k \in DOMAIN archive' /\ archive'[k] = archive[k]
       /\ k[3] < seasonNo'[<<k[1], k[2]>>]]_vars

\* distribute_weekly_prizes: what the pool holds and has paid is what it was
\* funded with; a distribution pays the winners of the last snapshot, a better
\* place no less than a worse one.
PrizesFollowSnapshot ==
  /\ pool + distributed = funded
  /\ \A r \in DOMAIN paid : r < Len(paid) => paid[r].amount >= paid[r + 1].amount

\* A distribution pays the snapshot that was last submitted.
PaysLastSnapshot ==
  [][distributed' > distributed =>
       \A r \in DOMAIN paid' : r <= Len(lastSnapshot) /\ paid'[r].winner = lastSnapshot[r]]_vars
=============================================================================
