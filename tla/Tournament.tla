----------------------------- MODULE Tournament -----------------------------
(***************************************************************************)
(* src/tournament.rs: one tournament, from its creation to the payout of   *)
(* its prize pool, over the balances of src/resource_minter.rs. A match is *)
(* a combat of src/pvp_combat.rs, whose winner is chosen here.             *)
(***************************************************************************)
EXTENDS Integers, Sequences, FiniteSets, FiniteSetsExt, SequencesExt

CONSTANTS Player,
          Elo,        \* ratings when the bracket is seeded
          Funds,      \* units each player holds at first
          Fees,       \* entry fees organizers choose
          Caps,       \* values of max_players
          Shares,     \* prize distributions, out of Whole
          Whole,      \* 10_000 basis points
          MaxTime     \* bound: clock

VARIABLES now,
          t,         \* TournamentDataKey::Tournament, << >> until created
          entrants,  \* TournamentDataKey::Registrants
          rounds,    \* TournamentDataKey::Round, one sequence of matches each
          fought,    \* the winner of a match's combat, per round and match
          balance, supply, minted,  \* the minter's ledger for the resource
          prizes     \* history: what each player was paid

vars == <<now, t, entrants, rounds, fought, balance, supply, minted, prizes>>
money == <<balance, supply, minted, prizes>>

NoOne == "none"
BracketMatch == [player1 : Player \cup {NoOne}, player2 : Player \cup {NoOne},
                 winner : Player \cup {NoOne}]

Total(f) == MapThenSumSet(LAMBDA p : f[p], Player)

Init ==
  /\ now = 0
  /\ t = << >>
  /\ entrants = << >>
  /\ rounds = << >>
  /\ fought = << >>
  /\ balance = Funds
  /\ supply = Total(Funds)
  /\ minted = Total(Funds)
  /\ prizes = [p \in Player |-> 0]

Tick ==
  /\ now < MaxTime
  /\ now' = now + 1
  /\ UNCHANGED <<t, entrants, rounds, fought, money>>

\* create_tournament: max_players is a power of two from 4 to 64.
CreateTournament(fee, cap, shares) ==
  /\ t = << >>
  /\ cap \in {4, 8, 16, 32, 64}
  /\ FoldLeft(+, 0, shares) <= Whole
  /\ Len(shares) <= cap
  /\ t' = <<[fee |-> fee, max_players |-> cap, shares |-> shares, status |-> "reg",
             deadline |-> now, pool |-> 0]>>
  /\ UNCHANGED <<now, entrants, rounds, fought, money>>

Is(status) == t # << >> /\ t[1].status = status

\* register_for_tournament: the fee leaves the balance, not the supply.
RegisterForTournament(p) ==
  /\ Is("reg")
  /\ now <= t[1].deadline
  /\ Len(entrants) < t[1].max_players
  /\ ~Contains(entrants, p)
  /\ t[1].fee <= balance[p]
  /\ balance' = [balance EXCEPT ![p] = @ - t[1].fee]
  /\ t' = [t EXCEPT ![1].pool = @ + t[1].fee]
  /\ entrants' = Append(entrants, p)
  /\ UNCHANGED <<now, rounds, fought, supply, minted, prizes>>

\* The stable insertion sort by rating, best first.
Seeded ==
  LET before(i, j) == Elo[entrants[i]] > Elo[entrants[j]]
                        \/ (Elo[entrants[i]] = Elo[entrants[j]] /\ i < j)
      place(i) == Cardinality({j \in DOMAIN entrants : before(j, i)}) + 1
  IN  [n \in DOMAIN entrants |-> entrants[CHOOSE i \in DOMAIN entrants : place(i) = n]]

\* next_power_of_two
BracketSize(n) == CHOOSE p \in {2^k : k \in 0 .. n} : p >= n /\ (p = 1 \/ p \div 2 < n)

\* resolve_or_start_match: a side without a player is a bye.
Match(p1, p2) ==
  [player1 |-> p1, player2 |-> p2,
   winner |-> IF p1 = NoOne THEN p2 ELSE IF p2 = NoOne THEN p1 ELSE NoOne]

\* Mutant: neighbours in the seeding are paired, so the byes go to the last.
FirstRoundNeighbours ==
  LET size == BracketSize(Len(entrants))
      seed(i) == IF i <= Len(entrants) THEN Seeded[i] ELSE NoOne
  IN  [i \in 1 .. size \div 2 |-> Match(seed(2 * i - 1), seed(2 * i))]

\* The first round of start_tournament: slot i against slot size + 1 - i.
FirstRound ==
  LET size == BracketSize(Len(entrants))
      seed(i) == IF i <= Len(entrants) THEN Seeded[i] ELSE NoOne
  IN  [i \in 1 .. size \div 2 |-> Match(seed(i), seed(size + 1 - i))]

Unfought(r) == [i \in DOMAIN r |-> NoOne]

\* start_tournament. At least one first-round match is a combat, so the
\* trailing maybe_advance_round finds the round unresolved.
StartTournament ==
  /\ Is("reg")
  /\ Len(entrants) >= 2
  /\ rounds' = <<FirstRound>>
  /\ fought' = <<Unfought(FirstRound)>>
  /\ t' = [t EXCEPT ![1].status = "active"]
  /\ UNCHANGED <<now, entrants, money>>

\* pvp_combat decides the combat of a match.
CombatEnds(r, i, p) ==
  LET m == rounds[r][i]
  IN  /\ m.player1 # NoOne /\ m.player2 # NoOne
      /\ fought[r][i] = NoOne
      /\ p \in {m.player1, m.player2}
      /\ fought' = [fought EXCEPT ![r][i] = p]
      /\ UNCHANGED <<now, t, entrants, rounds, money>>

Loser(m) == IF m.player1 = m.winner THEN m.player2 ELSE m.player1

\* placements_best_first: the champion, then the losers, last round first.
Placements(rs) ==
  LET losers(r) == SelectSeq([i \in DOMAIN rs[r] |-> Loser(rs[r][i])], LAMBDA p : p # NoOne)
      backwards == [k \in 1 .. Len(rs) |-> losers(Len(rs) + 1 - k)]
  IN  <<rs[Len(rs)][1].winner>> \o FlattenSeq(backwards)

\* Mutant: the losers of the first round are listed before the finalists.
PrizeForwards(rs, p) ==
  LET losers(r) == SelectSeq([i \in DOMAIN rs[r] |-> Loser(rs[r][i])], LAMBDA q : q # NoOne)
      order == <<rs[Len(rs)][1].winner>> \o FlattenSeq([r \in 1 .. Len(rs) |-> losers(r)])
      places == {i \in DOMAIN order \cap DOMAIN t[1].shares : order[i] = p}
  IN  MapThenSumSet(LAMBDA i : (t[1].pool * t[1].shares[i]) \div Whole, places)

\* distribute_prizes: each placement's share of the pool, rounded down.
Prize(rs, p) ==
  LET order == Placements(rs)
      places == {i \in DOMAIN order \cap DOMAIN t[1].shares : order[i] = p}
  IN  MapThenSumSet(LAMBDA i : (t[1].pool * t[1].shares[i]) \div Whole, places)

\* finish_tournament: credit_balance adds each prize to balance, supply and
\* minted total.
FinishTournament(rs) ==
  LET prize == [p \in Player |-> Prize(rs, p)]
  IN  /\ t' = [t EXCEPT ![1].status = "done"]
      /\ balance' = [p \in Player |-> balance[p] + prize[p]]
      /\ supply' = supply + Total(prize)
      /\ minted' = minted + Total(prize)
      /\ prizes' = prize
      /\ rounds' = rs
      /\ UNCHANGED fought

\* maybe_advance_round, on rounds whose last one was just reported to.
Advance(rs) ==
  LET last == rs[Len(rs)]
      winner(i) == last[i].winner
      next == [i \in 1 .. Len(last) \div 2 |-> Match(winner(2 * i - 1), winner(2 * i))]
  IN  CASE \E i \in DOMAIN last : winner(i) = NoOne ->
             rounds' = rs /\ UNCHANGED <<t, fought, money>>
        [] Len(last) = 1 /\ winner(1) # NoOne -> FinishTournament(rs)
        [] OTHER -> /\ rounds' = Append(rs, next)
                    /\ fought' = Append(fought, Unfought(next))
                    /\ UNCHANGED <<t, money>>

\* report_match_result
ReportMatchResult(r, i) ==
  /\ Is("active")
  /\ r = Len(rounds)
  /\ rounds[r][i].winner = NoOne
  /\ fought[r][i] # NoOne
  /\ Advance([rounds EXCEPT ![r][i].winner = fought[r][i]])
  /\ UNCHANGED <<now, entrants>>

Next ==
  \/ Tick
  \/ \E fee \in Fees, cap \in Caps, s \in Shares : CreateTournament(fee, cap, s)
  \/ \E p \in Player : RegisterForTournament(p)
  \/ StartTournament
  \/ \E r \in DOMAIN rounds : \E i \in DOMAIN rounds[r] :
       \/ \E p \in Player : CombatEnds(r, i, p)
       \/ ReportMatchResult(r, i)

Spec == Init /\ [][Next]_vars

Played == {<<r, i>> \in (DOMAIN rounds) \X (1 .. Len(entrants)) : i \in DOMAIN rounds[r]}
At(x) == rounds[x[1]][x[2]]

\* Types; registrations stay within max_players and are distinct.
TypeOK ==
  /\ rounds \in Seq(Seq(BracketMatch))
  /\ entrants \in Seq(Player) /\ IsInjective(entrants)
  /\ t # << >> => t[1].pool \in Nat /\ Len(entrants) <= t[1].max_players
  /\ balance \in [Player -> Nat]

\* Single elimination: nobody plays twice in a round, whoever plays in a later
\* round won in the one before, and when the tournament is done everyone but
\* the champion has lost exactly once (start_tournament, maybe_advance_round).
SingleElimination ==
  /\ \A r \in DOMAIN rounds : \A p \in Player :
       LET mine == {x \in Played : x[1] = r /\ p \in {At(x).player1, At(x).player2}}
       IN  /\ Cardinality(mine) <= 1
           /\ r > 1 /\ mine # {} => \E x \in Played : x[1] = r - 1 /\ At(x).winner = p
  /\ Is("done") =>
       \E champion \in ToSet(entrants) : \A p \in ToSet(entrants) :
         Cardinality({x \in Played : At(x).winner # NoOne /\ Loser(At(x)) = p})
           = IF p = champion THEN 0 ELSE 1

\* "byes land against the strongest remaining players first": nobody without
\* a bye is rated above someone with one (start_tournament).
ByesGoToTheStrongest ==
  \A x, y \in Played :
    x[1] = 1 /\ y[1] = 1 /\ At(x).player2 = NoOne /\ At(y).player2 # NoOne =>
      Elo[At(x).player1] >= Elo[At(y).player1] /\ Elo[At(x).player1] >= Elo[At(y).player2]

\* Prizes never exceed the pool, and a player who went further is never paid
\* less than one who went out in an earlier round, for distributions that do
\* not increase (distribute_prizes, placements_best_first).
PrizesFollowTheBracket ==
  Is("done") =>
    LET last(p) == Max({0} \cup {x[1] : x \in {y \in Played : p \in {At(y).player1, At(y).player2}}})
        shares == t[1].shares
        falling == \A i, j \in DOMAIN shares : i < j => shares[i] >= shares[j]
    IN  /\ Total(prizes) <= t[1].pool
        /\ falling => \A p, q \in Player : last(p) > last(q) => prizes[p] >= prizes[q]
=============================================================================
