------------------------------ MODULE PvpCombat ------------------------------
(***************************************************************************)
(* src/pvp_combat.rs: challenges, turn-based combats, the players' records *)
(* and ratings with their decay. Every player is in at most MaxCombats     *)
(* combats; a player may challenge themself, as the code allows.           *)
(***************************************************************************)
EXTENDS Integers, Sequences, FiniteSets, FiniteSetsExt

CONSTANTS Player,
          Power,            \* powers passed to execute_move
          MaxHp, MaxEnergy, \* MAX_HP, MAX_ENERGY
          DefendGain,       \* energy a defence restores
          InitialElo,       \* INITIAL_ELO
          DecayPoints, DecayFloor, Inactivity,  \* EloDecayConfig
          CombatTimeout, ChallengeExpiry,
          MaxTime, MaxChallenges, MaxDepth      \* bounds; MaxDepth: moves of a combat

VARIABLES now,
          challenges,  \* PvPDataKey::Challenge; its counter is the length
          combats,     \* PvPDataKey::Combat; its counter is the length
          stats,       \* PvPDataKey::PlayerStats
          elo,         \* PvPDataKey::EloRating
          active,      \* PvPDataKey::LastActive
          history      \* PvPDataKey::CombatHistory: ids, per player

vars == <<now, challenges, combats, stats, elo, active, history>>

NoOne == "none"

Challenge == [challenger : Player, opponent : Player, expires_at : Nat,
              status : {"pending", "accepted", "declined", "expired"}]
CombatState == [player : [1 .. 2 -> Player], hp : [1 .. 2 -> 0 .. MaxHp],
                energy : [1 .. 2 -> Nat], turn : Player,
                status : {"active", "finished", "cancelled"},
                winner : Player \cup {NoOne}, started_at : Nat, moves : Nat]

Init ==
  /\ now = 1
  /\ challenges = << >>
  /\ combats = << >>
  /\ stats = [p \in Player |-> [wins |-> 0, losses |-> 0, draws |-> 0, combat_count |-> 0]]
  /\ elo = [p \in Player |-> InitialElo]
  /\ active = [p \in Player |-> 0]
  /\ history = [p \in Player |-> << >>]

Tick ==
  /\ now < MaxTime
  /\ now' = now + 1
  /\ UNCHANGED <<challenges, combats, stats, elo, active, history>>

\* decay_elo: the rating after decay, for a player last active at `seen`.
Decayed(rating, seen) ==
  LET idle == now - seen
      lost == DecayPoints * (idle \div Inactivity)
  IN  IF seen = 0 \/ idle < Inactivity THEN rating
      ELSE Max({rating - lost, DecayFloor})

\* load_stats_with_elo of each player of S in turn: decayed ratings, all of
\* them now active.
Loaded(S) == [p \in Player |-> IF p \in S THEN Decayed(elo[p], active[p]) ELSE elo[p]]
Active(S) == [p \in Player |-> IF p \in S THEN now ELSE active[p]]

\* apply_elo_decay, and one player of apply_batch_elo_decay
ApplyEloDecay(p) ==
  /\ Decayed(elo[p], active[p]) # elo[p]
  /\ elo' = Loaded({p})
  /\ active' = Active({p})
  /\ UNCHANGED <<now, challenges, combats, stats, history>>

\* create_challenge: loads the opponent's stats, which decays their rating
\* and marks them active, as it does the challenger.
CreateChallenge(challenger, opponent) ==
  /\ Len(challenges) < MaxChallenges
  /\ elo' = Loaded({opponent})
  /\ active' = Active({challenger, opponent})
  /\ challenges' = Append(challenges,
       [challenger |-> challenger, opponent |-> opponent, status |-> "pending",
        expires_at |-> now + ChallengeExpiry])
  /\ UNCHANGED <<now, combats, stats, history>>

\* start_combat: who moves first depends on the parity of the clock.
NewCombat(p1, p2) ==
  [player |-> <<p1, p2>>, hp |-> <<MaxHp, MaxHp>>, energy |-> <<MaxEnergy, MaxEnergy>>,
   turn |-> IF now % 2 = 0 THEN p1 ELSE p2, status |-> "active", winner |-> NoOne,
   started_at |-> now, moves |-> 0]

\* accept_challenge: start_combat loads both players' stats, but by then both
\* have just been marked active, so nothing decays.
AcceptChallenge(caller, id) ==
  LET c == challenges[id]
      count(p) == Cardinality({i \in 1 .. 2 : <<c.challenger, caller>>[i] = p})
  IN  /\ c.opponent = caller
      /\ c.status = "pending"
      /\ now <= c.expires_at
      /\ challenges' = [challenges EXCEPT ![id].status = "accepted"]
      /\ combats' = Append(combats, NewCombat(c.challenger, caller))
      /\ stats' = [p \in Player |-> [stats[p] EXCEPT !.combat_count = @ + count(p)]]
      /\ active' = Active({caller, c.challenger})
      /\ UNCHANGED <<now, elo, history>>

\* decline_challenge: either party, whatever the status.
DeclineChallenge(caller, id) ==
  /\ caller \in {challenges[id].opponent, challenges[id].challenger}
  /\ challenges' = [challenges EXCEPT ![id].status = "declined"]
  /\ UNCHANGED <<now, combats, stats, elo, active, history>>

\* calculate_elo_change: external (libm). The two changes are the same number,
\* larger for a winner rated below the loser.
EloChange(winner, loser) ==
  CASE winner < loser -> 3 [] winner = loser -> 2 [] winner > loser -> 1

SatSub(a, b) == IF a > b THEN a - b ELSE 0

\* end_combat. The change is always computed as if player 1 had won. Stats and
\* ratings are written for player 1 first, then for player 2, which matters
\* when they are the same.
EndCombat(c, w) ==
  LET p1 == c.player[1]
      p2 == c.player[2]
      winner == c.player[w]
      loser == c.player[3 - w]
      loaded == Loaded({p1, p2})
      change == EloChange(loaded[p1], loaded[p2])
      won == [loaded EXCEPT ![winner] = loaded[winner] + change]
      first == [stats EXCEPT ![p1] = IF w = 1 THEN [@ EXCEPT !.wins = @ + 1]
                                              ELSE [@ EXCEPT !.losses = @ + 1]]
  IN  /\ elo' = [won EXCEPT ![loser] = SatSub(loaded[loser], change)]
      /\ stats' = [first EXCEPT ![p2] = IF w = 1 THEN [stats[p2] EXCEPT !.losses = @ + 1]
                                                ELSE [stats[p2] EXCEPT !.wins = @ + 1]]
      /\ active' = Active({p1, p2})

\* Mutant: the history of the second player is not written.
RecordedOnce(c, id) ==
  [p \in Player |-> history[p] \o IF c.player[1] = p THEN <<id>> ELSE << >>]

\* record_combat_history, for each of the two players
Recorded(c, id) ==
  [p \in Player |-> history[p] \o
     [i \in 1 .. Cardinality({k \in 1 .. 2 : c.player[k] = p}) |-> id]]

\* The hit points and energy after a move of power n by side `me`, who pays
\* half the power in energy.
Moved(c, me, move, n) ==
  LET paid == [c EXCEPT !.energy[me] = @ - n \div 2, !.moves = @ + 1]
  IN  CASE move = "attack"  -> [paid EXCEPT !.hp[3 - me] = SatSub(@, n)]
        [] move = "special" -> [paid EXCEPT !.hp[3 - me] = SatSub(@, 2 * n)]
        [] move = "defend"  -> [paid EXCEPT !.energy[me] = @ + DefendGain]
        [] move = "heal"    -> [paid EXCEPT !.hp[me] = Min({@ + n \div 2, MaxHp})]

\* Mutant: the combat's status is not looked at.
ExecuteMoveAnytime(player, id, move, power) ==
  LET c == combats[id]
      me == IF player = c.player[1] THEN 1 ELSE 2
      after == Moved(c, me, move, power)
  IN  /\ c.moves < MaxDepth
      /\ c.turn = player
      /\ now <= c.started_at + CombatTimeout
      /\ c.energy[me] >= power \div 2
      /\ IF after.hp[3 - me] = 0
         THEN /\ combats' = [combats EXCEPT ![id] = [after EXCEPT !.winner = c.player[me],
                                                      !.status = "finished"]]
              /\ EndCombat(c, me)
              /\ history' = Recorded(c, id)
         ELSE /\ combats' = [combats EXCEPT ![id] = [after EXCEPT !.turn = c.player[3 - me]]]
              /\ active' = Active({player})
              /\ UNCHANGED <<stats, elo, history>>
      /\ UNCHANGED <<now, challenges>>

\* execute_move. A player who fights themself is always side 1.
ExecuteMove(player, id, move, power) ==
  LET c == combats[id]
      me == IF player = c.player[1] THEN 1 ELSE 2
      after == Moved(c, me, move, power)
  IN  /\ c.status = "active"
      /\ c.moves < MaxDepth
      /\ c.turn = player
      /\ now <= c.started_at + CombatTimeout
      /\ c.energy[me] >= power \div 2
      /\ IF after.hp[3 - me] = 0
         THEN /\ combats' = [combats EXCEPT ![id] = [after EXCEPT !.winner = c.player[me],
                                                      !.status = "finished"]]
              /\ EndCombat(c, me)
              /\ history' = Recorded(c, id)
         ELSE /\ combats' = [combats EXCEPT ![id] = [after EXCEPT !.turn = c.player[3 - me]]]
              /\ active' = Active({player})
              /\ UNCHANGED <<stats, elo, history>>
      /\ UNCHANGED <<now, challenges>>

Move == {"attack", "special", "defend", "heal"}

Next ==
  \/ Tick
  \/ \E p, q \in Player : CreateChallenge(p, q)
  \/ \E p \in Player, id \in DOMAIN challenges :
       AcceptChallenge(p, id) \/ DeclineChallenge(p, id)
  \/ \E p \in Player, id \in DOMAIN combats, m \in Move, n \in Power : ExecuteMove(p, id, m, n)
  \/ \E p \in Player : ApplyEloDecay(p)

Spec == Init /\ [][Next]_vars
FairSpec == Spec /\ WF_vars(Next)

\* Types: in particular hit points stay within MAX_HP.
TypeOK ==
  /\ challenges \in Seq(Challenge)
  /\ combats \in Seq(CombatState)
  /\ elo \in [Player -> Nat]
  /\ active \in [Player -> 0 .. MaxTime]

Plays(p, c) == p \in {c.player[1], c.player[2]}
Finished == {id \in DOMAIN combats : combats[id].status = "finished"}


\* A challenge starts at most one combat (accept_challenge).
OneCombatPerChallenge == Len(combats) <= Len(challenges)

\* A finished combat has a winner who stands and a loser who does not, and
\* nothing in it changes any more (execute_move).
FinishedIsFinal ==
  [][\A id \in Finished :
       /\ combats'[id] = combats[id]
       /\ \E k \in 1 .. 2 : combats[id].winner = combats[id].player[k]
                              /\ combats[id].hp[k] > 0 /\ combats[id].hp[3 - k] = 0]_vars

TimedOut(id) ==
  id <= Len(combats) /\ combats[id].status = "active" /\ now > combats[id].started_at + CombatTimeout

\* status is "active", "finished" or "cancelled" (src/pvp_combat.rs:134), and
\* execute_move cancels a combat that is past its timeout: such a combat does
\* not stay active for ever.
TimedOutCombatsEnd ==
  \A id \in 1 .. MaxChallenges : TimedOut(id) ~> ~TimedOut(id)
=============================================================================
