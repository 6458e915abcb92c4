------------------------------ MODULE PvpLobby ------------------------------
(***************************************************************************)
(* src/pvp_combat.rs: the matchmaking queue and the spectators of a        *)
(* combat. The combats themselves are module PvpCombat's; here they only   *)
(* start and end.                                                          *)
(***************************************************************************)
EXTENDS Naturals, Sequences, FiniteSets, SequencesExt

CONSTANTS Player, Combat,
          MaxQueue,       \* MAX_QUEUE_SIZE
          MaxSpectators,  \* MAX_SPECTATORS
          MaxJoins        \* bound: calls of join_matchmaking that succeed

VARIABLES queue,       \* PvPDataKey::MatchmakingQueue
          running,     \* combats whose status is "active"
          spectators,  \* PvPDataKey::Spectators
          joins        \* history: the players that joined, in order, with a mark
                       \* when they left or were matched

vars == <<queue, running, spectators, joins>>

Init ==
  /\ queue = << >>
  /\ running = Combat
  /\ spectators = [c \in Combat |-> << >>]
  /\ joins = << >>

\* The latest join of a player.
Joined(p) == CHOOSE i \in DOMAIN joins : /\ joins[i].player = p
                                         /\ \A j \in DOMAIN joins : joins[j].player = p => j <= i

\* join_matchmaking
JoinMatchmaking(p) ==
  /\ Len(joins) < MaxJoins
  /\ Len(queue) < MaxQueue
  /\ ~Contains(queue, p)
  /\ queue' = Append(queue, p)
  /\ joins' = Append(joins, [player |-> p, gone |-> "no"])
  /\ UNCHANGED <<running, spectators>>

\* leave_matchmaking
LeaveMatchmaking(p) ==
  /\ Contains(queue, p)
  /\ queue' = SelectSeq(queue, LAMBDA q : q # p)
  /\ joins' = [joins EXCEPT ![Joined(p)].gone = "left"]
  /\ UNCHANGED <<running, spectators>>


\* process_matchmaking: takes the first two entries.
ProcessMatchmaking ==
  /\ Len(queue) >= 2
  /\ queue' = SubSeq(queue, 3, Len(queue))
  /\ joins' = [i \in DOMAIN joins |->
                 IF i \in {Joined(queue[1]), Joined(queue[2])}
                 THEN [joins[i] EXCEPT !.gone = "matched"] ELSE joins[i]]
  /\ UNCHANGED <<running, spectators>>

\* execute_move ends a combat; its spectators stay listed.
EndCombat(c) ==
  /\ c \in running
  /\ running' = running \ {c}
  /\ UNCHANGED <<queue, spectators, joins>>

\* add_spectator (one who already watches changes nothing)
AddSpectator(p, c) ==
  /\ c \in running
  /\ Len(spectators[c]) < MaxSpectators
  /\ ~Contains(spectators[c], p)
  /\ spectators' = [spectators EXCEPT ![c] = Append(@, p)]
  /\ UNCHANGED <<queue, running, joins>>

\* remove_spectator
RemoveSpectator(p, c) ==
  /\ Contains(spectators[c], p)
  /\ spectators' = [spectators EXCEPT ![c] = SelectSeq(@, LAMBDA q : q # p)]
  /\ UNCHANGED <<queue, running, joins>>

Next ==
  \/ \E p \in Player : JoinMatchmaking(p) \/ LeaveMatchmaking(p)
  \/ ProcessMatchmaking
  \/ \E c \in Combat : EndCombat(c)
  \/ \E p \in Player, c \in Combat : AddSpectator(p, c) \/ RemoveSpectator(p, c)

Spec == Init /\ [][Next]_vars

\* Types; MAX_QUEUE_SIZE and MAX_SPECTATORS hold.
TypeOK ==
  /\ queue \in Seq(Player) /\ Len(queue) <= MaxQueue
  /\ running \subseteq Combat
  /\ \A c \in Combat : spectators[c] \in Seq(Player) /\ Len(spectators[c]) <= MaxSpectators

\* A player waits at most once, and whoever was matched joined before everyone
\* who still waits, whatever joins, departures and matches came in between
\* (join_matchmaking, leave_matchmaking, process_matchmaking).
MatchedInTurn ==
  /\ IsInjective(queue)
  /\ ToSet(queue) = {joins[i].player : i \in {k \in DOMAIN joins : joins[k].gone = "no"}}
  /\ \A i, j \in DOMAIN joins :
       joins[i].gone = "matched" /\ joins[j].gone = "no" => i < j
=============================================================================
