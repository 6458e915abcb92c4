--------------------------- MODULE SessionManager ---------------------------
(***************************************************************************)
(* src/session_manager.rs: timed exploration sessions, capped per player   *)
(* by a counter kept beside the session records.                           *)
(***************************************************************************)
EXTENDS Naturals, Sequences, FiniteSets

CONSTANTS Player,
          SessionTtl,   \* SESSION_TTL
          MaxPerPlayer, \* MAX_SESSIONS_PER_PLAYER
          MaxSessions,  \* bound: sessions ever started
          MaxTime       \* bound: ledger timestamp

VARIABLES sessions,     \* SessionKey::Session; SessionCount is its length
          playerCount,  \* SessionKey::PlayerSessionCount
          now

vars == <<sessions, playerCount, now>>

Session == [owner : Player, expires_at : Nat, active : BOOLEAN]

Init ==
  /\ sessions = << >>
  /\ playerCount = [p \in Player |-> 0]
  /\ now = 0

\* start_session
StartSession(owner) ==
  /\ Len(sessions) < MaxSessions
  /\ playerCount[owner] < MaxPerPlayer
  /\ sessions' = Append(sessions, [owner |-> owner, expires_at |-> now + SessionTtl,
                                   active |-> TRUE])
  /\ playerCount' = [playerCount EXCEPT ![owner] = @ + 1]
  /\ UNCHANGED now

\* Mutant: the caller's counter is decremented instead of the owner's.
ExpireSessionOfCaller(caller, id) ==
  /\ sessions[id].active
  /\ caller = sessions[id].owner \/ sessions[id].expires_at <= now
  /\ sessions' = [sessions EXCEPT ![id].active = FALSE]
  /\ playerCount' = [playerCount EXCEPT ![caller] = IF @ > 0 THEN @ - 1 ELSE @]
  /\ UNCHANGED now

\* expire_session: the owner at any time, anybody else once the TTL has passed.
ExpireSession(caller, id) ==
  /\ sessions[id].active
  /\ caller = sessions[id].owner \/ sessions[id].expires_at <= now
  /\ sessions' = [sessions EXCEPT ![id].active = FALSE]
  /\ playerCount' = [playerCount EXCEPT ![sessions[id].owner] = IF @ > 0 THEN @ - 1 ELSE @]
  /\ UNCHANGED now

Tick ==
  /\ now < MaxTime
  /\ now' = now + 1
  /\ UNCHANGED <<sessions, playerCount>>

Next ==
  \/ \E p \in Player : \/ StartSession(p)
                       \/ \E id \in DOMAIN sessions : ExpireSession(p, id)
  \/ Tick

Spec == Init /\ [][Next]_vars
-----------------------------------------------------------------------------
\* Type invariant.
TypeOK ==
  /\ sessions \in Seq(Session) /\ Len(sessions) <= MaxSessions
  /\ playerCount \in [Player -> 0 .. MaxPerPlayer]
  /\ now \in 0 .. MaxTime

ActiveOf(p) == {id \in DOMAIN sessions : sessions[id].owner = p /\ sessions[id].active}

\* The counter that enforces the cap is the number of the player's active
\* sessions, whoever closes them: a double or misdirected decrement would let a
\* player exceed the cap, a missed one would lock the player out.
CountsActiveSessions ==
  \A p \in Player : playerCount[p] = Cardinality(ActiveOf(p))
=============================================================================
