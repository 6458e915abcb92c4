-------------------------- MODULE ConnectionManager --------------------------
(***************************************************************************)
(* services/streaming/src/connection-manager.ts: the WebSocket clients of  *)
(* the event stream, their subscriptions and the heartbeat.  The handlers  *)
(* are synchronous, so each is one step.  A socket (external) is open,     *)
(* half-open (the peer is gone and nobody knows) or closed.                *)
(***************************************************************************)
EXTENDS Integers, FiniteSets, SequencesExt, Functions, TLC

CONSTANTS Topic,
          TopicOf(_),       \* the topic of an event
          MaxConnections,
          MaxClients        \* bound: clients that ever connect

VARIABLES clients,     \* client id -> subscription and heartbeat flag
          socket,      \* state of the socket of each client id
          nextClientId,
          inbox        \* events sent to each client since it last subscribed

clientVars == <<clients, socket, nextClientId, inbox>>

NotSubscribed == {"null"}

ClientsInit ==
  /\ clients = << >>
  /\ socket = [c \in 1 .. MaxClients |-> "closed"]
  /\ nextClientId = 0
  /\ inbox = [c \in 1 .. MaxClients |-> << >>]

Drop(ids) == clients' = Restrict(clients, DOMAIN clients \ ids)

\* register: a socket above the cap is closed at once.
Register ==
  /\ nextClientId < MaxClients
  /\ Cardinality(DOMAIN clients) < MaxConnections
  /\ nextClientId' = nextClientId + 1
  /\ clients' = (nextClientId' :> [topics |-> NotSubscribed, alive |-> TRUE]) @@ clients
  /\ socket' = [socket EXCEPT ![nextClientId'] = "open"]
  /\ UNCHANGED inbox

\* handleMessage, of a client that is connected
Subscribe(c, topics) ==
  /\ c \in DOMAIN clients /\ socket[c] = "open"
  /\ clients' = [clients EXCEPT ![c].topics = topics]
  /\ inbox' = [inbox EXCEPT ![c] = << >>]
  /\ UNCHANGED <<socket, nextClientId>>

Unsubscribe(c) ==
  /\ c \in DOMAIN clients /\ socket[c] = "open"
  /\ clients[c].topics # NotSubscribed
  /\ clients' = [clients EXCEPT ![c].topics = NotSubscribed]
  /\ UNCHANGED <<socket, nextClientId, inbox>>

\* The handlers of "pong" and of "close"; "error" terminates and does the same.
Pong(c) ==
  /\ c \in DOMAIN clients /\ socket[c] = "open"
  /\ ~clients[c].alive
  /\ clients' = [clients EXCEPT ![c].alive = TRUE]
  /\ UNCHANGED <<socket, nextClientId, inbox>>

Close(c) ==
  /\ c \in DOMAIN clients /\ socket[c] = "open"
  /\ socket' = [socket EXCEPT ![c] = "closed"]
  /\ Drop({c})
  /\ UNCHANGED <<nextClientId, inbox>>

\* The network loses a peer without a close (external).
HalfOpen(c) ==
  /\ c \in DOMAIN clients /\ socket[c] = "open"
  /\ socket' = [socket EXCEPT ![c] = "half-open"]
  /\ UNCHANGED <<clients, nextClientId, inbox>>

\* runHeartbeat: who has not answered the last ping is terminated, the others
\* are pinged.
RunHeartbeat ==
  LET dead == {c \in DOMAIN clients : ~clients[c].alive}
  IN  /\ clients # << >>
      /\ clients' = [c \in DOMAIN clients \ dead |-> [clients[c] EXCEPT !.alive = FALSE]]
      /\ socket' = [c \in DOMAIN socket |-> IF c \in dead THEN "closed" ELSE socket[c]]
      /\ UNCHANGED <<nextClientId, inbox>>

\* matches: no topics means all of them.
Matches(topics, event) == topics = {} \/ TopicOf(event) \in topics

\* broadcast of events, one after the other, to the subscribed clients; a
\* half-open socket still looks open to the server.
Broadcast(events) ==
  /\ inbox' = [c \in DOMAIN inbox |->
       IF c \in DOMAIN clients /\ clients[c].topics # NotSubscribed
       THEN inbox[c] \o SelectSeq(events, LAMBDA e : Matches(clients[c].topics, e))
       ELSE inbox[c]]
  /\ UNCHANGED <<clients, socket, nextClientId>>

ClientsNext ==
  \/ Register
  \/ \E c \in 1 .. MaxClients :
       \/ \E topics \in SUBSET Topic : Subscribe(c, topics)
       \/ Unsubscribe(c) \/ Pong(c) \/ Close(c) \/ HalfOpen(c)
  \/ RunHeartbeat
-----------------------------------------------------------------------------
\* The part of the type invariant about the clients.
ClientsTypeOK ==
  /\ DOMAIN clients \subseteq 1 .. nextClientId
  /\ Cardinality(DOMAIN clients) <= MaxConnections
  /\ \A c \in DOMAIN clients : socket[c] # "closed"

\* runHeartbeat: a client whose peer has gone silently is removed.
HalfOpenReaped == \A c \in 1 .. MaxClients : socket[c] = "half-open" ~> c \notin DOMAIN clients
=============================================================================
