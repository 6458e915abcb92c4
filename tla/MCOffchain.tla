----------------------------- MODULE MCOffchain -----------------------------
(***************************************************************************)
(* The programs outside the contract.  They share no state, so a behaviour *)
(* exercises one of them, `focus`:                                         *)
(*   sync     the SDK's offline queue: two calls of one or two methods,    *)
(*            one crash and a network that comes and goes                  *)
(*   stream   the event stream: three events in pages of two, the streamer *)
(*            started twice, one WebSocket client                          *)
(* The part that is not exercised has nothing to do, so the fairness of    *)
(* both parts can be assumed together.                                     *)
(***************************************************************************)
EXTENDS Integers

CONSTANTS Call, Strategy, MaxOps

VARIABLES focus,
          isOnline, calling, ops, created, pc, todo, attempts, confirmed, crashes,
          clients, socket, nextClientId, inbox,
          log, running, cursor, startLedger, timer, starts, loop, handed

Topics(event) == IF event % 2 = 0 THEN "trade" ELSE "ship"

Sync == INSTANCE OfflineSync WITH MaxRetries <- 2, MaxCrashes <- 1

Stream == INSTANCE EventStreamer WITH
  Topic <- {"ship"}, TopicOf <- Topics, MaxConnections <- 1, MaxClients <- 1,
  PageLimit <- 2, EagerRestart <- FALSE, MaxStarts <- 2, MaxEvents <- 3

queueVars == <<isOnline, calling, ops, created, pc, todo, attempts, confirmed, crashes>>
feedVars == <<clients, socket, nextClientId, inbox,
              log, running, cursor, startLedger, timer, starts, loop, handed>>

OffchainInit ==
  /\ focus \in {"sync", "stream"}
  /\ Sync!OfflineInit /\ Stream!StreamInit
  /\ focus = "stream" => ~isOnline

OffchainNext ==
  /\ \/ focus = "sync" /\ Sync!OfflineNext /\ UNCHANGED feedVars
     \/ focus = "stream" /\ Stream!StreamNext /\ UNCHANGED queueVars
  /\ UNCHANGED focus

OffchainSpec ==
  /\ OffchainInit
  /\ [][OffchainNext]_<<focus, queueVars, feedVars>>
  /\ Sync!OfflineFairness
  /\ Stream!StreamFairness
-----------------------------------------------------------------------------
\* sync: across crashes and network changes, what the executor confirmed is not
\* replayed, and no operation is tried more than maxRetries times.
ConfirmedOnce == focus = "sync" => Sync!OfflineTypeOK /\ Sync!ConfirmedOnce


=============================================================================
