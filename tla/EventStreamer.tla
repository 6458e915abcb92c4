--------------------------- MODULE EventStreamer ---------------------------
(***************************************************************************)
(* services/streaming/src/event-streamer.ts: a loop that polls the RPC     *)
(* endpoint for events after a cursor, and hands them to the clients of    *)
(* ConnectionManager.  Requests and answers take time; the contract emits  *)
(* events, and the streamer is stopped and started, in between.  Event n   *)
(* is in ledger n.  A stop leaves a request in flight to finish, so a      *)
(* start may find it still there: `loop` has one entry per start.          *)
(***************************************************************************)
EXTENDS ConnectionManager

CONSTANTS PageLimit,
          EagerRestart,   \* whether start may come while a request is in flight
          MaxStarts, MaxEvents   \* bounds

VARIABLES log,         \* events emitted by the contract (external)
          running, cursor, startLedger, timer,
          starts,      \* calls of start
          loop,        \* the poll loops, by start
          handed       \* events passed to onEvent, in order

streamVars == <<running, cursor, startLedger, timer, starts, loop, handed>>
allVars == <<clientVars, log, streamVars>>

None == -1    \* null
Idle == [at |-> "ended", from |-> None, page |-> << >>, next |-> None]
Waiting == {"latest", "asked", "answered"}

StreamInit ==
  /\ ClientsInit
  /\ log = 0
  /\ running = FALSE /\ cursor = None /\ startLedger = None /\ timer = None
  /\ starts = 0 /\ loop = << >>
  /\ handed = << >>

Emit ==
  /\ log < MaxEvents
  /\ log' = log + 1
  /\ UNCHANGED <<clientVars, streamVars>>

\* fetchEvents up to its first await: resume after the cursor, or from the
\* given ledger, or ask for the latest ledger first.
Asking(c, ledger) ==
  IF c # None THEN [Idle EXCEPT !.at = "asked", !.from = c + 1]
  ELSE IF ledger # None THEN [Idle EXCEPT !.at = "asked", !.from = ledger]
  ELSE [Idle EXCEPT !.at = "latest"]

\* start, with poll up to its first await
Start(ledger) ==
  /\ ~running
  /\ starts < MaxStarts
  /\ EagerRestart \/ \A k \in DOMAIN loop : loop[k].at \notin Waiting
  /\ running' = TRUE
  /\ startLedger' = ledger
  /\ starts' = starts + 1
  /\ loop' = Append(loop, Asking(cursor, ledger))
  /\ UNCHANGED <<clientVars, log, cursor, timer, handed>>

\* stop: the stored timer is cleared, a request in flight is not.
Stop ==
  /\ running
  /\ running' = FALSE
  /\ timer' = None
  /\ loop' = IF timer # None THEN [loop EXCEPT ![timer] = Idle] ELSE loop
  /\ UNCHANGED <<clientVars, log, cursor, startLedger, starts, handed>>

\* The timer of a loop fires.
Poll(k) ==
  /\ loop[k].at = "timer"
  /\ loop' = [loop EXCEPT ![k] = IF running THEN Asking(cursor, startLedger) ELSE Idle]
  /\ UNCHANGED <<clientVars, log, running, cursor, startLedger, timer, starts, handed>>

\* The answer to getLatestLedger
Latest(k) ==
  /\ loop[k].at = "latest"
  /\ loop' = [loop EXCEPT ![k].at = "asked", ![k].from = log]
  /\ UNCHANGED <<clientVars, log, running, cursor, startLedger, timer, starts, handed>>

\* The endpoint answers getEvents (external): a page and the position reached.
Answer(k) ==
  LET first == IF loop[k].from > 0 THEN loop[k].from ELSE 1
      last == IF first + PageLimit - 1 <= log THEN first + PageLimit - 1 ELSE log
      page == [i \in 1 .. (last - first + 1) |-> first + i - 1]
  IN  /\ loop[k].at = "asked"
      /\ loop' = [loop EXCEPT ![k] = [@ EXCEPT !.at = "answered", !.page = page,
                                               !.next = IF page = << >> THEN first - 1 ELSE last]]
      /\ UNCHANGED <<clientVars, log, running, cursor, startLedger, timer, starts, handed>>

\* poll after fetchEvents, done or failed: schedule the next one.
Reschedule(k) ==
  /\ loop' = [loop EXCEPT ![k] = IF running THEN [Idle EXCEPT !.at = "timer"] ELSE Idle]
  /\ timer' = IF running THEN k ELSE timer


\* The answer arrives: each event moves the cursor and is handed on, then the
\* cursor becomes the one of the answer.
Receive(k) ==
  /\ loop[k].at = "answered"
  /\ handed' = handed \o loop[k].page
  /\ cursor' = loop[k].next
  /\ Broadcast(loop[k].page)
  /\ Reschedule(k)
  /\ UNCHANGED <<log, running, startLedger, starts>>

\* A request, or its answer, is lost or malformed.
FailPoll(k) ==
  /\ loop[k].at \in Waiting
  /\ Reschedule(k)
  /\ UNCHANGED <<clientVars, log, running, cursor, startLedger, starts, handed>>

StreamNext ==
  \/ Emit
  \/ \E ledger \in {None, 1} : Start(ledger)
  \/ Stop
  \/ \E k \in DOMAIN loop : Poll(k) \/ Latest(k) \/ Answer(k) \/ Receive(k) \/ FailPoll(k)
  \/ ClientsNext /\ UNCHANGED <<log, streamVars>>

\* Timers fire and the heartbeat runs; an endpoint that is asked again and
\* again answers at last.
StreamFairness ==
  /\ WF_allVars(RunHeartbeat /\ UNCHANGED <<log, streamVars>>)
  /\ \A k \in 1 .. MaxStarts :
       /\ WF_allVars(k \in DOMAIN loop /\ Poll(k))
       /\ SF_allVars(k \in DOMAIN loop /\ Latest(k))
       /\ SF_allVars(k \in DOMAIN loop /\ Answer(k))
       /\ SF_allVars(k \in DOMAIN loop /\ Receive(k))

StreamSpec == StreamInit /\ [][StreamNext]_allVars /\ StreamFairness
-----------------------------------------------------------------------------
\* Type invariant.
StreamTypeOK ==
  /\ ClientsTypeOK
  /\ cursor \in None .. MaxEvents
  /\ \A k \in DOMAIN loop : loop[k].at \in Waiting \cup {"timer", "ended"}
  /\ timer # None => timer \in DOMAIN loop


\* poll: while the streamer runs and the endpoint recovers after failures,
\* every event after the cursor is handed on.
StreamCatchesUp ==
  <>[]running => \A n \in 1 .. MaxEvents :
                   (cursor # None /\ cursor < n /\ n <= log) ~> (\E i \in DOMAIN handed : handed[i] = n)
=============================================================================
