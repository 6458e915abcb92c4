----------------------------- MODULE OfflineSync -----------------------------
(***************************************************************************)
(* sdk/src/offline: calls made while offline are kept in storage and       *)
(* replayed by a sync engine when the network is back.  A step is what     *)
(* runs between two awaits; the network, the application and a crash of    *)
(* the process come in between.  Storage survives a crash.                 *)
(***************************************************************************)
EXTENDS Naturals, FiniteSets, SequencesExt, Functions, TLC

CONSTANTS Call,          \* a method with its arguments
          MaxRetries,
          Strategy,      \* "last-write-wins" or "server-priority"
          MaxOps, MaxCrashes   \* bounds

VARIABLES isOnline,
          calling,      \* calls found to be offline, not yet stored
          ops,          \* the operations in storage, by id
          created,      \* operations enqueued so far; an id is also its age
          pc,           \* where sync() is
          todo,         \* the resolved operations still to be replayed, as read
          attempts,     \* executor calls for each id
          confirmed,    \* ids whose executor call returned success
          crashes

storageVars == <<ops, created>>
syncVars == <<pc, todo>>
ghosts == <<attempts, confirmed, crashes>>
offlineVars == <<isOnline, calling, storageVars, syncVars, ghosts>>

OfflineInit ==
  /\ isOnline \in BOOLEAN
  /\ calling = << >>
  /\ ops = << >> /\ created = 0
  /\ pc = "idle" /\ todo = << >>
  /\ attempts = [id \in 1 .. MaxOps |-> 0]
  /\ confirmed = {}
  /\ crashes = 0

\* NetworkStatusMonitor.setOnline
SetOnline(value) ==
  /\ isOnline # value
  /\ isOnline' = value
  /\ UNCHANGED <<calling, storageVars, syncVars, ghosts>>

\* A client method called while offline, up to the await in serializeCaller
CallOffline(c) ==
  /\ ~isOnline
  /\ created + Len(calling) < MaxOps
  /\ calling' = Append(calling, c)
  /\ UNCHANGED <<isOnline, storageVars, syncVars, ghosts>>

\* OperationQueue.enqueue: the network may be back by now.
Enqueue ==
  /\ calling # << >>
  /\ created' = created + 1
  /\ ops' = (created' :> [id |-> created', call |-> Head(calling), status |-> "pending", retryCount |-> 0]) @@ ops
  /\ calling' = Tail(calling)
  /\ UNCHANGED <<isOnline, syncVars, ghosts>>

\* Mutant: an operation that a crash left in the middle is replayed.
ListPendingSyncing(stored) ==
  {id \in DOMAIN stored : stored[id].retryCount < MaxRetries}

\* listPending
ListPending(stored) ==
  {id \in DOMAIN stored :
     \/ stored[id].status = "pending"
     \/ stored[id].status = "failed" /\ stored[id].retryCount < MaxRetries}


\* ConflictResolver.resolve: one operation of each call; the others stay stored.
Resolve(ids) ==
  {id \in ids : \A other \in ids :
     ops[other].call = ops[id].call
       => IF Strategy = "last-write-wins" THEN other <= id ELSE id <= other}

\* sync, begun by the interval timer or by coming online
StartSync ==
  /\ pc = "idle"
  /\ isOnline
  /\ pc' = "list"
  /\ UNCHANGED <<isOnline, calling, storageVars, todo, ghosts>>

\* The list is read and resolved; in an order of the storage's keys.
ReadPending ==
  /\ pc = "list"
  /\ \E order \in SetToSeqs(Resolve(ListPending(ops))) : todo' = [i \in DOMAIN order |-> ops[order[i]]]
  /\ pc' = IF todo' = << >> THEN "idle" ELSE "next"
  /\ UNCHANGED <<isOnline, calling, storageVars, ghosts>>

\* The head of the loop: stop when offline or done, else mark the operation.
Mark ==
  /\ pc = "next" /\ todo # << >> /\ isOnline
  /\ ops' = (Head(todo).id :> [Head(todo) EXCEPT !.status = "syncing"]) @@ ops
  /\ pc' = "execute"
  /\ UNCHANGED <<isOnline, calling, created, todo, ghosts>>

EndSync ==
  /\ pc = "next" /\ (todo = << >> \/ ~isOnline)
  /\ pc' = "idle" /\ todo' = << >>
  /\ UNCHANGED <<isOnline, calling, storageVars, ghosts>>

\* The executor is called; it may report failure of a call that took effect.
Execute ==
  /\ pc = "execute"
  /\ attempts' = [attempts EXCEPT ![Head(todo).id] = @ + 1]
  /\ \/ pc' = "remove" /\ confirmed' = confirmed \cup {Head(todo).id}
     \/ pc' = "fail" /\ UNCHANGED confirmed
  /\ UNCHANGED <<isOnline, calling, storageVars, todo, crashes>>

\* OperationQueue.remove, after success
RemoveConfirmed ==
  /\ pc = "remove"
  /\ ops' = Restrict(ops, DOMAIN ops \ {Head(todo).id})
  /\ pc' = "next" /\ todo' = Tail(todo)
  /\ UNCHANGED <<isOnline, calling, created, ghosts>>

\* A failure is counted and stored, and waited after.
Fail ==
  /\ pc = "fail"
  /\ ops' = (Head(todo).id :> [Head(todo) EXCEPT !.status = "failed", !.retryCount = @ + 1]) @@ ops
  /\ pc' = "next" /\ todo' = Tail(todo)
  /\ UNCHANGED <<isOnline, calling, created, ghosts>>

\* OperationQueue.clear, by the application at any time: an operation being
\* replayed is stored again when it fails.
Clear ==
  /\ ops # << >>
  /\ ops' = << >>
  /\ UNCHANGED <<isOnline, calling, created, syncVars, ghosts>>

\* The process ends and is started again; what is not in storage is gone.
Crash ==
  /\ crashes < MaxCrashes
  /\ crashes' = crashes + 1
  /\ pc' = "idle" /\ todo' = << >> /\ calling' = << >>
  /\ isOnline' \in BOOLEAN
  /\ UNCHANGED <<storageVars, attempts, confirmed>>

SyncStep == StartSync \/ ReadPending \/ Mark \/ EndSync \/ Execute \/ RemoveConfirmed \/ Fail

OfflineNext ==
  \/ \E value \in BOOLEAN : SetOnline(value)
  \/ \E c \in Call : CallOffline(c)
  \/ Enqueue \/ SyncStep \/ Clear \/ Crash

\* The event loop runs what is due, and the interval timer keeps coming.
OfflineFairness == WF_offlineVars(SyncStep)

OfflineSpec == OfflineInit /\ [][OfflineNext]_offlineVars /\ OfflineFairness
-----------------------------------------------------------------------------
\* Type invariant.
OfflineTypeOK ==
  /\ isOnline \in BOOLEAN
  /\ Len(calling) + created <= MaxOps
  /\ DOMAIN ops \subseteq 1 .. created
  /\ \A id \in DOMAIN ops : /\ ops[id].id = id
                            /\ ops[id].status \in {"pending", "syncing", "failed"}
                            /\ ops[id].retryCount \in 0 .. MaxRetries
  /\ pc \in {"idle", "list", "next", "execute", "remove", "fail"}

\* sync, across crashes, network changes and clear: an operation that the
\* executor confirmed is not waiting to be replayed, and none is tried more
\* than maxRetries times.
ConfirmedOnce ==
  /\ \A id \in confirmed : id \notin ListPending(ops)
  /\ \A i, j \in DOMAIN todo : i < j => todo[i].id # todo[j].id
  /\ pc \in {"next", "execute"} => \A i \in DOMAIN todo : todo[i].id \notin confirmed
  /\ \A id \in 1 .. MaxOps : attempts[id] <= MaxRetries

\* The timer, the retries and the conflict rule together: once the network
\* stays up, an operation that waits does not wait for ever; it is confirmed,
\* gives up after maxRetries, is cleared, or a crash leaves it marked.
QueueDrains ==
  <>[]isOnline => \A id \in 1 .. MaxOps : id \in ListPending(ops) ~> id \notin ListPending(ops)
=============================================================================
