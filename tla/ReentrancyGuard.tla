-------------------------- MODULE ReentrancyGuard --------------------------
(***************************************************************************)
(* src/reentrancy_guard.rs: the contract-wide lock that with_guard holds   *)
(* around the value-moving entry points.  A transaction is a stack of      *)
(* entry points in progress: any of them may call out and so be re-entered *)
(* through any other.  The host rolls back the storage writes of a call    *)
(* that traps, the lock flag among them, and meters the whole transaction. *)
(***************************************************************************)
EXTENDS Naturals, Sequences, FiniteSets, SequencesExt, FiniteSetTheorems,
        SequenceTheorems, TLAPS

CONSTANTS Guarded,    \* entry points whose body runs inside with_guard
          Plain,      \* entry points whose body does not
          MaxCalls    \* the host's budget: calls one transaction can make

VARIABLES lock,    \* GuardKey::ReentrancyLock
          frames,  \* entry points in progress, outermost first
          budget,  \* calls the transaction can still make
          result   \* what the last finished call returned

vars == <<lock, frames, budget, result>>

EntryPoint == Guarded \cup Plain
Frame == [entry : EntryPoint, guarded : BOOLEAN, saved : BOOLEAN]

Init ==
  /\ lock = FALSE
  /\ frames = << >>
  /\ budget = MaxCalls
  /\ result = "none"

\* acquire and the start of the body
Acquire(e) ==
  /\ ~lock
  /\ lock' = TRUE
  /\ frames' = Append(frames, [entry |-> e, guarded |-> TRUE, saved |-> lock])
  /\ UNCHANGED result

\* Mutant: a rejected caller releases the lock on its way out.
RejectReleasing(e) ==
  /\ lock
  /\ result' = "ReentrantCall"
  /\ lock' = FALSE
  /\ UNCHANGED frames

\* acquire fails: with_guard returns ReentrantCall and touches nothing.
Reject(e) ==
  /\ lock
  /\ result' = "ReentrantCall"
  /\ UNCHANGED <<lock, frames>>

\* The budget belongs to a transaction: the next one starts afresh.
Refill(stack, b) == IF stack = << >> THEN MaxCalls ELSE b

\* An entry point is called, by a transaction or from inside another call.
Call(e) ==
  /\ budget > 0
  /\ IF e \in Guarded
     THEN Acquire(e) \/ Reject(e)
     ELSE /\ frames' = Append(frames, [entry |-> e, guarded |-> FALSE, saved |-> lock])
          /\ UNCHANGED <<lock, result>>
  /\ budget' = Refill(frames', budget - 1)

\* Mutant: the lock is released on success only.
ReturnReleasingOk(r) ==
  /\ frames # << >>
  /\ frames' = Front(frames)
  /\ lock' = IF Last(frames).guarded /\ r = "ok" THEN FALSE ELSE lock
  /\ budget' = Refill(Front(frames), budget)
  /\ result' = r

\* The innermost body returns, Ok or Err, and with_guard releases the lock.
Return(r) ==
  /\ frames # << >>
  /\ frames' = Front(frames)
  /\ lock' = IF Last(frames).guarded THEN FALSE ELSE lock
  /\ budget' = Refill(Front(frames), budget)
  /\ result' = r

\* The innermost call traps: the host restores the storage it started from.
Trap ==
  /\ frames # << >>
  /\ frames' = Front(frames)
  /\ lock' = Last(frames).saved
  /\ budget' = Refill(Front(frames), budget)
  /\ result' = "trap"

Finish == Trap \/ \E r \in {"ok", "err"} : Return(r)

Next == Finish \/ \E e \in EntryPoint : Call(e)

\* A metered transaction runs to its end: every call in progress returns or traps.
Fairness == WF_vars(Finish)

Spec == Init /\ [][Next]_vars /\ Fairness
-----------------------------------------------------------------------------
\* Type invariant.
TypeOK ==
  /\ lock \in BOOLEAN
  /\ frames \in Seq(Frame) /\ Len(frames) <= MaxCalls
  /\ budget \in 0 .. MaxCalls
  /\ result \in {"none", "ok", "err", "trap", "ReentrantCall"}

GuardedFrames == {i \in DOMAIN frames : frames[i].guarded}

\* At most one guarded section is in progress, however calls nest, fail or trap,
\* and the flag tells whether there is one.
OneGuardedSection ==
  /\ Cardinality(GuardedFrames) <= 1
  /\ lock <=> GuardedFrames # {}

\* "a failed guarded call can never leave the contract permanently locked": the
\* lock, once taken, is released again.
LockReleased == lock ~> ~lock
-----------------------------------------------------------------------------
HasGuarded(stack) == \E i \in 1 .. Len(stack) : stack[i].guarded

\* What holds of the stack: at most one frame is guarded, and a frame has saved
\* whether one of the frames below it is.
WellNested(stack) ==
  /\ stack \in Seq(Frame)
  /\ \A i, j \in 1 .. Len(stack) : stack[i].guarded /\ stack[j].guarded => i = j
  /\ \A j \in 1 .. Len(stack) :
       stack[j].saved <=> \E i \in 1 .. Len(stack) : i < j /\ stack[i].guarded

\* The inductive invariant: the flag says whether some frame is guarded.
GuardInv == lock \in BOOLEAN /\ WellNested(frames) /\ (lock <=> HasGuarded(frames))

\* Entering a call keeps the stack well nested if the new frame is guarded only
\* when none is, and saves whether one is.
LEMMA PushNested ==
  ASSUME NEW stack, WellNested(stack), NEW f \in Frame,
         f.guarded => ~HasGuarded(stack), f.saved <=> HasGuarded(stack)
  PROVE  /\ WellNested(Append(stack, f))
         /\ HasGuarded(Append(stack, f)) <=> f.guarded \/ HasGuarded(stack)
<1> DEFINE top == Append(stack, f)
<1>1. /\ stack \in Seq(Frame) /\ top \in Seq(Frame) /\ Len(top) = Len(stack) + 1
      /\ Len(stack) \in Nat
      /\ \A i \in 1 .. Len(stack) : top[i] = stack[i]
      /\ top[Len(top)] = f
  BY DEF WellNested
<1> HIDE DEF top
<1>2. HasGuarded(top) <=> f.guarded \/ HasGuarded(stack)
  BY <1>1 DEF HasGuarded
<1>3. \A i, j \in 1 .. Len(top) : top[i].guarded /\ top[j].guarded => i = j
  BY <1>1 DEF HasGuarded, WellNested
<1>4. ASSUME NEW j \in 1 .. Len(top)
      PROVE  top[j].saved <=> \E i \in 1 .. Len(top) : i < j /\ top[i].guarded
  <2>1. CASE j = Len(top)
    BY <1>1, <2>1 DEF HasGuarded
  <2>2. CASE j \in 1 .. Len(stack)
    BY <1>1, <2>2 DEF WellNested
  <2> QED
    BY <1>1, <2>1, <2>2
<1> QED
  BY <1>1, <1>2, <1>3, <1>4 DEF WellNested, top

\* Leaving a call keeps the rest well nested, and what the frame saved is
\* whether a guarded frame remains.
LEMMA PopNested ==
  ASSUME NEW stack, WellNested(stack), stack # << >>
  PROVE  /\ WellNested(Front(stack))
         /\ Last(stack).saved <=> HasGuarded(Front(stack))
         /\ Last(stack).guarded => ~HasGuarded(Front(stack))
         /\ ~Last(stack).guarded => (HasGuarded(Front(stack)) <=> HasGuarded(stack))
         /\ Last(stack) \in Frame
<1> DEFINE rest == Front(stack)
           f == Last(stack)
<1>1. /\ stack \in Seq(Frame) /\ rest \in Seq(Frame)
      /\ Len(stack) \in Nat /\ Len(stack) > 0 /\ Len(rest) = Len(stack) - 1
      /\ \A i \in 1 .. Len(rest) : rest[i] = stack[i]
      /\ f = stack[Len(stack)] /\ f \in Frame
  <2>1. stack \in Seq(Frame) /\ Len(stack) \in Nat /\ Len(stack) > 0
    BY DEF WellNested
  <2>2. rest = SubSeq(stack, 1, Len(stack) - 1) /\ f = stack[Len(stack)]
    BY DEF Front, Last
  <2>3. \A i \in 1 .. Len(stack) : stack[i] \in Frame
    BY <2>1
  <2>4. rest \in Seq(Frame) /\ Len(rest) = Len(stack) - 1
    <3> HIDE DEF rest, f
    <3> DEFINE n == Len(stack) - 1
               sub == SubSeq(stack, 1, n)
    <3>1. n \in Nat /\ n \in Int /\ 1 \in Int /\ \A i \in 1 .. n : stack[i] \in Frame
      BY <2>1, <2>3
    <3>2. rest = sub
      BY <2>2
    <3> HIDE DEF n
    <3>3. sub \in Seq(Frame) /\ Len(sub) = IF 1 <= n THEN n - 1 + 1 ELSE 0
      BY <3>1, SubSeqProperties
    <3> HIDE DEF sub
    <3>4. Len(sub) = n
      BY <3>1, <3>3
    <3>5. rest \in Seq(Frame) /\ Len(rest) = n
      BY <3>2, <3>3, <3>4
    <3> QED
      BY <3>5 DEF n
  <2>5. \A i \in 1 .. Len(rest) : rest[i] = stack[i]
    BY <2>1, <2>2, <2>4
  <2> QED
    BY <2>1, <2>2, <2>3, <2>4, <2>5
<1> HIDE DEF rest, f
<1>2. \A i, j \in 1 .. Len(rest) : rest[i].guarded /\ rest[j].guarded => i = j
  BY <1>1 DEF WellNested
<1>3. ASSUME NEW j \in 1 .. Len(rest)
      PROVE  rest[j].saved <=> \E i \in 1 .. Len(rest) : i < j /\ rest[i].guarded
  <2>1. /\ j \in 1 .. Len(stack) /\ rest[j] = stack[j]
        /\ \A i \in 1 .. Len(stack) : i < j => i \in 1 .. Len(rest)
        /\ \A i \in 1 .. Len(rest) : i \in 1 .. Len(stack)
    BY <1>1
  <2>2. stack[j].saved <=> \E i \in 1 .. Len(stack) : i < j /\ stack[i].guarded
    BY <2>1 DEF WellNested
  <2> QED
    BY <1>1, <2>1, <2>2
<1>4. WellNested(rest)
  BY <1>1, <1>2, <1>3 DEF WellNested
<1>5. f.saved <=> HasGuarded(rest)
  BY <1>1 DEF WellNested, HasGuarded
<1>6. f.guarded => ~HasGuarded(rest)
  BY <1>1 DEF WellNested, HasGuarded
<1>7. ~f.guarded => (HasGuarded(rest) <=> HasGuarded(stack))
  BY <1>1 DEF HasGuarded
<1> QED
  BY <1>1, <1>4, <1>5, <1>6, <1>7 DEF rest, f

\* The flag and the stack agree before the first transaction.
LEMMA GuardInit == Init => GuardInv
<1> SUFFICES ASSUME Init
             PROVE  GuardInv
  OBVIOUS
<1>1. ~lock /\ lock \in BOOLEAN /\ frames = << >>
  BY DEF Init
<1>2. frames \in Seq(Frame) /\ Len(frames) = 0
  BY <1>1
<1>3. 1 .. Len(frames) = {}
  BY <1>2
<1> QED
  BY <1>1, <1>2, <1>3 DEF GuardInv, WellNested, HasGuarded

\* A call into an entry point, guarded or not, keeps flag and stack in agreement.
LEMMA GuardCall ==
  ASSUME GuardInv, NEW e \in EntryPoint, Call(e)
  PROVE  GuardInv'
<1>1. CASE Reject(e)
  BY <1>1 DEF Reject, GuardInv
<1>2. ASSUME NEW g \in BOOLEAN, g => ~lock, lock' = (g \/ lock),
             frames' = Append(frames, [entry |-> e, guarded |-> g, saved |-> lock])
      PROVE  GuardInv'
  <2> DEFINE f == [entry |-> e, guarded |-> g, saved |-> lock]
  <2>1. f \in Frame /\ (f.guarded <=> g) /\ (f.saved <=> lock)
    BY DEF Frame, GuardInv
  <2>2. WellNested(frames) /\ (lock <=> HasGuarded(frames)) /\ frames' = Append(frames, f)
    BY <1>2 DEF GuardInv
  <2> HIDE DEF f
  <2>3. /\ WellNested(Append(frames, f))
        /\ HasGuarded(Append(frames, f)) <=> f.guarded \/ HasGuarded(frames)
    BY <1>2, <2>1, <2>2, PushNested
  <2>4. WellNested(frames') /\ (HasGuarded(frames') <=> lock')
    BY <1>2, <2>1, <2>2, <2>3
  <2>5. lock' \in BOOLEAN
    BY <1>2 DEF GuardInv
  <2> QED
    BY <2>4, <2>5 DEF GuardInv, WellNested, HasGuarded
<1>3. CASE Acquire(e)
  BY <1>2, <1>3 DEF Acquire
<1>4. CASE e \notin Guarded
  <2>1. /\ lock' = lock /\ lock \in BOOLEAN
        /\ frames' = Append(frames, [entry |-> e, guarded |-> FALSE, saved |-> lock])
    BY <1>4 DEF Call, GuardInv
  <2> QED
    BY <1>2, <2>1
<1> QED
  BY <1>1, <1>3, <1>4 DEF Call

\* So does leaving one, by returning or by trapping.
LEMMA GuardFinish ==
  ASSUME GuardInv, Finish
  PROVE  GuardInv'
<1>1. /\ frames # << >> /\ frames' = Front(frames)
      /\ \/ lock' = Last(frames).saved
         \/ lock' = IF Last(frames).guarded THEN FALSE ELSE lock
  BY DEF Finish, Trap, Return
<1>2. /\ WellNested(Front(frames))
      /\ Last(frames).saved <=> HasGuarded(Front(frames))
      /\ Last(frames).guarded => ~HasGuarded(Front(frames))
      /\ ~Last(frames).guarded => (HasGuarded(Front(frames)) <=> HasGuarded(frames))
      /\ Last(frames) \in Frame
  BY <1>1, PopNested DEF GuardInv
<1>3. Last(frames).saved \in BOOLEAN /\ lock \in BOOLEAN
  BY <1>2 DEF Frame, GuardInv
<1>4. lock' \in BOOLEAN /\ (lock' <=> HasGuarded(Front(frames)))
  <2>1. CASE lock' = Last(frames).saved
    BY <1>2, <1>3, <2>1
  <2>2. CASE lock' = IF Last(frames).guarded THEN FALSE ELSE lock
    BY <1>2, <1>3, <2>2 DEF GuardInv
  <2> QED
    BY <1>1, <2>1, <2>2
<1> QED
  BY <1>1, <1>2, <1>4 DEF GuardInv, WellNested, HasGuarded

\* Where flag and stack agree, at most one guarded section is in progress.
LEMMA GuardedOnce == GuardInv => OneGuardedSection
<1> SUFFICES ASSUME GuardInv
             PROVE  OneGuardedSection
  OBVIOUS
<1>1. frames \in Seq(Frame) /\ DOMAIN frames = 1 .. Len(frames)
  BY DEF GuardInv, WellNested
<1>2. lock <=> GuardedFrames # {}
  BY <1>1 DEF GuardInv, HasGuarded, GuardedFrames
<1>3. CASE GuardedFrames = {}
  BY <1>2, <1>3, FS_EmptySet DEF OneGuardedSection
<1>4. CASE GuardedFrames # {}
  <2>1. PICK i : i \in GuardedFrames
    BY <1>4
  <2>2. GuardedFrames = {i}
    BY <1>1, <2>1 DEF GuardInv, WellNested, GuardedFrames
  <2>3. Cardinality(GuardedFrames) = 1
    BY <2>2, FS_Singleton
  <2> QED
    BY <1>2, <2>3 DEF OneGuardedSection
<1> QED
  BY <1>3, <1>4

\* with_guard keeps at most one guarded section in progress, and the flag true to
\* it, for every set of entry points, every nesting of calls and every trap.
THEOREM GuardSafe == Spec => []OneGuardedSection
<1>1. GuardInv /\ [Next]_vars => GuardInv'
  <2> SUFFICES ASSUME GuardInv, [Next]_vars
               PROVE  GuardInv'
    OBVIOUS
  <2>1. CASE UNCHANGED vars
    BY <2>1 DEF GuardInv, WellNested, HasGuarded, vars
  <2> QED
    BY <2>1, GuardCall, GuardFinish DEF Next
<1> QED
  BY <1>1, GuardInit, GuardedOnce, PTL DEF Spec
=============================================================================
