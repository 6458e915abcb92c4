--------------------- MODULE EmergencyControlsProofs ---------------------
(***************************************************************************)
(* Proofs about EmergencyControls for every set of accounts, every delay   *)
(* and every horizon of ledger time.                                       *)
(***************************************************************************)
EXTENDS EmergencyControls, TLAPS

\* The inductive invariant: typing, what a pending schedule implies, that a
\* pause began in the past, and that nobody can have paused before the admins
\* were set.
Inv ==
  /\ TypeOK
  /\ ScheduleBelongsToPause
  /\ pausedSince <= now
  /\ admins = {} => ~paused

USE EmergencyAssumption DEF EmergencyAssumption

\* The pause state is well typed at the start and nothing is scheduled.
LEMMA InitInv == Init => Inv
<1> SUFFICES ASSUME Init PROVE Inv
  OBVIOUS
<1>1. paused \in BOOLEAN /\ ~paused /\ admins \subseteq Address
  BY Zenon DEF Init
<1>2. /\ unpauseAt \in 0 .. NoSchedule
      /\ now \in Time
      /\ pausedSince \in Time
      /\ pausedSince <= now
  BY DEF Init, NoSchedule, Time
<1>3. unpauseAt = NoSchedule
  BY DEF Init
<1> QED
  BY <1>1, <1>2, <1>3, Zenon DEF Inv, TypeOK, ScheduleBelongsToPause

\* Every entry point of emergency_controls.rs preserves the invariant.
LEMMA NextInv == Inv /\ [Next]_vars => Inv'
<1> SUFFICES ASSUME Inv, [Next]_vars PROVE Inv'
  OBVIOUS
<1> USE DEF Inv, TypeOK, ScheduleBelongsToPause, NoSchedule, Time
<1>1. ASSUME NEW list \in SUBSET Address, InitializeAdmins(list) PROVE Inv'
  BY Zenon, <1>1 DEF InitializeAdmins
<1>2. ASSUME NEW admin \in Address, PauseContract(admin) PROVE Inv'
  BY <1>2 DEF PauseContract
<1>3. ASSUME NEW admin \in Address, ScheduleUnpause(admin) PROVE Inv'
  BY <1>3 DEF ScheduleUnpause
<1>4. ASSUME NEW admin \in Address, ExecuteUnpause(admin) PROVE Inv'
  <2>1. paused' \in BOOLEAN /\ ~paused'
    BY <1>4, Zenon DEF ExecuteUnpause
  <2> QED
    BY <1>4, <2>1 DEF ExecuteUnpause
<1>5. CASE Tick
  BY <1>5 DEF Tick
<1>6. CASE UNCHANGED vars
  BY <1>6 DEF vars
<1> QED
  BY <1>1, <1>2, <1>3, <1>4, <1>5, <1>6 DEF Next

\* emergency_controls.rs: an unpause is pending only during the pause it was
\* scheduled in, and not before its delay.
THEOREM ScheduleSafe == Spec => [](TypeOK /\ ScheduleBelongsToPause)
  BY InitInv, NextInv, PTL DEF Spec, Inv

\* emergency_controls.rs: no sequence of admin calls ends a pause before
\* UNPAUSE_DELAY has passed since it began.
THEOREM PauseDelaySafe == Spec => PauseLastsDelay
<1>1. Inv /\ [Next]_vars => [paused /\ ~paused' => now >= pausedSince + UnpauseDelay]_vars
  <2> SUFFICES ASSUME Inv, Next, paused, ~paused'
               PROVE  now >= pausedSince + UnpauseDelay
    BY DEF vars
  <2> USE DEF Inv, TypeOK, ScheduleBelongsToPause, NoSchedule, Time
  <2>1. ASSUME NEW list \in SUBSET Address, InitializeAdmins(list)
        PROVE  now >= pausedSince + UnpauseDelay
    BY <2>1 DEF InitializeAdmins
  <2>2. ASSUME NEW admin \in Address, ExecuteUnpause(admin)
        PROVE  now >= pausedSince + UnpauseDelay
    BY <2>2 DEF ExecuteUnpause
  <2> QED
    BY Zenon, <2>1, <2>2 DEF Next, PauseContract, ScheduleUnpause, Tick
<1> QED
  BY <1>1, InitInv, NextInv, PTL DEF Spec, PauseLastsDelay
=============================================================================
