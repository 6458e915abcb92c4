------------------------ MODULE EmergencyControls ------------------------
(***************************************************************************)
(* src/emergency_controls.rs: the emergency pause and its delayed          *)
(* recovery.  Every entry point is one Soroban invocation, so an action is *)
(* a successful call; a call that returns an error or traps is rolled back *)
(* and changes nothing.                                                    *)
(***************************************************************************)
EXTENDS Naturals

CONSTANTS Address,       \* accounts that may call the contract
          UnpauseDelay,  \* UNPAUSE_DELAY
          MaxTime        \* bound on the ledger timestamp

ASSUME EmergencyAssumption == /\ UnpauseDelay \in Nat
                              /\ MaxTime \in Nat

VARIABLES admins,       \* EmergencyKey::Admins; {} until initialised
          paused,       \* EmergencyKey::Paused
          unpauseAt,    \* EmergencyKey::UnpauseAt, NoSchedule when absent
          now,          \* ledger timestamp
          pausedSince   \* history: time at which the current pause began

vars == <<admins, paused, unpauseAt, now, pausedSince>>

\* An absent UnpauseAt is read back as u64::MAX, beyond every timestamp.
NoSchedule == MaxTime + UnpauseDelay + 1

Time == 0 .. MaxTime

Init ==
  /\ admins = {}
  /\ paused = FALSE
  /\ unpauseAt = NoSchedule
  /\ now = 0
  /\ pausedSince = 0

\* initialize_admins: once, with a non-empty list every member of which signs.
InitializeAdmins(list) ==
  /\ admins = {}
  /\ list # {}
  /\ admins' = list
  /\ paused' = FALSE
  /\ UNCHANGED <<unpauseAt, now, pausedSince>>

\* pause_contract: does not look at the flag, and leaves UnpauseAt alone.
PauseContract(admin) ==
  /\ admin \in admins
  /\ paused' = TRUE
  /\ pausedSince' = IF paused THEN pausedSince ELSE now
  /\ UNCHANGED <<admins, unpauseAt, now>>

\* schedule_unpause: restarts the delay each time it is called.
ScheduleUnpause(admin) ==
  /\ admin \in admins
  /\ paused
  /\ unpauseAt' = now + UnpauseDelay
  /\ UNCHANGED <<admins, paused, now, pausedSince>>

\* ExecuteUnpause that forgets to remove UnpauseAt.
ExecuteUnpauseKeepingSchedule(admin) ==
  /\ admin \in admins
  /\ now >= unpauseAt
  /\ paused' = FALSE
  /\ UNCHANGED <<admins, unpauseAt, now, pausedSince>>

\* execute_unpause: does not look at the flag either, only at UnpauseAt.
ExecuteUnpause(admin) ==
  /\ admin \in admins
  /\ now >= unpauseAt
  /\ paused' = FALSE
  /\ unpauseAt' = NoSchedule
  /\ UNCHANGED <<admins, now, pausedSince>>

\* A later ledger closes.
Tick ==
  /\ now < MaxTime
  /\ now' = now + 1
  /\ UNCHANGED <<admins, paused, unpauseAt, pausedSince>>

Next ==
  \/ \E list \in SUBSET Address : InitializeAdmins(list)
  \/ \E admin \in Address : \/ PauseContract(admin)
                            \/ ScheduleUnpause(admin)
                            \/ ExecuteUnpause(admin)
  \/ Tick

Spec == Init /\ [][Next]_vars

-----------------------------------------------------------------------------

\* Type invariant.
TypeOK ==
  /\ admins \subseteq Address
  /\ paused \in BOOLEAN
  /\ unpauseAt \in 0 .. NoSchedule
  /\ now \in Time
  /\ pausedSince \in Time

\* An unpause can be pending only while the contract is paused: execute_unpause
\* never looks at the flag, so a schedule left behind by an earlier pause would
\* lift the next one at once.  The schedule also postdates the pause it lifts.
ScheduleBelongsToPause ==
  unpauseAt # NoSchedule => /\ paused
                            /\ unpauseAt >= pausedSince + UnpauseDelay

\* The contract leaves a pause only once UNPAUSE_DELAY has passed since that
\* pause began, whatever the admins do in between.
PauseLastsDelay ==
  [][paused /\ ~paused' => now >= pausedSince + UnpauseDelay]_vars
=============================================================================
