CONSTANTS
  alice = alice
  bob = bob
  carol = carol
  adm = adm
  Address = {alice, bob}
  UnpauseDelay = 2
  MaxTime = 6
  Guarded = {claim_yield, dissolve_bond}
  Plain = {send_gift}
SPECIFICATION SafetySpec
INVARIANTS PaidOnceWhenMature OneGuardedSection CountsActiveSessions WhaleLimitsHold  AccessAccounted
PROPERTIES PauseLastsDelay LockReleased
\* Ids, units and time are bounded, so a behaviour may end.
CHECK_DEADLOCK FALSE
