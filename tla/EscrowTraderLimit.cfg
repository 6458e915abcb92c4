SPECIFICATION Spec
CONSTANTS
  Trader = {alice, bob}
  EscrowExpiry = 1
  MaxConcurrent = 2
  MaxEscrows = 4
  MaxTime = 1
INVARIANT OpenEscrowsWithinLimit
CHECK_DEADLOCK FALSE
