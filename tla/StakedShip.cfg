CONSTANTS
  alice = alice
  bob = bob
  carol = carol
  ore = ore
  gas = gas
  dust = dust
SPECIFICATION LiquiditySpec
INVARIANTS StakedShipsStay
\* A drained pool or a settled escrow may leave no further call within the bounds.
CHECK_DEADLOCK FALSE
