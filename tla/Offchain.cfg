CONSTANTS
  Call = {"mint", "scan"}
  Strategy = "last-write-wins"
  MaxOps = 2
SPECIFICATION OffchainSpec
INVARIANTS ConfirmedOnce 
 
\* Calls, events, starts and crashes are bounded, so a behaviour may end.
CHECK_DEADLOCK FALSE
