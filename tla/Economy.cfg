CONSTANTS
  alice = alice
  bob = bob
  carol = carol
  dave = dave
  Player = {alice, bob}
  Resource = {dust}
  Admin = {adm}
  Amount = {0, 1, 3}
  TierWidth = 2
  DailyCap = 4
  MintsPerDay = 2
  WindowCalls = 1
  MaxMinted = 4
  BpsDenominator = 6
  MaxFeeBps = 3
  DefaultFeeBps = 2
  FeeBps = {0, 3, 4}
  MaxU64 = 4
  FeeBands <- MCFeeBands
  FlatFee <- MCFlatFee
SPECIFICATION EconomySpec
INVARIANTS LedgerAgrees BracketIsFair    
\* Mints, stakes, gifts and time are bounded, so a behaviour may end.
CHECK_DEADLOCK FALSE
