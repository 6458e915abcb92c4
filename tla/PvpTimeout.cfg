SPECIFICATION FairSpec
CONSTANTS
  Player = {alice, bob}
  Power = {1, 2}
  MaxHp = 3
  MaxEnergy = 1
  DefendGain = 1
  InitialElo = 5
  DecayPoints = 1
  DecayFloor = 4
  Inactivity = 1
  CombatTimeout = 1
  ChallengeExpiry = 1
  MaxTime = 4
  MaxChallenges = 1
  MaxDepth = 2
PROPERTIES TimedOutCombatsEnd
CHECK_DEADLOCK FALSE
