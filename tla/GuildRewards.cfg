CONSTANTS
  Player = {alice, bob}
  MaxMembers = 2
  DailyGuildCap = 2
  TerritoryCost = 1
  BossCost = 1
  BossReward = 2
  BossXp = 3
  BossHealth = 2
  BossTime = 1
  LevelXp = 2
  DayLength = 2
  Coordinate = {}
  Quests = {}
  Gift = {}
  Damage = {}
  MaxAlliances = 1
  MaxQuests = 0
  MaxContributed = 0
  MaxSpawned = 0
  MaxTime = 2
  Asset = {"ore"}
  StartUnits = 3
  StakeLock = 1
  RewardPrecision = 4
  MaxU32 = 9
  Units = {1, 2}
  MaxOpenings = 3
  MaxAcc = 4
SPECIFICATION StakeSpec
INVARIANTS NothingIsMinted
CHECK_DEADLOCK FALSE
