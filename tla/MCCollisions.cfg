SPECIFICATION Spec
CONSTANTS
  Px = 1
  FirstWindow <- MCFirst
  WindowSizes <- MCTwoWindows
  BulletRadius = 1
  BulletSpeed = 2
  FarUp <- MCFarUp
  FarDown = 17
  ShipW = 2
  ShipH = 2
  MaxVelocity = 1
  MinVelocity = 1
  Acceleration = 3
  SlowNum = 1
  SlowDen = 1
  KeyX = 1
  KeyY = 1
  Margin = 1
  FireCooldown = 1
  HandPoints <- MCHandPoints
  MousePoints = {}
  KeySets <- MCSpace
  MonsterW = 2
  MonsterH = 2
  RowSizes <- MCRowSizes
  Velocities <- MCVelocities
  ClusterCooldown = 1
  InitialLives = 2
  MaxBullets = 2
  DeathCooldown = 2
INVARIANTS
  KillsAddUp
  EdgesTrackMonsters
PROPERTIES
  WeaponKeepsItsRate
  DeathsKeepTheirDistance
