SPECIFICATION FairSpec
CONSTANTS
  Px = 1
  FirstWindow <- MCWide
  WindowSizes <- MCOneWindow
  BulletRadius = 1
  BulletSpeed = 3
  FarUp <- MCFarUp
  FarDown = 12
  ShipW = 2
  ShipH = 2
  MaxVelocity = 1
  MinVelocity = 1
  Acceleration = 3
  SlowNum = 1
  SlowDen = 1
  KeyX = 1
  KeyY = 1
  Margin = 1
  FireCooldown = 1
  HandPoints <- MCLeft
  MousePoints = {}
  KeySets <- MCKeySets
  MonsterW = 2
  MonsterH = 2
  RowSizes <- MCTwoRows
  Velocities <- MCUneven
  ClusterCooldown = 2
  InitialLives = 2
  MaxBullets = 2
  DeathCooldown = 2
INVARIANT
  TurnsRound
PROPERTIES
  SweepsBothWays
  Revives
