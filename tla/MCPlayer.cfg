SPECIFICATION PlayerFairSpec
CONSTANTS
  FirstWindow <- MCFirst
  BulletRadius = 1
  BulletSpeed = 3
  FarUp <- MCFarUp
  FarDown = 24
  Px = 2
  ShipW = 6
  ShipH = 6
  MaxVelocity = 5
  MinVelocity = 1
  Acceleration = 6
  SlowNum = 19
  SlowDen = 20
  KeyX = 3
  KeyY = 2
  Margin = 2
  InitialLives = 1
  WindowSizes <- MCWindows
  FireCooldown = 1
  HandPoints <- MCHandPoints
  MousePoints <- MCMousePoints
  KeySets <- MCKeySets
  MaxBullets = 0
INVARIANT
  ShipInWindow
PROPERTIES
  NeverOvershoots
  Arrives
