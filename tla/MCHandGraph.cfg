SPECIFICATION FairSpec
CONSTANTS
  r1 = r1
  r2 = r2
  r3 = r3
  Rects = {r1, r2, r3}
  Near <- MCNear
  Settings <- MCSettings
  MaxFrames = 3
  NoPacket = NoPacket
INVARIANTS
  PreviousHands
  NoOverlaps
  BatchesComplete
PROPERTIES
  EveryImageAnswered
  GraphCloses
CHECK_DEADLOCK FALSE
