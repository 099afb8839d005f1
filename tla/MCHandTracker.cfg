SPECIFICATION FairSpec
CONSTANTS
  Hands = {"open"}
  NoHand = NoHand
  Landmarks <- MCLandmarks
  Width = 8
  Height = 6
  WindowX = 16
  WindowY = 9
  CameraMayFail = TRUE
INVARIANTS
  TypeOK
  ReadsOneHand
  PublishesCurrentImage
  JoinedBeforeDestruction
  NoShotWithoutHand
PROPERTIES
  ClosingEnds
  LoopKeepsPolling
