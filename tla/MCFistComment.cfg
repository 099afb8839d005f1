SPECIFICATION Spec
CONSTANTS
  Hands = {"fist", "open"}
  NoHand = NoHand
  Landmarks <- MCLandmarks
  Width = 8
  Height = 6
  WindowX = 16
  WindowY = 9
  CameraMayFail = FALSE
INVARIANT FistMeansThumbFarthest
