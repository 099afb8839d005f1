SPECIFICATION PollerFairSpec
CONSTANTS
  MaxTimestamp = 2
  Batches <- MCBatches
INVARIANTS
  DeliversInOrder
  AskedNeverWaits
PROPERTIES
  NextReturns
  BoundsAreReported
