SPECIFICATION FairSpec
CONSTANTS
  MaxTimestamp = 1
  w1 = w1
  w2 = w2
  AllWorkers = {w1, w2}
  Nodes <- MCNodes
  FedTimes = {0, 1}
INVARIANTS
  NoCheckFails
  InputSetsComplete
  NothingStranded
PROPERTIES
  FiltersInOrder
  Closes
CHECK_DEADLOCK FALSE
