SPECIFICATION FairSpec
CONSTANTS
  Graphs <- MCGraphs
  AllInputs = {"a", "b"}
  AllWorkers = {"w1", "w2"}
  MaxQueueSize = 1
INVARIANTS
  BooksAreRight
  QueuesBounded
PROPERTY
  CallsReturn
CHECK_DEADLOCK FALSE
