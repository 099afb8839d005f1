SPECIFICATION FairSpec
CONSTANTS
  q1 = q1
  q2 = q2
  s1 = s1
  s2 = s2
  Workers = {w1, w2}
  Apps = {a}
  AllSources = {s1, s2}
  Graphs <- MCGraphs
INVARIANTS
  CountIsRight
  QuitsAtRest
  LayersInTurn
  LeavesNothingBehind
PROPERTIES
  IdleWhenTold
  Terminates
CHECK_DEADLOCK FALSE
