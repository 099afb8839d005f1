SPECIFICATION Spec
CONSTANTS
  q1 = q1
  q2 = q2
  s1 = s1
  s2 = s2
  Workers = {w1, w2}
  Apps = {a}
  AllSources = {s1, s2}
  Graphs <- MCLateWork
INVARIANT
  QuitsAtRest
CHECK_DEADLOCK FALSE
