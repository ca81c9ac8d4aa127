SPECIFICATION FairSpec
CONSTANTS
  Workers = {w1, w2}
  Callers = {c1}
  Tasks = {1, 2}
  Delays = {1, 2}
  Caps = {1, 2}
  Ms = 2
  MaxTime = 3
  NoTask = NoTask
INVARIANTS TaskAccounted NeverEarly
PROPERTIES AcceptedRuns DestructorReturns
CHECK_DEADLOCK FALSE
