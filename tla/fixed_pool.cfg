SPECIFICATION FairSpec
CONSTANTS
  w1 = w1  w2 = w2  c1 = c1  c2 = c2
  t1 = t1  t2 = t2  t3 = t3  t4 = t4  t5 = t5
  NoTask = NoTask
  Workers = {w1, w2}
  Callers = {c1, c2}
  Tasks = {t1, t2, t3, t4, t5}
  Child <- TwoChildren
  MaxSizes = {1, 2}
INVARIANT NoEmptyTask
PROPERTIES ImplementsExecutor Progress StopReturns
CHECK_DEADLOCK FALSE
