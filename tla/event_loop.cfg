SPECIFICATION LoopFairSpec
CONSTANTS
  LoopThreads = {t1, t2}
  Functors = {f1, f2, f3, f4}
INVARIANTS NoLostWakeup
PROPERTIES QuitEnds LoopIsExecutor
CHECK_DEADLOCK FALSE
