SPECIFICATION FairSpec
CONSTANTS
  Timers = {t1, t2}
  NoTimer = NoTimer
  Intervals = {1}
  MaxTime = 3
  MaxQueued = 2
  Word = 1000
INVARIANTS QueuesAgree Armed
PROPERTIES RunsAsAsked CancelHonoured DueTimersFire
CHECK_DEADLOCK FALSE
