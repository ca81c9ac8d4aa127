SPECIFICATION FairSpec
CONSTANTS
  base = base
  io = io
  t1 = t1
  t2 = t2
  Conns = {c1}
  BaseLoop = base
  Pools <- PoolChoices
  Threads = {t1, t2}
  None = None
  MaxMsgs <- Messages
  MaxForce = 1
INVARIANTS FramesIntact SenderOrder FinAfterDrain ChannelOwned DestroyedOnce
PROPERTIES Drained Reclaimed
CHECK_DEADLOCK FALSE
