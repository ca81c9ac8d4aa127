SPECIFICATION FairSpec
CONSTANTS
  Loggers = {l1, l2}
  Nobody = Nobody
  Destructor = Destructor
  BufMaxLen = 2
  Sizes = {1, 2}
  MaxBatch = 2
  Kept = 1
  MaxLines = 4
INVARIANTS LinesAccounted WrittenInOrder
PROPERTY BufferedIsWritten
CHECK_DEADLOCK FALSE
