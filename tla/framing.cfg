SPECIFICATION Spec
CONSTANTS
  Base = 4
  CheapPrepend = 1
  InitialSize = 3
  ExtraSize = 2
  MaxLen = 3
  Sendings <- ThreeFrames
  Tails <- ThreeBytes
INVARIANTS BufferSound FramesExact
CHECK_DEADLOCK FALSE
