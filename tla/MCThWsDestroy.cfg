SPECIFICATION Spec
CONSTANTS
  QueueLen = 2
  MaxFrames = 2
  AllocFails = FALSE
CHECK_DEADLOCK FALSE
INVARIANT DestroyedIsQuiet
