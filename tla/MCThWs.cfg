SPECIFICATION FairSpec
CONSTANTS
  QueueLen = 3
  MaxFrames = 2
  AllocFails = TRUE
CHECK_DEADLOCK FALSE
INVARIANTS RingIsDrained
PROPERTIES ConnContract CloseFrameLast ClosingEnds
