SPECIFICATION Spec
CONSTANTS
  SmallLen = 2
  LargeLen = 4
  MaxBodyLen = 6
  Heads <- SomeHeads
  Bodies <- SomeBodies
  AllocFails = TRUE
CHECK_DEADLOCK FALSE
INVARIANTS TypeOK RecvInBuffer BodyIsRequests HeadBounded InSync
PROPERTIES SaysWhatItDoes SessionSpec
