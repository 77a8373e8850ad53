SPECIFICATION FairSpec
CONSTANTS
  MaxRead = 2
  MaxWrite = 4
  Chunk = 2
  AllocFails = TRUE
  MaxRecord = 2
  MaxLen = 3
CHECK_DEADLOCK FALSE
INVARIANTS TypeOK ReportsExact OutputGoesFirst RoomWhenNeeded
PROPERTY Flushes
