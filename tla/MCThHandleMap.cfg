SPECIFICATION Spec
CONSTANTS
  Fds <- Low
  Empty = Empty
  AllocFails = TRUE
  MaxCapacity = 16
CHECK_DEADLOCK FALSE
INVARIANTS TableIsSound LookupIsExact
