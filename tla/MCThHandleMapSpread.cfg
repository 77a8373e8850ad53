SPECIFICATION Spec
CONSTANTS
  Fds <- Spread
  Empty = Empty
  AllocFails = FALSE
  MaxCapacity = 16
INVARIANT HandlesArePresent
