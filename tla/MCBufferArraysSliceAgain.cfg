CONSTANTS
  NewShapes <- Created
  Targets <- Reached
  SliceAgain = TRUE
  NONE = NONE
  MaxMade = 3
  MaxWrites = 1
SPECIFICATION SpecA
INVARIANT OffsetIsFirst
CHECK_DEADLOCK FALSE
