CONSTANTS
  NewShapes <- Created
  Targets <- Reached
  SliceAgain = FALSE
  NONE = NONE
  MaxMade = 3
  MaxWrites = 1
SPECIFICATION SpecA
INVARIANTS TypeOK CountsMatch InBounds ElementsAgree
CHECK_DEADLOCK FALSE
