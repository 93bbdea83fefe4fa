CONSTANTS
  MaxTensors = 4
  MaxPrevious = 1
  Operations = {"structure", "binary"}
  LeafKinds <- AllLeaves
  MaxFailures = 0
SPECIFICATION Spec
INVARIANTS TypeOK NoUseAfterFree OperandsBelow GradientsComplete NoNullGradient NoOrphans
PROPERTIES BackwardTerminates BackwardProgresses
CHECK_DEADLOCK FALSE
