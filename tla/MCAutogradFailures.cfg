CONSTANTS
  MaxTensors = 3
  MaxPrevious = 2
  Operations = {"reduction", "binary", "ternary"}
  LeafKinds <- AllLeaves
  MaxFailures = 1
SPECIFICATION Spec
INVARIANTS NoUseAfterFree GradientsComplete
CHECK_DEADLOCK FALSE
