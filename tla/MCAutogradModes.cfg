CONSTANTS
  MaxTensors = 4
  MaxPrevious = 3
  Operations = {"binary"}
  LeafKinds <- ParametersAndData
  MaxFailures = 0
SPECIFICATION Spec
INVARIANTS ModeRestored NoOrphans
CHECK_DEADLOCK FALSE
