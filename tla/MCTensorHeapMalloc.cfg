CONSTANTS
  Tensors = {t1, t2, t3}
  NULL = NULL
  MallocMayFail = TRUE
  MaxId = 5
SPECIFICATION Spec
INVARIANTS LiveIdsUnique PoolOutlivesTensors
