CONSTANTS
  Tensors = {t1, t2, t3, t4}
  NULL = NULL
  MallocMayFail = FALSE
  MaxId = 4
SPECIFICATION Spec
INVARIANTS TypeOK LiveIdsUnique PooledIdsFree IdsAccounted GradientOwnership
PROPERTIES ResetOnlyWhenEmpty
