CONSTANTS
  k1 = k1
  k2 = k2
  k3 = k3
  k4 = k4
  Keys = {k1, k2, k3, k4}
  Data = {d1, d2}
  NULL = NULL
  Hash <- CollidingHash
  InitialCapacity = 2
  MallocMayFail = TRUE
  MaxCapacity = 8
SPECIFICATION Spec
INVARIANTS TypeOK ProbesEnd LengthCounts MovesOnce
PROPERTIES Implements
