SPECIFICATION Spec
CONSTANTS
  Programs <- TestPrograms
  Fragile <- FragileConstructors
INVARIANTS PointersValid NothingLost LoadedEqualsSaved
