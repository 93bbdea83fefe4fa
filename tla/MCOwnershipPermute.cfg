SPECIFICATION Spec
CONSTANTS
  Calls <- NegativePermutation
  Layers <- TestLayers
  Fragile <- FragileProcedures
INVARIANTS GradientsFit
