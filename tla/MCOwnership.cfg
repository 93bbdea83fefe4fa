SPECIFICATION Spec
CONSTANTS
  Calls <- TestCalls
  Layers <- TestLayers
  Fragile <- FragileProcedures
INVARIANTS NoUseAfterFree NoNullDereference NothingLost ModeRestored GradientsReachInputs GradientsFit
