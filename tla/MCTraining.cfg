CONSTANTS
  Blocks <- Network
  Root = "model"
  Epochs = 2
  NumberOfSamples = 9
  BatchSize = 2
  TrainPercent = 50
  ValidPercent = 25
  TestPercent = 25
  Generate = TRUE
  Checkpoint = TRUE
  ClipGradientNorm = TRUE
  MaxFailing = 2
SPECIFICATION Spec
INVARIANTS IterationsStartClean FreshUpdates
