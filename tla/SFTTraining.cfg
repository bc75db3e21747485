SPECIFICATION FairSpec
CONSTANTS
  NumLayers = 3
  MaxDepth = 2
  MaxBatches = 5
  MaxGraphs = 2
  MaxSteps = 2
INVARIANTS
  PoolExclusive
  BackwardOwnData
  LoraFresh
  DepthAgrees
PROPERTIES
  PassCompletes
