SPECIFICATION Spec
CONSTANTS
  NumLayers = 2
  MaxDepth = 2
  MaxBatches = 2
  MaxGraphs = 1
  MaxSteps = 1
INVARIANT
  KernelReadsLora
