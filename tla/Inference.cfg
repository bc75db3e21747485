CONSTANTS
  Layers = 4
  MaxPass = 2
  Batch = {1, 2}
  Steps = 2
  Null = Null
SPECIFICATION InferenceSpec
INVARIANT InputStable
INVARIANT OutputComplete
INVARIANT NoDanglingBuffer
INVARIANT BothComplete
INVARIANT RoutedInputStable
PROPERTY PassCompletes
