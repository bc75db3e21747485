CONSTANTS
  Batch = 2
  KVHeads = 2
  GQA = 2
  BlockLen = 2
  BlocksPerTask = 2
  Stride = 3
  Blocks = 6
  Threads = 2
  Table <- MixedTable
  Imports <- LongAndShort
  Holes <- SomeHoles
  MaxCalls = 3
SPECIFICATION CacheSpec
INVARIANT Conserved
PROPERTY ImplementsCachedAttention
