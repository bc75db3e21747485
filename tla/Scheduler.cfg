SPECIFICATION FairSpec
CONSTANTS
  NumQueries = 2
  Requests <- ShortAndLong
  Chunk = 1
  MaxBatch = 3
  PageSize = 5
  TotalPages = 3
INVARIANTS LiveHandles WithinEstimate
PROPERTIES PageHandover Served
