SPECIFICATION FairDistSpec
CONSTANTS
  WorldSize = 3
  LayerCount = 2
  Lengths <- UnevenLengths
INVARIANTS
  Matched
  OwnRows
PROPERTIES
  RanksFinish
CHECK_DEADLOCK FALSE
