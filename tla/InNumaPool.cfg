CONSTANTS
  N = 3
  MaxTasks = 2
SPECIFICATION FairSpec
INVARIANT Quiescent
INVARIANT InitFinalizePaired
PROPERTY ImplementsParallelFor
PROPERTY JobReturns
PROPERTY DtorCompletes
