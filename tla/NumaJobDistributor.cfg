CONSTANT NumaCount = 3
SPECIFICATION FairSpec
INVARIANT NoNullStatus
PROPERTY ImplementsParallelFor
PROPERTY JobReturns
PROPERTY DtorCompletes
