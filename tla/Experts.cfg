CONSTANT Address = {a1, a2, a3}
CONSTANT small = small
CONSTANT other = other
CONSTANT medium = medium
CONSTANT large = large
CONSTANT Request = {small, other, medium, large}
CONSTANT Nothing = Nothing
CONSTANT TotalSize <- SomeSizes
CONSTANT MaxAllocs = 5
CONSTANT Nodes <- MCNodes
CONSTANT Cores = 3
CONSTANT Configs <- AnyConfigs
CONSTANT NumaCount = 2
CONSTANT Threads = 2
CONSTANT ExpertNum = 4
CONSTANT GpuExperts = {1}
CONSTANT MaxLen = 2
CONSTANT TopK = 2
CONSTANT MStep = 2
CONSTANT GateUpNth = 2
CONSTANT DownNth = 1
CONSTANT DirectBelow = 2
CONSTANT RowBytes = 3
CONSTANT Line = 4
CONSTANT Routes <- SomeRoutes
SPECIFICATION ExpertsSpec
INVARIANT PointersCurrent
INVARIANT OneThreadPerCore
INVARIANT OutputWhole
INVARIANT RegionsApart
