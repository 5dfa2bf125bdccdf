SPECIFICATION Spec
CONSTANTS
    Ids = {a, b}
    Callers = {r1}
    NoId = NoId
    Near <- AllNear
    Workloads <- LinkWorkload
    Limit = 1
    PageSize = 1
    MaxNeighbors = 1
    MaxTime = 3
    MaxLinks = 2
SYMMETRY Symmetry
INVARIANT LiveSurface
