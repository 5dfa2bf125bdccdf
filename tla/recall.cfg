SPECIFICATION Spec
CONSTANTS
    Ids = {a, b, c}
    Callers = {r1}
    NoId = NoId
    Near <- AllNear
    Workloads <- ThreeWorkloads
    Limit = 1
    PageSize = 1
    MaxNeighbors = 1
    MaxTime = 3
    MaxLinks = 2
SYMMETRY Symmetry
INVARIANTS
    TypeOK
    PagesAddUp
PROPERTIES
    GivenLinksKept
    RelatedCurrent
