SPECIFICATION Spec
CONSTANTS
    Ids = {a}
    Callers = {c1, c2}
    Conns = {w1}
    NoId = NoId
    Workloads <- ThreeWorkloads
    PromoteAt = 2
    Top = 1
    PollLimit = 2
    MaxDay = 3
    MaxEvents = 6
SYMMETRY Symmetry
INVARIANTS
    TypeOK
    DigestPartitions
    RetrievalsBacked
    CursorSkipsNothing
PROPERTY PrunedWereNeglected
