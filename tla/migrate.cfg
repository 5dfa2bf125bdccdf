SPECIFICATION Spec
CONSTANTS
    Ids = {a, b}
    Openers = {o1, o2}
    Versions <- AnyVersion
    Exclusive = TRUE
    MaxRowid = 3
SYMMETRY Symmetry
INVARIANTS
    TypeOK
    OpenIsComplete
    IndexFollowsRows
    LinksHaveEnds
PROPERTIES
    MemoriesPreserved
    LinksKept
