SPECIFICATION FairSpec
CONSTANTS
    Tasks = {t1, t2}
    Ids = {a, b}
    Codes = {x, y, z}
    Relations = {r}
    NoTask = NoTask
    NoId = NoId
    NoCode = NoCode
    NoRelation = NoRelation
    MaxEntries = 2
    MaxAssociations = 1
    WarmLimit = 2
INVARIANTS
    TypeOK
    AssociationsBacked
    WithinLimits
PROPERTY
    CallsReturn
