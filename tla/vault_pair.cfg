SPECIFICATION Spec
CONSTANTS
    Ids = {a, b}
    Conns = {c1, c2}
    Hashes = {h}
    NoId = NoId
    NoHash = NoHash
    Kinds = {k}
    NoKind = NoKind
    MaxRowid = 2
    MaxMetric = 0
    MaxTime = 2
    MaxLinks = 1
    Calls = {"capture", "delete", "consolidate", "link", "embed", "backfill", "close"}
    Faults = {"crash", "busy"}
SYMMETRY Symmetry
INVARIANTS
    TypeOK
    IndexSound
    IndexComplete
    NewRowFits
    ReferencesLive
PROPERTIES
    DeletionsAnnounced
    ImplementsMemoryVault
