SPECIFICATION Spec
CONSTANTS
    Ids = {a, b}
    Conns = {c1}
    Hashes = {h}
    NoId = NoId
    NoHash = NoHash
    Kinds = {k, l}
    NoKind = NoKind
    Calls = {"capture", "curated", "delete", "purge", "consolidate", "apply_tombstone", "link",
             "mark_synced", "reset_synced",
             "clear_tombstones", "record_tombstone", "close"}
    Faults = {"crash", "statement"}
    MaxTime = 2
    MaxRowid = 2
    MaxMetric = 1
    MaxLinks = 0
SYMMETRY Symmetry
INVARIANTS
    IndexSound
    IndexComplete
PROPERTIES
    DedupeHolds
    ImplementsMemoryVault
