SPECIFICATION Spec
CONSTANTS
    Ids = {a, b}
    Conns = {c1, c2}
    Hashes = {h}
    NoId = NoId
    NoHash = NoHash
    Kinds = {k, l}
    NoKind = NoKind
    Calls = {"curated", "delete", "purge", "close"}
    Faults = {}
    MaxTime = 2
    MaxRowid = 2
    MaxMetric = 0
    MaxLinks = 0
SYMMETRY Symmetry
PROPERTY DeletionsAnnounced
