SPECIFICATION Spec
CONSTANTS
    Ids = {a, b}
    Openers = {o1}
    Versions <- BeforeV7
    Exclusive = TRUE
    MaxRowid = 2
SYMMETRY Symmetry
INVARIANT VersionHonest
