SPECIFICATION Spec
CONSTANTS
    Passphrases = {p, q}
    NoPassphrase = NoPassphrase
    Salts = {s, t}
    Openers = {o1, o2}
    Exclusive = TRUE
SYMMETRY Symmetry
INVARIANTS
    TypeOK
    OwnersReopen
    OpenIsKeyed
PROPERTY MachineKeyKept
