SPECIFICATION Spec
CONSTANTS
    Ids = {a, b}
    Faults = {"reopen"}
    BatchLimit = 1
    MaxTime = 2
INVARIANT NothingStranded
