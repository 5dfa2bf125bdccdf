SPECIFICATION FairSpec
CONSTANTS
    Ids = {a, b}
    Faults = {"lost", "cut", "reopen", "backdated"}
    BatchLimit = 1
    MaxTime = 3
INVARIANTS
    TypeOK
    OnlyKnownStrand
    DeletionsKept
PROPERTIES
    QueuesDrain
    DeviceIsMemoryVault
