SPECIFICATION FairSpec
CONSTANTS
    Producers = {p1, p2}
    Flusher = flusher
    NoThread = none
    Replicated = FALSE
    FlushEvery = 2
    WriteFaults = FALSE
    SyncFaults = FALSE
    MaxWrites = 3
    MaxRolls = 1
PROPERTIES
    ImplementsDurableLog
    EventuallyDurableUntilRoll
