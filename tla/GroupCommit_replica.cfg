SPECIFICATION Spec
CONSTANTS
    Producers = {p1, p2}
    Flusher = flusher
    NoThread = none
    Replicated = TRUE
    FlushEvery = 1
    WriteFaults = TRUE
    SyncFaults = TRUE
    MaxWrites = 2
    MaxRolls = 1
SYMMETRY Symmetry
INVARIANTS
    SealedDurable
