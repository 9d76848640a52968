SPECIFICATION Spec
CONSTANTS
    Request = {r1, r2}
    Partition = {p1}
    Window = 2
    Faults = {"append", "abort", "journal", "flush", "idle", "crash"}
    None = none
    MaxSeq = 2
    MaxBatch = 2
    MaxLog = 2
    MaxMishaps = 2
SYMMETRY Symmetry
INVARIANTS
    AtMostOnceUndisturbed
    RetriesAnswered
PROPERTIES
    AckedNotRewritten
CHECK_DEADLOCK FALSE
