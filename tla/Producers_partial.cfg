SPECIFICATION Spec
CONSTANTS
    Request = {r1, r2}
    Partition = {p1, p2}
    Window = 1
    Faults = {"append"}
    None = none
    MaxSeq = 1
    MaxBatch = 1
    MaxLog = 9
    MaxMishaps = 2
SYMMETRY Symmetry
INVARIANT AtMostOnce
CHECK_DEADLOCK FALSE
