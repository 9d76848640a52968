SPECIFICATION Spec
CONSTANTS
    Replica = {r1, r2, r3}
    Write = {w1, w2}
    Noop = noop
    Nothing = nothing
    Snapshots = FALSE
    MaxElections = 2
    MaxRestarts = 0
SYMMETRY Symmetry
INVARIANT
    AckedOffsetIsOwn
CHECK_DEADLOCK FALSE
