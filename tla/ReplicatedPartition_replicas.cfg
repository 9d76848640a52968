SPECIFICATION Spec
CONSTANTS
    Replica = {r1, r2, r3}
    Write = {w1, w2}
    Noop = noop
    Nothing = nothing
    Snapshots = TRUE
    MaxElections = 2
    MaxRestarts = 1
SYMMETRY Symmetry
INVARIANTS
    StoreIsLogImage
    AckedSurvives
    VerdictsAreTrue
CHECK_DEADLOCK FALSE
