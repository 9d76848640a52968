SPECIFICATION Spec
CONSTANTS
    Server = {n1, n2, n3}
    None = none
    Value = {x}
    Noop = noop
    MaxAppend = 1
    TornWrites = TRUE
    MaxInFlight = 1
    MaxElections = 2
    MaxLog = 3
    MaxRestarts = 1
SYMMETRY Symmetry
INVARIANTS
    ElectionSafety
    LogsAgree
    StateMachineSafety
CHECK_DEADLOCK FALSE
