SPECIFICATION Spec
CONSTANTS
    Keys = {k1}
    NoKey = NoKey
    Tiered = TRUE
    MaxOffset = 3
    MaxCompactions = 2
    MaxFailures = 1
INVARIANTS
    OffsetsInOrder
    NothingLost
    KeysDoNotReturn
    ReadsAreComplete
