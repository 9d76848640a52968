SPECIFICATION NodeSpec
CONSTANTS
    MaxIndex = 4
    MaxTerm = 2
    Producers = {p1, p2}
    Flusher = flusher
    NoThread = none
    FlushEvery = 1
    MaxWrites = 2
    MaxRolls = 1
    Nodes = 3
    Chunk = 1
    Retention = TRUE
    PowerLoss = FALSE
    MaxOffset = 4
    MaxSnapshots = 2
    MaxRestarts = 1
    MaxLosses = 1
    MaxInFlight = 2
    PeerQueue = 2
    Window = 2
    SeqSpace = 4
    MaxInbound = 2
    MaxMessages = 3
    MaxSessions = 3
    MaxLoops = 2
    NetFaults = 2
    Resend = FALSE
    Conns = {1, 2}
    Addrs = {a1, a2}
    MaxConnections = 2
    MaxPerIp = 1
    MaxInflight = 2
    OutCapacity = 1
    Budget = 3
    Sizes = {1}
    Inflated = 1
    BinTopics = {b1}
    Ops = {"produce", "plain"}
    MaxReads = 2
    Members = 3
    GroupTopics = 2
    Subscriptions = {{1, 2}, {1}}
    MaxPartitions = 2
    MaxEvents = 1
    MaxGenerations = 3
INVARIANTS
    RaftFilesSurvive
    AckedDurableUnlessFenced
    InstalledIsBacked
    DeliverySound
    RegistrationStays
    LimitsExact
    AnswersInOrder
    AssignmentSound
PROPERTIES
    Sticky
CHECK_DEADLOCK FALSE
