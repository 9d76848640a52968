SPECIFICATION Spec
CONSTANTS
    Groups = {g1}
    Keys = {k1}
    NoOwner = NoOwner
    NoSlot = NoSlot
    Admins = {}
    Slots = {s1}
    MaxGroups = 1
    MaxEntries = 1
    MaxEnd = 1
    MaxChanges = 2
    GroupEvents = 1
    Nodes = 3
    Chunk = 1
    Retention = TRUE
    PowerLoss = FALSE
    MaxOffset = 3
    MaxSnapshots = 2
    MaxRestarts = 2
    MaxLosses = 1
    MaxInFlight = 2
    PeerQueue = 1
    Window = 1
    SeqSpace = 2
    MaxInbound = 2
    MaxMessages = 1
    MaxSessions = 3
    MaxLoops = 2
    NetFaults = 2
    Conns = {1}
    Addrs = {a1}
    MaxConnections = 1
    MaxPerIp = 1
    MaxInflight = 2
    OutCapacity = 1
    Budget = 2
    Sizes = {1}
    Inflated = 1
    BinTopics = {b1}
    Ops = {"produce", "consume"}
    MaxReads = 2
    Calls = {1, 2}
PROPERTIES
    EventuallySaved
    FirstTransferFinishes
    Reconnects
    EveryRequestAnswered
    CallsEnd
CHECK_DEADLOCK FALSE
