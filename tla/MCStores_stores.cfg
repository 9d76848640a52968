SPECIFICATION Spec
CONSTANTS
    Names = {n1}
    NoName = NoName
    Tasks = {t1, t2}
    MaxTopics = 2
    MaxUpdates = 2
    TopicFaults = 1
    Groups = {g1, g2}
    Keys = {k1, k2}
    NoOwner = NoOwner
    NoSlot = NoSlot
    Admins = {k2}
    Slots = {s1}
    MaxGroups = 1
    MaxEntries = 1
    MaxEnd = 1
    MaxChanges = 2
    GroupEvents = 1
    OneGroup = {g1}
    LongEnd = 2
    KeyIds = {i1, i2}
    NoKey = NoKey
    KeyAdmins = {a1, a2}
    Conns = {c1}
    MaxRevocations = 2
    KeyFaults = 1
    Subjects = {u1}
    Fields = {x, y}
    Types = {str, num}
    Absent = Absent
    Candidates <- FourSchemas
    MaxSchemas = 2
    MaxIds = 3
    SchemaFaults = 1
    Rate = 2
    DebtSeconds = 2
    Readers = {r1, r2}
    MaxFetch = 3
    MaxTime = 4
    MaxRecords = 2
    MaxMeanwhile = 3
    Pids = {p1, p2}
    MaxRuns = 4
    MaxClock = 1
INVARIANTS
    TopicsSurvive
    TopicsServedWhole
    NothingForgotten
    AtLeastOnce
    KeysAnswered
    SchemasServed
    WithinRate
    BackupsHold
