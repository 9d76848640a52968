SPECIFICATION Spec
CONSTANTS
    Trio = {n1, n2, n3}
    OldLeader = m1
    OldFollower = m2
    NewLeader = m3
    NewFollowers = {m4, m5}
    None = none
    Command = x
    Noop = noop
SYMMETRY Symmetry
INVARIANTS
    CommittedStays
    ClustersAgree
CHECK_DEADLOCK FALSE
