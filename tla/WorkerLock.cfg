SPECIFICATION FairSpec
CONSTANTS
    Procs = {p1, p2}
    Slots = {s1, s2}
    NoSlot = NoSlot
    Tasks = 2
    MaxLost = 1
    MaxFailures = 1
INVARIANT
    ExclusiveUnlessLost
PROPERTY
    WaitingEnds
CHECK_DEADLOCK FALSE
