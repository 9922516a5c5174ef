SPECIFICATION FairSpec
CONSTANTS
    Requests = {r1, r2, r3}
    Sockets = {s1}
    Capacity = 3
    MaxPosts = 2
INVARIANTS NothingLeaks HoldAndWaitOnlyInTasks
PROPERTY EverybodyEnds
CHECK_DEADLOCK FALSE
