SPECIFICATION Spec
CONSTANTS
    Requests = {r1, r2, r3}
    Sockets = {s1}
    Capacity = 3
    MaxPosts = 2
INVARIANT SubscribersAddNoLatency
CHECK_DEADLOCK FALSE
