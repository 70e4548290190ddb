\* A request that another with its id keeps out of the list.
SPECIFICATION Spec
CONSTANTS
    s1 = s1
    s2 = s2
    u1 = u1
    Servers = {s1, s2}
    Users = {u1}
    QueueSize = 2
    MaxRequests = 2
    MaxFaults = 1
SYMMETRY Symmetries
INVARIANT AskedIsShown
CHECK_DEADLOCK FALSE
