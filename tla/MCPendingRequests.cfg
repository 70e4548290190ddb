\* Requests of two servers whose ids coincide, answered while links break.
SPECIFICATION Spec
CONSTANTS
    s1 = s1
    s2 = s2
    u1 = u1
    Servers = {s1, s2}
    Users = {u1}
    QueueSize = 2
    MaxRequests = 2
    MaxFaults = 1
SYMMETRY Symmetries
INVARIANTS TypeOK ListsAreTrue AnswerReachesAsker
CHECK_DEADLOCK FALSE
