SPECIFICATION Spec
CONSTANTS
    m1 = m1
    m2 = m2
    m3 = m3
    k1 = k1
    k2 = k2
    Messages = {m1, m2, m3}
    Textless = {}
    Taps = {}
    MaxFailures = 0
    NoMessage = nomessage
INVARIANT QueuedIsKept
CHECK_DEADLOCK FALSE
