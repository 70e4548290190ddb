SPECIFICATION FairSpec
CONSTANTS
    t1 = t1
    t2 = t2
    u1 = u1
    u2 = u2
    Threads = {t1, t2}
    Refusable = {t2}
    Openable = {t1}
    Users = {u1}
    Paginated = TRUE
    MaxBreaks = 2
    MaxCalls = 2
    NoThread = nothread
    NoOne = noone
INVARIANTS TypeOK StaleMarkersExplained
PROPERTY CollectedIsResubscribed
CHECK_DEADLOCK FALSE
