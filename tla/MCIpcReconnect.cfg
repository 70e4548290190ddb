SPECIFICATION FairSpec
CONSTANTS
    h1 = h1
    Handlers = {h1}
    NoHandler = nohandler
    MaxAttempts = 2
    MaxClients = 3
    MaxSignals = 2
INVARIANTS TypeOK OneOpenClient ReportedTruly
PROPERTIES InvalidatedIsReplaced
CHECK_DEADLOCK FALSE
