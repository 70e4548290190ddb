SPECIFICATION FairSpec
CONSTANTS
    codex = codex
    pi = pi
    other = other
    r1 = r1
    n1 = n1
    Runtimes = {codex, pi}
    Primary = codex
    Calls = {r1, n1}
    Kind <- ResolveKind
    Target <- ResolveTarget
    MaxAttempts = 2
    QueueCap = 2
    MaxBreaks = 2
    Shutdown = shutdown
    NoCall = nocall
INVARIANTS TypeOK HealthyLinksReported AnswersAreTrue
PROPERTIES ContractSpec EveryCallAnswered DisconnectEnds
CHECK_DEADLOCK FALSE
