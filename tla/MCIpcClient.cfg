SPECIFICATION FairSpec
CONSTANTS
    a = a
    b = b
    Calls = {a, b}
    Discovery = discovery
    ChannelCap = 1
    MaxQuestions = 2
INVARIANTS TypeOK WaitersAreTracked
PROPERTIES ContractSpec EveryCallReturns
CHECK_DEADLOCK FALSE
