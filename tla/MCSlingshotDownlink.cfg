SPECIFICATION FairSpec
CONSTANTS
    Segments <- ShortLine
    DownSplits <- SplitMessages
    MaxBreaks = 2
    Stamped = {2}
    AllowDrop = FALSE
INVARIANTS InboundExactlyOnce
PROPERTIES LineReachesServer InboundArrives ReplayDrains
CHECK_DEADLOCK FALSE
