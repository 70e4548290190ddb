SPECIFICATION Spec
CONSTANTS
    Segments <- UplinkSegments
    DownSplits <- NoMessages
    MaxBreaks = 2
    Stamped = {}
    AllowDrop = TRUE
INVARIANTS TypeOK ReplaySorted UnackedKept NoSilentLoss
PROPERTY ChannelSpec
CHECK_DEADLOCK FALSE
