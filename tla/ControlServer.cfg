SPECIFICATION FairSpec
CONSTANTS
    Conn = {c1, c2}
    Key = {k1}
    Value = {v1}
    Default = v0
    NoConn = NoConn
    MaxFrames = 2
INVARIANTS
    ActiveTracksHandlers
    StopReportsNoError
    RepliesInOrder
PROPERTY StopEndsHandlers
CHECK_DEADLOCK FALSE
