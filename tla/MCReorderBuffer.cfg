SPECIFICATION FairBufferSpec
CONSTANTS
    HalfSpace = 4
    MaxPending = 2
    Packet <- MCPacket
    parseRtpSequence <- MCparseRtpSequence
    Timer = {t1, t2}
    NoPacket = NoPacket
    NoTimer = NoTimer
INVARIANTS
    PendingAhead
    PendingBounded
    GapHasTimer
PROPERTIES
    EmitsForward
    NothingAfterClose
    PendingDrained
CHECK_DEADLOCK FALSE
