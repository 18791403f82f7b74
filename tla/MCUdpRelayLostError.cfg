SPECIFICATION RelaySpec
CONSTANTS
    HalfSpace = 4
    MaxPending = 2
    Packet <- MCPacket
    parseRtpSequence <- MCparseRtpSequence
    kindOf <- MCkindOf
    Timer = {t1, t2}
    NoPacket = NoPacket
    NoTimer = NoTimer
INVARIANT HandlerErrorReturned
CHECK_DEADLOCK FALSE
