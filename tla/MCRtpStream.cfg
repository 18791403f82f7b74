SPECIFICATION StreamSpec
CONSTANTS
    HalfSpace = 6
    MaxPending = 2
    MaxBurst = 1
    Window = 6
    Packet <- MCPacket
    parseRtpSequence <- MCparseRtpSequence
    Timer = {t1, t2}
    NoPacket = NoPacket
    NoTimer = NoTimer
    Pid <- MCPid
    NullPid = "null"
    CounterSpace = 4
    payloadOf <- MCpayloadOf
    TsPerPacket = 2
INVARIANTS
    NothingDropped
    LossIsCounted
    ContinuityErrorsExplained
PROPERTIES
    ImplementsOrderedDelivery
CHECK_DEADLOCK FALSE
