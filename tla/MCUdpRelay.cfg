SPECIFICATION PromptRelaySpec
CONSTANTS
    HalfSpace = 4
    MaxPending = 2
    Packet <- MCPacket
    parseRtpSequence <- MCparseRtpSequence
    kindOf <- MCkindOf
    Timer = {t1, t2}
    NoPacket = NoPacket
    NoTimer = NoTimer
INVARIANTS IdleEndIsComplete
PROPERTIES PromptCancel HandlerErrorEndsRelay TimersWindDown
CHECK_DEADLOCK FALSE
