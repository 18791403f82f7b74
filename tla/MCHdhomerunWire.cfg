SPECIFICATION Spec
CONSTANTS
    Messages <- MCMessages
    MaxMessages <- MCMaxMessages
INVARIANTS
    DiscoveryAnswersOwn
    RepliesAnswerRequests
    NoRequestHeldBack
CHECK_DEADLOCK FALSE
