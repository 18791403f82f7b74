SPECIFICATION FairSpec
CONSTANTS
    Frames <- MCFrames
    Headers = {"ok0", "ok1", "refused", "invalid", "negative"}
    MaxUnits = 3
INVARIANTS
    HandedOnInOrder
    NothingHeldBack
    NoEmptySuccess
PROPERTIES
    CancelEndsPump
CHECK_DEADLOCK FALSE
