SPECIFICATION FairSpec
CONSTANTS
    Id = {c1, c2}
    Client = {p1}
INVARIANTS ServedLineupNotEmpty NothingLeftOpen AdvertisedIsServed
PROPERTIES ListedChannelIsFound NoRefreshAfterShutdown SignalEndsProcess
CHECK_DEADLOCK FALSE
