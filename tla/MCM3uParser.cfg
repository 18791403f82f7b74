SPECIFICATION Spec
CONSTANTS
    Entries <- MCEntries
    Urls = {"one", "mirror", "refused"}
    Allowed = {"one", "mirror"}
    Normal <- MCNormal
    Lower <- MCLower
    Numeric <- MCNumeric
    PathKey <- MCPathKey
    MaxLines = 6
    MaxIdle = 1
INVARIANTS
    PairedWithOwnUrl
    OnePerIdentity
    LineupOrder
    FallbackNumbersFollowPlaylist
CHECK_DEADLOCK FALSE
