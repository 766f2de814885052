SPECIFICATION FairSpec
CONSTANTS
    u1 = u1
    u2 = u2
    u3 = u3
    NoUrl = NoUrl
    Urls = {u1, u2}
    Docs <- MCDocs
    InitialUrl = u1
    AUTO_DISCOVERY_MAX_REDIRECTS = 2
    MaxUpsets = 2
    MaxJobs = 2
CHECK_DEADLOCK FALSE
INVARIANTS
    OneUpdateInFlight
    LostContentIsFlagged
    FreshDiscoveryEnds
PROPERTIES
    FeedIsShown
