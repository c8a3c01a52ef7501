SPECIFICATION FairSpec
CONSTANTS
    Sessions = {s1, s2}
    Subs = {c1}
    Nodes = {n1}
    Flags = {}
    Quiet = {}
    MaxId = 2
    Cap = 1
    FetchFails = FALSE
INVARIANTS
    LockSafety
    StrayOnlyAfterWatchdog
    FeedIsTrue
PROPERTIES
    ImplementsChangeFeed
    NoneWaitsForEver
