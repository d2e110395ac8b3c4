SPECIFICATION RefreshSpec
CONSTANTS
    r1 = r1
    r2 = r2
    p1 = p1
    Requests <- TwoRequests
    Packs <- OnePack
    Kinds <- Refreshes
    MaxCommit = 3
    MaxFetches = 3
    MaxRefreshCrashes = 0
INVARIANT ReplacedPacksAreStale
