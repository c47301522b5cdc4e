SPECIFICATION Spec
CONSTANTS
    p1 = p1
    p2 = p2
    p3 = p3
    h1 = h1
    h2 = h2
    f1 = f1
    j1 = j1
    j2 = j2
    OFFLINE_URL = OFFLINE_URL
    Idle = Idle
    PageUrl <- MCPageUrl
    HashedUrl <- MCHashedUrl
    StableUrl <- MCStableUrl
    Job <- MCJob
    Limit <- MCLimit
    MaxRev = 1
    MaxFaults = 1
SYMMETRY MCSymmetry
INVARIANTS
    WorkerTypeOK
    OfflinePageKept
    CachesBounded
    RecentlyReadIsKept
