SPECIFICATION SpecChanges
CONSTANTS
    s1 = s1
    s2 = s2
    t1 = t1
    t2 = t2
    Section <- MCSection
    Text <- MCText
    Release <- ThreeReleases
    Files <- AnyFiles
    Fetches <- AnyFetches
    Defers <- Either
    MaxFaults = 1
INVARIANTS
    ChangesTypeOK
    TimelineIsAChain
    HooksKeepRowsCurrent
    EveryVersionIsMapped
