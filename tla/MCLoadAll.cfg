SPECIFICATION SpecLoadAll
CONSTANTS
    s1 = s1
    t1 = t1
    t2 = t2
    Section <- MCSection
    Text <- MCText
    Release <- ThreeReleases
    Files <- MCFiles
    Fetches <- MCFetches
    MaxFailures = 1
    MaxKills = 1
INVARIANTS
    FirstIsEarliestUnlessPassedOver
PROPERTIES
    EventuallyLoaded
