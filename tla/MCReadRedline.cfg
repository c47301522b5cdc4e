SPECIFICATION SpecRead
CONSTANTS
    s = s
    t1 = t1
    t2 = t2
    q1 = q1
    Section <- MCSection
    Text <- MCText
    Release <- MCRelease
    Files <- MCFiles
    Fetches <- MCFetches
    Reader = {q1}
    Wanted = s
    Route = {"diff"}
    MaxGeneration = 7
INVARIANTS
    RedlinesAreCurrent
