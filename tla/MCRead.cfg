SPECIFICATION SpecRead
CONSTANTS
    s = s
    t1 = t1
    t2 = t2
    q1 = q1
    q2 = q2
    Section <- MCSection
    Text <- MCText
    Release <- MCRelease
    Files <- MCFiles
    Fetches <- MCFetches
    Reader = {q1, q2}
    Wanted = s
    Route = {"toc", "section"}
    MaxGeneration = 5
SYMMETRY Symmetry
INVARIANTS
    ReadTypeOK
    PayloadsAreCurrent
    AnswersAreConsistent
    OwnPinsAgree
