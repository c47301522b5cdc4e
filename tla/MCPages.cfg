SPECIFICATION Spec
CONSTANTS
    title = title
    p1 = p1
    p2 = p2
    f1 = f1
    f2 = f2
    STATUS = STATUS
    Idle = Idle
    NoEntry = NoEntry
    NoCheck = NoCheck
    NoRelease = NoRelease
    NoFooter = NoFooter
    Title <- MCTitle
    Page <- MCPage
    Fetch <- MCFetch
    ReleasePoint <- MCReleasePoint
    TTL = 1
    StaleAfter = 0
    MaxClock = 1
    MaxGeneration = 3
CONSTRAINT MCBound
SYMMETRY MCSymmetry
INVARIANTS
    MemoTypeOK
    AsNewAsThePage
    OneRequestPerGeneration
    UnwarnedFooterIsCurrent
