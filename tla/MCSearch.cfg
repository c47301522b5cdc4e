SPECIFICATION SpecIndex
CONSTANTS
    s1 = s1
    t1 = t1
    t2 = t2
    Section <- OneSection
    Text <- TwoTexts
    Release <- ThreeReleases
    Files <- AnyFiles
    Fetches <- AnyFetches
    MaxFaults = 1
    MaxRebuilds = 2
    MaxRebuildFailures = 1
SYMMETRY Symmetry
INVARIANTS
    IndexTypeOK
    IndexedIsStored
    OneCurrentUnlessLost
    CurrentAsRebuilt
PROPERTIES
    PromotedIsWhole
