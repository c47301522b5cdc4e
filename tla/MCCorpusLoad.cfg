SPECIFICATION Spec
CONSTANTS
    s1 = s1
    s2 = s2
    t1 = t1
    t2 = t2
    Section <- MCSection
    Text <- MCText
    Release <- ThreeReleases
    Files <- MCFiles
    Fetches <- MCFetches
INVARIANTS
    TypeOK
    OneVersionPerText
    FileLoadsAreWhole
    NoForeignText
    InterruptedUpdateIsEmpty
    LoadUnderWay
PROPERTIES
    PublishesWhole
