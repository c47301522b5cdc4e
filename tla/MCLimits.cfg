SPECIFICATION Spec
CONSTANTS
    b1 = b1
    b2 = b2
    NoBucket = NoBucket
    NoPromise = NoPromise
    Answered = Answered
    Browser <- MCBrowser
    Key <- MCKey
    KeyOf <- MCKeyOf
    Url <- MCUrl
    Cost <- MCCost
    Burst <- MCBurst
    Second = 2
    SweepInterval = 2
    MaxClock = 4
INVARIANTS
    LimitsTypeOK
    WithinBudget
    PromiseKept
PROPERTIES
    EveryRequestAnswered
