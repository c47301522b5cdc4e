SPECIFICATION Spec
CONSTANTS
    Absent = Absent
    NoRelease = NoRelease
    NoKind = NoKind
    NoDate = NoDate
    Nothing = Nothing
    Text <- MCText
    MaxRelease = 4
    MaxLag = 1
    MaxAt <- MCMaxAt
    Section <- MCSection
    Title <- MCTitle
    Limit = 2
    Total = 5
    Dates <- MCDates
    Typed <- MCTyped
    Facets <- MCFacets
    Tables <- MCTables
    Lookups <- MCLookups
    Report <- MCReport
INVARIANTS
    
    
    AddressesKeepTheView
