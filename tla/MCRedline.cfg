SPECIFICATION Spec
CONSTANTS
    None = None
    Space = Space
    PREVIEW_CHARS = 12
    WordSize = 5
    LABELS_PER_REQUEST = 2
    LABEL_REQUESTS = 2
    Fragments <- MCFragments
    Provisions <- MCProvisions
    Labelled <- MCLabelled
INVARIANTS
    ReadingIsWhole
    RedlineReadsBothWays
    LinksLand
