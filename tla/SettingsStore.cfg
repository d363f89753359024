SPECIFICATION Spec
CONSTANTS
    Slots = 4
    Starts <- MCStarts
    MaxFeeds = 5
INVARIANTS
    TypeOK
    NoMixture
PROPERTIES
    CheckDiscerns
    KeepsItsLog
