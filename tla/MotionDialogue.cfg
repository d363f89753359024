SPECIFICATION Spec
CONSTANTS
    Room = 3
    None = None
    Scenarios <- MCScenarios
    MaxPending = 2
    CompletedLimit = 2
INVARIANTS
    TypeOK
    NothingLingers
    NoRunaway
    NoPhantom
    EscapesAreTagged
PROPERTIES
    PressNeverReleases
    OwnResult
CHECK_DEADLOCK FALSE
