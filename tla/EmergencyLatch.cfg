SPECIFICATION FairSpec
CONSTANTS
    Scenarios <- MCScenarios
    MaxQueue = 1
    None = None
INVARIANTS
    TypeOK
    LatchOutlivesBoard
    LatchesAgree
    BoardFollows
PROPERTIES
    LockReaches
\* Where the user does nothing more and all messages have arrived, nothing happens.
CHECK_DEADLOCK FALSE
