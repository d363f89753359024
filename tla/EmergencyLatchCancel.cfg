\* A cancelled motion right after the stop.
SPECIFICATION Spec
CONSTANTS
    Scenarios <- CancelScenario
    MaxQueue = 1
    None = None
INVARIANTS
    LockHolds
\* Where the user does nothing more and all messages have arrived, nothing happens.
CHECK_DEADLOCK FALSE
