\* Every interleaving of the threads.
SPECIFICATION FairSpec
CONSTANTS
    Lease = 1
    MaxMessages = 3
    Zero = Zero
    Move = Move
INVARIANTS
    TypeOK
    OneLateMove
    NoStaleDrive
PROPERTIES
    SilenceStops
