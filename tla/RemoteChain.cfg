\* One tick is about 50 ms; the longest times are scaled down, in their order.
SPECIFICATION Spec
CONSTANTS
    Directions = {forward, left}
    Debounce = 1
    ReleaseGap = 1
    Repeat = 2
    ReadTime = 1
    SerialLease = 3
    PostTimeout = 2
    Lease = 4
    None = None
SYMMETRY Interchangeable
INVARIANTS
    TypeOK
    LatestWins
    DeadMan
