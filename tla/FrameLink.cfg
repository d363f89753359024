SPECIFICATION Spec
CONSTANTS
    Frames <- MCFrames
    Noise <- MCNoise
    MAX_PAYLOAD = 3
    UART_RX_SIZE = 4
    MaxUnread = 2
    MaxFrames = 4
    MaxFaults = 2
INVARIANTS
    TypeOK
    BackInStep
    NothingLost
    InOrder
\* When every frame was sent and parsed, nothing happens.
CHECK_DEADLOCK FALSE
