\* Two ports that share the lock, each with a ring in which two frames can wait.
SPECIFICATION FairSpec
CONSTANTS
    stop = stop
    telemetry = telemetry
    resume = resume
    word = word
    long = long
    None = None
    Frames <- PortFrames
    Length <- PortLength
    Traffic <- PortTraffic
    Stops <- BothStops
    FrameMax = 2
    Slots = 3
INVARIANTS
    TypeOK
    NoLostWakeup
PROPERTIES
    NoOverrun
    PortsAreLinks
    KeepsSending
