\* The distances of petcargo.yaml: is the whole path of a detour free when it begins?
SPECIFICATION GeometrySpec
CONSTANTS
    Ids = {i1}
    JogSources = {stc_remote}
    None = None
    Requests = {}
    Views = {}
    CompletedLimit = 1
    OdomLimit = 1
    LidarTimeout = 1
    LinearTimeout = 3
    AngularTimeout = 2
    MaxLease = 1
    ConfirmScans = 2
    HalfLength = 171
    HalfWidth = 128
    Margin = 30
    EmergencyClearance = 100
    StopClearance = 150
    ShiftDistance = 400
    PassDistance = 500
    Scans <- MCScans
PROPERTIES
    WholePathChecked
