\* One remote and no discrete motions: does a detour end with the key it was for?
SPECIFICATION ThreadSpec
CONSTANTS
    Ids = {i1}
    JogSources = {stc_remote}
    None = None
    Requests = {}
    Views <- MCViews
    CompletedLimit = 1
    OdomLimit = 1
    LidarTimeout = 1
    LinearTimeout = 3
    AngularTimeout = 2
    MaxLease = 1
    ConfirmScans = 2
INVARIANTS
    DetourFollowsKey
