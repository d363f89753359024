\* One remote and no discrete motions: how many detours can one hold cause?
SPECIFICATION HoldSpec
CONSTANTS
    Ids = {i1}
    JogSources = {stc_remote}
    None = None
    Requests = {}
    Views <- MCViews
    CompletedLimit = 1
    OdomLimit = 1
    LidarTimeout = 1
    LinearTimeout = 3
    AngularTimeout = 2
    MaxLease = 1
    ConfirmScans = 2
INVARIANTS
    OneDetourPerHold
