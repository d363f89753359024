\* Two ids, two remotes, all four directions; the limits are small, in their order.
\* Three ticks for a translation: a detour has three phases.
SPECIFICATION FairSpec
CONSTANTS
    Ids = {i1, i2}
    JogSources = {stc_remote, windows_stc}
    None = None
    Requests <- MCRequests
    Views <- MCViews
    CompletedLimit = 1
    OdomLimit = 1
    LidarTimeout = 0
    LinearTimeout = 3
    AngularTimeout = 1
    MaxLease = 1
    ConfirmScans = 2
INVARIANTS
    TypeOK
    ModesAgree
    DetourOwned
    CommandFollowsMode
    AnsweredOnce
PROPERTIES
    NoBlindDrive
    NothingOverdue
    RunsEnd
