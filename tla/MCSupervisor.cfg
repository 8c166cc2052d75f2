CONSTANTS
    LaunchCount = 2
    Requests <- MCRequests
    MaxKills = 1
    MaxRendererRestarts = 1
    MaxExits = 1
    PageMax = 2
    ShellMax = 4
    ResponseMax = 4
SPECIFICATION Spec
INVARIANTS
    ViewsAreExact
    OneDesktop
    NoOrphans
    CreateIsWhole
PROPERTIES
    CoreLossEnds
CHECK_DEADLOCK FALSE
