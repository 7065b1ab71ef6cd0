CONSTANTS
    None = None
    Keys = {k}
    Persistent = {}
    IdleTimeout = {}
    ListedAs <- ListedAsHost
    Fragile = {o}
    MaxCtl = 2
    Others = {o}
    KeyOfOther <- AllOne
    MaxFaults = 0
    MaxCrashes = 0
    MayShutdown = FALSE
SPECIFICATION Spec
INVARIANTS
    GoneIsLeaving
PROPERTIES
    WorkingNeverReplaced
CHECK_DEADLOCK FALSE
