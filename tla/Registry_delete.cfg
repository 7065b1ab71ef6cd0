CONSTANTS
    None = None
    Keys = {k}
    Persistent = {k}
    IdleTimeout = {}
    ListedAs <- ListedAsHost
    Fragile = {}
    MaxCtl = 2
    Others = {}
    KeyOfOther <- AllOne
    MaxFaults = 0
    MaxCrashes = 0
    MayShutdown = FALSE
SPECIFICATION Spec
INVARIANTS
    RunningIsFenced
PROPERTIES
    DeleteRemovesVM
CHECK_DEADLOCK FALSE
