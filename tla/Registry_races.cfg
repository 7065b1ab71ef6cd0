CONSTANTS
    None = None
    Keys = {k}
    Persistent = {}
    IdleTimeout = {k}
    ListedAs <- ListedAsHost
    Fragile <- All
    MaxCtl = 2
    Others = {}
    KeyOfOther <- AllOne
    MaxFaults = 1
    MaxCrashes = 0
    MayShutdown = FALSE
SPECIFICATION Spec
INVARIANTS
    TypeOK
    RegisteredIsDriven
    OneCreationPerKey
CHECK_DEADLOCK FALSE
