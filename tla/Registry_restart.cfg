CONSTANTS
    None = None
    Keys = {k}
    Persistent = {}
    IdleTimeout = {}
    ListedAs <- ListedAsHost
    Fragile = {}
    MaxCtl = 2
    Others = {}
    KeyOfOther <- AllOne
    MaxFaults = 0
    MaxCrashes = 1
    MayShutdown = FALSE
SPECIFICATION FairSpec
PROPERTIES
    UpIsTracked
    RemovalEnds
CHECK_DEADLOCK FALSE
