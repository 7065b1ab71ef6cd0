CONSTANTS
    None = None
    Keys = {k}
    Persistent = {}
    IdleTimeout = {}
    ListedAs <- ListedAsHost
    Fragile = {}
    MaxCtl = 2
    Others = {}
    KeyOfOther <- AllOne
    MaxFaults = 0
    MaxCrashes = 0
    MayShutdown = TRUE
SPECIFICATION FairSpec
INVARIANTS
    ShutdownStopsEntries
PROPERTIES
    ShutdownEnds
CHECK_DEADLOCK FALSE
