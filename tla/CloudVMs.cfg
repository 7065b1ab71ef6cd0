CONSTANTS
    exit = exit
    speedtest = speedtest
    za = za
    zb = zb
    NoVM = NoVM
    Services = {exit, speedtest}
    Zones = {za, zb}
    LastSize = 2
    PageSize = 1
    MaxCalls = 2
    MaxFaults = 2
    MaxLost = 1
SPECIFICATION Spec
INVARIANTS
    TypeOK
    OneVMPerCall
    FailedLeavesNothing
    
    NetworkFirst

    
 
CHECK_DEADLOCK FALSE
