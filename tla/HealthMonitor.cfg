CONSTANTS
    c1 = c1
    c2 = c2
    NoCtl = NoCtl
    Controllers = {c1, c2}
    StatsInterval = 2
    IdleTimeout = 2
    Watchdog = 3
    Cap = 4
    MaxVMs = 2
    MaxFaults = 2
    MaxAbsences = 1
    MaxRestarts = 1
SPECIFICATION FairSpec
INVARIANTS
    TypeOK
    TriggeredIsLeaving
PROPERTIES
    TriggerMeansIdle
    JudgedByFreshReport
    
CHECK_DEADLOCK FALSE
