CONSTANTS
    p = p
    Pages = {p}
    GridSize = 2
    Blank = Blank
    MaxWire = 1
    MaxChanges = 2
    MaxFaults = 1
    MaxBreaks = 1
SPECIFICATION FairSpec
INVARIANTS
    TypeOK
    

    
CHECK_DEADLOCK FALSE
