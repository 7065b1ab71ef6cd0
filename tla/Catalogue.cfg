CONSTANTS
    p = p
    q = q
    Callers = {p, q}
    NoCaller = NoCaller
    Types = {1, 2}
    Regions = {1, 2}
    MaxPrice = 2
    Kinds = {"do", "vultr", "linode", "ec2", "azure", "gcp", "hetzner"}
    Plain <- TwoTypes
    Day = 2
    MaxFaults = 2
SPECIFICATION FairSpec
INVARIANTS
    TypeOK
    TablesAreRight
    
    
    
PROPERTIES
    RegionsCome
CHECK_DEADLOCK FALSE
