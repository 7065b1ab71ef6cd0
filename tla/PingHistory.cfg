CONSTANTS
    Size = 3
    Latencies = {1, 2, 5}
    ConnTypes = {direct, relayed}
    NoConn = NoConn
SPECIFICATION Spec
INVARIANTS
    TypeOK
    
    
    
PROPERTY ImplementsWindow
