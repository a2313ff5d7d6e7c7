SPECIFICATION Spec
CONSTANTS
    D = 2
    MaxRetrans = 1
    Backlog = 2
    NetMax = 1
    MaxOfo = 2
INVARIANTS
    ConnInv
    InOrder
    
    NoPhantomFin
CHECK_DEADLOCK FALSE
