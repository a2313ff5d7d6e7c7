SPECIFICATION Spec
CONSTANTS
    D = 4
    DefaultWindow = 89
    Ssthresh = 16
    DupThresh = 2
    MaxRetrans = 1
    Windows = {0, 8}
    NetMax = 1
    MaxEarly = 1
INVARIANTS
    
    NoLostWakeup
    
PROPERTIES
    WriteEnds
CHECK_DEADLOCK FALSE
