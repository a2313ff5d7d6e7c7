SPECIFICATION Spec
CONSTANTS
    D = 1
    MaxRetrans = 1
    Backlog = 1
    NetMax = 1
    MaxOfo = 1
PROPERTIES
    ConnectionEnds
    ClientWakes
CHECK_DEADLOCK FALSE
