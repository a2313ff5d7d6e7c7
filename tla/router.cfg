SPECIFICATION Spec
CONSTANTS
    h1 = h1
    h2 = h2
    g = g
    u = u
    o1 = o1
    o2 = o2
    none = none
    Addresses = {h1, h2, g, u, o1, o2}
    Own = {o1, o2}
    Answering = {h1, g}
    NoAddress = none
    rtable <- Routes
    Traffic <- SomeTraffic
    MaxPackets = 2
    Slots = {1, 2}
    EntryTimeout = 1
    MaxRetries = 2
INVARIANTS
    RouterInv
    RightNextHop
PROPERTIES
    Answered
CHECK_DEADLOCK FALSE
