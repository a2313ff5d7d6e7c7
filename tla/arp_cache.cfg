SPECIFICATION Spec
CONSTANTS
    h1 = h1
    h2 = h2
    h3 = h3
    m1 = m1
    m1b = m1b
    m2 = m2
    p1 = p1
    p2 = p2
    p3 = p3
    m3 = m3
    s1 = s1
    s2 = s2
    Packets <- MCPackets
    Ips <- MCIps
    Macs <- MCMacs
    Slots <- MCSlots
    NextHop <- MCNextHop
    Owns <- MCOwns
    EntryTimeout = 2
    MaxRetries = 2
INVARIANTS
    ArpInv
    OnePlace
    RightHost
PROPERTIES
    Resolved
