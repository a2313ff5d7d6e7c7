SPECIFICATION Spec
CONSTANTS
    a = a
    b = b
    c = c
    sw = sw
    hub = hub
    Hosts = {a, b, c}
    Movers = {b}
    Switches = {sw}
    Hubs = {hub}
    Ports <- LanPorts
    Trunk <- LanTrunk
    Home <- LanHome
    Timeout = 0
    Slots = {1, 2}
    MaxMoves = 1
INVARIANTS
    LanInv
    DeliveredOnce
PROPERTIES
    FramesEnd
    Forgotten
