SPECIFICATION StpSpec
CONSTANTS
    Bridges <- RingSwitches
    Peer <- RingPeer
    MaxFrames = 4
    MaxLost = 1
INVARIANTS
    StpInv
PROPERTIES
    BeliefsOnlyImprove
    Converges
