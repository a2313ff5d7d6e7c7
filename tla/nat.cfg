SPECIFICATION Spec
CONSTANTS
    h1 = h1
    h2 = h2
    r1 = r1
    r2 = r2
    Inside <- MCInside
    Remotes <- MCRemotes
    Hash <- MCHash
    Rules <- MCRules
    Knocked <- MCKnocked
    PortMin = 1
    PortMax = 2
    Timeout = 0
    MaxMappings = 3
INVARIANTS
    NatInv
    ReachesHost
PROPERTIES
    
    PortsComeBack
