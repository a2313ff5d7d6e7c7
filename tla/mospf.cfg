SPECIFICATION MospfSpec
CONSTANTS
    r1 = r1
    r2 = r2
    r3 = r3
    Routers = {r1, r2, r3}
    Links <- Triangle
    FirstLinks <- Line
    Stubs = {r1, r3}
    Failing = {r2, r3}
    Watched = {r1}
    FirstSeq <- NearWrap
    SeqSize = 4
    MaxTtl = 255
    MaxFaults = 1
    MaxUnderWay = 3
    MaxRefresh = 1
INVARIANTS
    MospfInv

    
    
