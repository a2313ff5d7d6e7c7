SPECIFICATION FairSpec
CONSTANTS
    Total = 5
    Segments <- MCSegments
    Capacity = 3
    ReadMax = 2
    MaxOfo = 3
INVARIANTS TypeOK AckedIsKept WindowHonest TestsStillHold
PROPERTIES EdgeNeverShrinks IsByteStream StoredIsRead
