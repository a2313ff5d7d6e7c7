SPECIFICATION Spec
CONSTANTS
    Width = 4
    Ports = {1, 2}
    MaxEntries = 3
INVARIANTS
    TrieInv
    LongestMatch
CHECK_DEADLOCK FALSE
