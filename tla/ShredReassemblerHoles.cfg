SPECIFICATION BufferSpec
CONSTANTS
    Keys <- MCKeys
    LastIndex = 2
    Ends <- MCEnds
    MaxSets = 2
INVARIANTS
    BatchIsComplete
