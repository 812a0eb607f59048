SPECIFICATION FairSpec
CONSTANTS
    K = 2
    M = 2
    Data <- SmallFiles
    MaxFaults = 2
    MaxMoves = 1
    MaxRetired = 1
INVARIANTS UnavailableMeansLost NeverCorrupted
PROPERTIES ReadEnds
CHECK_DEADLOCK FALSE
