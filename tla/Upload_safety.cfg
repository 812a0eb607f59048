SPECIFICATION Spec
CONSTANTS
    File = {f1, f2}
    Node = {n1, n2, n3}
    None = None
    K = 1
    M = 1
    MaxFaults = 4
    SlowUploads = FALSE
    LatePuts = FALSE
SYMMETRY Symmetry
INVARIANTS TypeOK AvailableIsStored SurvivesNodeLoss CreatedIsKept NoOrphanedShard
PROPERTIES ImplementsFileStore
CHECK_DEADLOCK FALSE
