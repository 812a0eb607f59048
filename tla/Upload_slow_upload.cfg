SPECIFICATION Spec
CONSTANTS
    File = {f1}
    Node = {n1, n2}
    None = None
    K = 1
    M = 1
    MaxFaults = 0
    SlowUploads = TRUE
    LatePuts = FALSE
INVARIANTS CreatedIsKept
CHECK_DEADLOCK FALSE
