SPECIFICATION Spec
CONSTANTS
    File = {f1}
    Node = {n1, n2, n3}
    Deleter = {d1}
    Worker = {w1, w2}
    Lasting = {n1, n2, n3}
    None = None
    K = 1
    M = 1
    ScrubBatch = 1
    MaxRetired = 1
    MaxFaults = 2
SYMMETRY Symmetry
INVARIANTS AvailableIsKept OneShardPerNode OrphansAreCharged
PROPERTIES RowGoesAfterBytes ImplementsFileStore
