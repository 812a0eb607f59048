SPECIFICATION FairSpec
CONSTANTS
    File = {f1}
    Node = {n1, n2}
    None = None
    K = 1
    M = 1
    MaxFaults = 3
    SlowUploads = TRUE
    LatePuts = TRUE
PROPERTIES RemovedStaysRemoved UploadSettles
CHECK_DEADLOCK FALSE
