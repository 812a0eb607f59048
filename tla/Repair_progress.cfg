SPECIFICATION FairSpec
CONSTANTS
    File = {f1}
    Node = {n1, n2, n3}
    Deleter = {d1}
    Worker = {w1}
    Lasting = {n1, n2}
    None = None
    K = 1
    M = 1
    ScrubBatch = 2
    MaxRetired = 1
    MaxFaults = 1
PROPERTIES DeletionCompletes RetiredNodeIsEmptied DamageIsRepaired
