SPECIFICATION Spec
CONSTANTS
    File = {f1}
    NoFile = NoFile
    Instance = {i1, i2}
    Owner = {o1, o2, o3}
    Download = {d1}
    Ttl = {1}
    MaxKey = 2
    MaxTime = 1
SYMMETRY Symmetry
INVARIANTS ServedWasAuthorised DeleteRevokes AnsweredIsAudited
PROPERTIES RotationKeepsLinks
CHECK_DEADLOCK FALSE
