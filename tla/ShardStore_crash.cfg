SPECIFICATION Spec
CONSTANTS
    Put = {p1, p2}
    Delete = {d1, d2}
    Get = {g1}
    Shard = {s1}
    Absent = Absent
    MaxFaults = 2
SYMMETRY Symmetry
INVARIANTS AcknowledgedIsDurable NoTornShard ServedIsGenuine CreatedOnce DeletedStaysDeleted TempsDoNotPileUp
CHECK_DEADLOCK FALSE
