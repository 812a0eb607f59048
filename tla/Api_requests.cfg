SPECIFICATION Spec
CONSTANTS
    Upload = {u1, u2}
    Download = {d1}
    Link = {l1}
    Slots = 1
    MaxBody = 2
    MaxDefault = 1
INVARIANTS
    MemoryIsBounded
    LargeOnlyAfterChecks
PROPERTIES
    NobodyWaits
CHECK_DEADLOCK FALSE
