SPECIFICATION Spec
CONSTANTS
    Client = {c1, c2, c3}
    Capacity = 2
    Cost = 2
    MaxTracked = 2
    MaxTime = 8
INVARIANTS TableIsBounded DecidesAsIdeal
CHECK_DEADLOCK FALSE
