SPECIFICATION Spec
CONSTANTS
    t1 = t1
    t2 = t2
    u1 = u1
    idle = idle
    p = p
    q = q
    cpu = cpu
    Contexts = {t1, t2, u1, idle}
    KeyOf <- MCShared
    Capacity = 2
    MaxCalls = 4
SYMMETRY MCSymmetry
CHECK_DEADLOCK FALSE
INVARIANTS TypeOK EntriesAlive OwnEntry
