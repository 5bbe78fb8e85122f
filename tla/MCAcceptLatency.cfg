SPECIFICATION AcceptSpec
CONSTANTS
    o1 = o1
    o2 = o2
    c1 = c1
    c2 = c2
    Cpus = {c1, c2}
    Objects = {o1, o2}
    Port = 80
    Labels = {80}
    StartCapacity = 1
    HistCapacity = 2
    MaxSlot = 1
    Wrap = 6
    NsPerUs = 1
    MaxTime = 2
    MaxStarts = 4
SYMMETRY Symmetry
CHECK_DEADLOCK FALSE
INVARIANTS AcceptTypeOK ExactWhenAlone AcceptSumAtLeastBuckets
