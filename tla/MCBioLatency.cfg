SPECIFICATION Spec
CONSTANTS
    r1 = r1
    r2 = r2
    r3 = r3
    sda = sda
    sdb = sdb
    c1 = c1
    c2 = c2
    Cpus = {c1, c2}
    Objects = {r1, r2, r3}
    Labels = {sda, sdb}
    LabelOf <- MCLabelOf
    StartCapacity = 2
    HistCapacity = 4
    MaxSlot = 1
    Wrap = 32
    NsPerUs = 2
    MaxTime = 4
    MaxStarts = 3
SYMMETRY Symmetry
CHECK_DEADLOCK FALSE
INVARIANTS TypeOK FreshTimestamps SampledOnce SumAtLeastBuckets
