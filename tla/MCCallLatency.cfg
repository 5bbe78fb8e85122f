SPECIFICATION Spec
CONSTANTS
    s1 = s1
    s2 = s2
    s3 = s3
    c1 = c1
    c2 = c2
    Cpus = {c1, c2}
    Objects = {s1, s2, s3}
    Labels = {0}
    StartCapacity = 2
    HistCapacity = 2
    MaxSlot = 1
    Wrap = 32
    NsPerUs = 2
    MaxTime = 4
    MaxStarts = 4
    BucketMultiplier = 2
SYMMETRY Symmetry
CHECK_DEADLOCK FALSE
INVARIANTS TypeOK FreshWhenSerial SampledOnce EveryLatencyExported
