SPECIFICATION ProgSpec
CONSTANTS
    c1 = c1
    c2 = c2
    c3 = c3
    f1 = f1
    f2 = f2
    f3 = f3
    Cpus = {c1, c2, c3}
    Keys <- MCKeys
    Probed = {f1, f2}
    Names = {f1, f2, f3}
    Periods = {1, 2}
    Backlogs = {1, 2, 4}
    BucketMultiplier = 2
    Capacity = 2
    Amounts = {0, 1, 2}
    MaxAsked = 3
SYMMETRY Symmetry
CHECK_DEADLOCK FALSE
INVARIANTS TypeOK AllOrNothing Conservation CompleteWhenItFits
PROPERTIES CountsNeverDecrease ImplementsCounterMap
