SPECIFICATION FairSpec
CONSTANTS
    k1 = k1
    k2 = k2
    k3 = k3
    k4 = k4
    skip = skip
    Order <- MCOrder
    LabelsOf <- MCLabelsOf
    Skip = skip
    Capacity = 3
    MaxCount = 1
    MaxLost = 1
    MaxRows = 3
INVARIANTS TypeOK NeverInflated NothingMissed
PROPERTIES SeriesNeverDecrease ScrapeEnds
CHECK_DEADLOCK FALSE
