SPECIFICATION ExportSpec
CONSTANTS
    sda = sda
    sdb = sdb
    SeriesLabels = {sda, sdb}
    Values = {0, 1, 2, 3, 4, 6, 7, 15, 16, 255, 256, 65535, 65536, 131072}
    Configs <- MCConfigs
    LastSlot = 17
    MaxEvents = 3
CHECK_DEADLOCK FALSE
INVARIANTS ExportIsComplete BucketsAreRanges
