\* A capture ends after MaxRecords records: no deadlock.
CONSTANTS
    SimpleKeys = {k1, k2}
    RangedKeys = {m}
    Addresses = {a1, a2}
    Sizes = {1, 3}
    Pages = {0, 1, 2, 3}
    MaxRecords = 4
    MaxSnapshots = 3
SYMMETRY Symmetry
SPECIFICATION ReaderSpec
CHECK_DEADLOCK FALSE
INVARIANTS HistoriesInv DeltasAddUp IndexIsHeapAtPeak HighestIsHeapAtPeak FormatsAgree LifetimesAddUp
