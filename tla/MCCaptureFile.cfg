\* Pages of two bytes, a window of two pages, records that cross both.
CONSTANTS
    PageSize = 2
    BUFFER_SIZE = 4
    Formats = {"ALL_ALLOCATIONS", "AGGREGATED_ALLOCATIONS"}
    Values = {0, 1}
    MaxRecords = 3
    MaxFaults = 2
SPECIFICATION Spec
INVARIANTS FileHoldsStream CaptureIsReadable
CHECK_DEADLOCK FALSE
