\* Two threads whose frames, names and allocations take turns, and a process that
\* is killed at any moment.
CONSTANTS
    Tids = {1, 2}
    Word = 8
    Codes = {f}
    Lines = {1,3}
    Ips = {}
    Addresses = {1}
    Names = {n}
    Images = {}
    Sizes = {1}
    Allocators = {"malloc"}
    PopLimit = 1
    NativeTraces = FALSE
    Faults = {"kill"}
    Calls = {"trackAllocation", "registerThreadName", "captureMemorySnapshot", "forgetPythonStack"}
    MaxPops = 2
    MaxPushes = 2
    MaxImages = 0
    MaxRecords = 5
SPECIFICATION FairSpec
INVARIANTS ReaderInLockstep ReaderFailsOnlyOnTornRecords
PROPERTIES DeliversLog
