\* Native traces, mappings and images of one thread, with writes that fail.
CONSTANTS
    Tids = {1}
    Word = 8
    Codes = {f}
    Lines = {3}
    Ips = {1, 7}
    Addresses = {1}
    Names = {}
    Images = {lib}
    Sizes = {1}
    Allocators = {"mmap", "munmap"}
    PopLimit = 1
    NativeTraces = TRUE
    Faults = {"write"}
    Calls = {"trackAllocation", "trackDeallocation", "updateModuleCache"}
    MaxPops = 0
    MaxPushes = 1
    MaxImages = 1
    MaxRecords = 3
SPECIFICATION Spec
INVARIANTS ReaderInLockstep
