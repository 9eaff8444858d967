CONSTANTS
    Threads = {t1, t2}
    NoThread = NoThread
    MaxTrackers = 2
    MaxForks = 1
    Faults = {}
    ForkInReload = TRUE
SPECIFICATION FairSpec
CHECK_DEADLOCK FALSE
PROPERTIES EveryCallReturns
