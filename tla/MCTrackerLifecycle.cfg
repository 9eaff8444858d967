CONSTANTS
    Threads = {t1, t2, t3}
    NoThread = NoThread
    MaxTrackers = 2
    MaxForks = 1
    Faults = {"header", "statm", "rss", "write"}
    ForkInReload = FALSE
SPECIFICATION FairSpec
INVARIANTS WriterOutlivesItsUsers NothingLeftBehind
PROPERTIES EveryCallReturns
