\* Two threads and two trackers, one after the other.
CONSTANTS
    NoThread = NoThread
    Threads = {t1, t2}
    Codes = {f}
    Lines = {1}
    MaxDepth = 1
    MaxGen = 2
    Faults = {"write", "rss"}
    MidCallCallbacks = {}
SYMMETRY Symmetry
SPECIFICATION Spec
INVARIANTS IInv ShadowIsPythonStack ReaderInSync NoUseAfterClose
