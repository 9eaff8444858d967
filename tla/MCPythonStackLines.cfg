\* One thread, deeper stacks, two functions and two lines: what is emitted,
\* popped and pushed again as frames move from line to line.
CONSTANTS
    NoThread = NoThread
    Threads = {t1}
    Codes = {f, g}
    Lines = {1, 2}
    MaxDepth = 3
    MaxGen = 1
    Faults = {"write", "rss"}
    MidCallCallbacks = {}
SYMMETRY Symmetry
SPECIFICATION Spec
INVARIANTS FrameOrder Attribution
