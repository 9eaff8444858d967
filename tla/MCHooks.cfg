CONSTANTS
    Threads = {t1, t2, t3}
    Addresses = {a1, a2}
    Functions = {"malloc", "free", "munmap", "realloc", "realloc_0", "pymalloc_malloc", "pymalloc_free", "pymalloc_realloc"}
SYMMETRY Symmetry
SPECIFICATION HooksSpec
INVARIANTS ReaderErrsOnlyOnReuse RecordedOnce
