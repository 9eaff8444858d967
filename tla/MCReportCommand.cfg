CONSTANTS
    Stacks <- MCStacks
    Eval <- EvalFrame
    MainTid = 1
    Skipped = 1
    All = All
    Nothing = Nothing
    MAX_STACKS = 1
    CPythonInternal = {"_PyEval_EvalFrameDefault", "vectorcall"}
    ImportSystem = {"import"}
    Runpy = {"runpy"}
    CommandLines <- MCCommands
    Formats = {"all", "aggregated"}
    NativeTraces = {TRUE, FALSE}
    Writes <- MCWrites
    NumBins = 3
    Faults = {"missing", "open", "reopen", "output", "write", "race"}
SPECIFICATION ReportSpec
INVARIANTS ReportIsOfFirstPass IntervalsMatchSnapshots TemporariesAreTemporary OutputIsSafe StacksAreKept ReportsAddUp
