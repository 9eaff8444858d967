--------------------------- MODULE MCReportCommand ---------------------------
\* ReportCommand for TLC.
EXTENDS ReportCommand

F(location, line) == [location |-> location, line |-> line]
EvalFrame == F("_PyEval_EvalFrameDefault", 1)
Vectorcall == F("vectorcall", 1)
MallocIn == F("native", 1)

\* A Python stack and the native stack it was found in; one that was inlined in
\* its caller's evaluation loop, with an import; one that is too deep; one of a
\* thread without Python frames; one whose loop was not recognized.
MCStacks ==
    [inner |-> [python |-> <<F("b", 1), F("a", 1)>>, entry |-> <<TRUE, TRUE>>,
                native |-> <<MallocIn, EvalFrame, Vectorcall, EvalFrame>>],
     imported |-> [python |-> <<F("b", 1), F("import", 1), F("a", 1)>>,
                   entry |-> <<FALSE, TRUE, TRUE>>,
                   native |-> <<EvalFrame, EvalFrame>>],
     deep |-> [python |-> <<F("a", 2), F("a", 3), F("runpy", 1), F("a", 1)>>,
               entry |-> <<TRUE, FALSE, FALSE, TRUE>>,
               native |-> <<MallocIn, EvalFrame, EvalFrame>>],
     nowhere |-> [python |-> <<>>, entry |-> <<>>, native |-> <<MallocIn>>],
     stripped |-> [python |-> <<F("b", 1)>>, entry |-> <<TRUE>>, native |-> <<MallocIn>>]]

MCWrites ==
    [all |-> <<{Allocation(1, "inner", "x", 2), Allocation(1, "deep", "x", 4), Allocation(2, "nowhere", "x", 0), MemoryRecord},
               {Allocation(2, "inner", "y", 2), Allocation(1, "imported", "y", 1), Deallocation(1, "x"), MemoryRecord},
               {Allocation(1, "stripped", "z", 8), Deallocation(1, "x"), Deallocation(2, "y"), MemoryRecord},
               {Allocation(2, "imported", "x", 1), Deallocation(1, "x"), MemoryRecord}>>,
     aggregated |->
             <<{AggregatedAllocation(1, "inner", [bytes |-> 2, allocations |-> 1], [bytes |-> 0, allocations |-> 0])},
               {AggregatedAllocation(2, "inner", [bytes |-> 3, allocations |-> 2], [bytes |-> 1, allocations |-> 1]),
                MemorySnapshot(3)}>>]

Line(name) ==
    [name |-> name, magic |-> FALSE, temporal |-> FALSE, leaks |-> FALSE, threshold |-> -1, merge_threads |-> TRUE,
     inverted |-> FALSE, force |-> FALSE, tilde |-> FALSE, json |-> FALSE,
     max_memory_records |-> 10000, biggest_allocs |-> 200, num_largest |-> 5]

MCCommands ==
    {Line("flamegraph"),
     [Line("flamegraph") EXCEPT !.inverted = TRUE, !.merge_threads = FALSE, !.leaks = TRUE, !.force = TRUE],
     [Line("flamegraph") EXCEPT !.temporal = TRUE, !.leaks = TRUE],
     [Line("flamegraph") EXCEPT !.temporal = TRUE, !.leaks = TRUE, !.threshold = 0],
     [Line("flamegraph") EXCEPT !.temporal = TRUE, !.leaks = TRUE, !.merge_threads = FALSE,
                                !.max_memory_records = 1, !.tilde = TRUE],
     [Line("table") EXCEPT !.threshold = 0],
     [Line("csv") EXCEPT !.leaks = TRUE, !.tilde = TRUE],
     Line("gprof2dot"),
     [Line("tree") EXCEPT !.biggest_allocs = 1],
     [Line("tree") EXCEPT !.threshold = 1],
     Line("summary"),
     [Line("summary") EXCEPT !.threshold = 1],
     Line("run"),
     [Line("run") EXCEPT !.force = TRUE],
     [Line("flamegraph") EXCEPT !.magic = TRUE, !.inverted = TRUE],
     [Line("flamegraph") EXCEPT !.magic = TRUE, !.threshold = 1],
     [Line("flamegraph") EXCEPT !.magic = TRUE, !.temporal = TRUE, !.leaks = TRUE, !.merge_threads = FALSE],
     Line("stats"),
     [Line("stats") EXCEPT !.json = TRUE, !.num_largest = 1]}
==============================================================================
