---------------------------- MODULE ReportCommand ----------------------------
(***************************************************************************)
(* The commands that report on a capture file (commands/): check the       *)
(* names, read the file once for its peak and once more for the records    *)
(* the report is about, build the report, open the output file, write it.  *)
(* Meanwhile the tracked process may still be writing the capture, someone *)
(* may create the output file, and any call of the system may fail.        *)
(*                                                                         *)
(* The magic of IPython tracks a cell and then reports on its capture; the *)
(* command that makes captures, run, has an output file of its own.        *)
(***************************************************************************)
EXTENDS FileReader, Reporters, Histogram

CONSTANTS
    Nothing,      \* nothing yet
    CommandLines, \* the command lines
    Formats,     \* of capture files
    NativeTraces,    \* whether they have native traces
    Writes,      \* bound: the records that can be the first, second, ... of a file
    NumBins,     \* 10
    Faults       \* what may happen: "missing", "open", "reopen", "output", "write", "race"

ASSUME CommandAssumption ==
    /\ Nothing \notin CommandLines
    /\ \A c \in CommandLines :
          /\ c.name \in {"flamegraph", "table", "gprof2dot", "csv", "tree", "summary", "stats", "run"}
          /\ c.threshold \in Int    \* less than 0: none
          /\ c.magic => c.name = "flamegraph"
          /\ c.temporal => c.leaks    \* the other temporal report: see HighWaterMark
          /\ c.leaks => c.name \in {"flamegraph", "table", "gprof2dot", "csv"}

\* The records that can be in a file.
Writable == UNION {UNION Range(Writes[f]) : f \in Formats}

ASSUME WritesAssumption ==
    /\ \A f \in Formats : Writes[f] \in Seq(SUBSET Writable)
    /\ \A e \in Writable : e.kind = "allocation" => e.size \in Nat
    /\ "all" \in Formats =>
          \A e \in UNION Range(Writes["all"]) : e.kind \in {"allocation", "deallocation", "memory"}

VARIABLES
    format, native_traces, file,     \* the capture
    command,
    pc,
    reader,           \* the FileReader's
    records,          \* what the second pass gave
    report,           \* the reporter's, or the statistics
    output,           \* the output file: "none", "old", "theirs", "torn", "cut", "report"
    before,           \* history: what it was when it was looked for
    exit

capture == <<format, native_traces, file>>
reportVars == <<capture, command, pc, reader, records, report, output, before, exit>>

ReportInit ==
    /\ format \in Formats /\ native_traces \in NativeTraces /\ file = <<>>
    /\ command = Nothing /\ pc = "start"
    /\ reader = Nothing /\ records = Nothing /\ report = Nothing
    /\ output \in {"none", "old"} /\ before = "none"
    /\ exit = "none"

-----------------------------------------------------------------------------
(* The rest of the world. *)

\* An address is freed before it is allocated again, and freed once; what was
\* allocated before tracking began may be freed.
MayFollow(e) ==
    LET events == Events(file)
        live == \E i \in Live(events) : events[i].address = e.address
        known == \E i \in DOMAIN events : events[i].address = e.address
    IN CASE e.kind = "allocation" -> ~live
         [] e.kind = "deallocation" -> live \/ ~known
         [] OTHER -> TRUE

\* What is written before the file is read for the first time is there when the
\* command begins, as far as it can tell.
WriteRecord ==
    /\ pc = "start" \/ (reader # Nothing /\ pc # "done" /\ ~command.magic)
    /\ Len(file) < Len(Writes[format])
    /\ \E e \in Writes[format][Len(file) + 1] : MayFollow(e) /\ file' = Append(file, e)
    /\ UNCHANGED <<format, native_traces, command, pc, reader, records, report, output, before, exit>>

SomeoneWritesOutput ==
    /\ "race" \in Faults /\ pc \in {"open", "read", "target"} /\ output = "none"
    /\ ~command.magic
    /\ output' = "theirs"
    /\ UNCHANGED <<capture, command, pc, reader, records, report, before, exit>>

-----------------------------------------------------------------------------
(* The command. *)

Goto(where) == pc' = where /\ UNCHANGED <<capture, command, before, exit>>
Exits(how) == pc' = "done" /\ exit' = how /\ UNCHANGED <<capture, command, before>>

WritesFile == command.name \in {"flamegraph", "table", "gprof2dot", "csv"}
              \/ (command.name = "stats" /\ command.json)

\* TransformReporter takes its records only while it writes.
Transforms == command.name \in {"gprof2dot", "csv"}

\* The name is looked up as it is; ~ is expanded when the file is opened.
Exists == output # "none" /\ (command.tilde => command.name = "stats")

Run(c) ==
    /\ pc = "start" /\ c.name # "run" /\ ~c.magic
    /\ command' = c
    /\ IF c.temporal /\ c.threshold >= 0 THEN pc' = "done" /\ exit' = "usage"
       ELSE pc' = "validate" /\ UNCHANGED exit
    /\ UNCHANGED <<capture, reader, records, report, output, before>>

WillNotOverwrite == WritesFile /\ command.name # "stats" /\ ~command.force /\ Exists

\* Mutant: that the output exists is not looked at.
ValidateInput ==
    /\ pc = "validate"
    /\ before' = output
    /\ pc' = "open"
    /\ UNCHANGED <<capture, command, reader, records, report, output, exit>>

\* validate_filenames; stats looks at its output later.
Validate ==
    /\ pc = "validate"
    /\ before' = output
    /\ IF WillNotOverwrite THEN pc' = "done" /\ exit' = "1" ELSE pc' = "open" /\ UNCHANGED exit
    /\ UNCHANGED <<capture, command, reader, records, report, output>>

NoSuchFile ==
    /\ "missing" \in Faults /\ pc = "validate"
    /\ Exits("1") /\ UNCHANGED <<reader, records, report, output>>

\* The file cannot be opened, or looked at for its size.
FailToOpen ==
    /\ "open" \in Faults /\ pc = "open"
    /\ Exits(IF command.magic THEN "uncaught" ELSE "1") /\ UNCHANGED <<reader, records, report, output>>

OpenReader ==
    /\ pc = "open" /\ command.name # "stats"
    /\ reader' = FirstPass(file, format, command.max_memory_records)
    /\ Goto(IF Transforms THEN "output" ELSE "read")
    /\ UNCHANGED <<records, report, output>>

\* Not with a pre-aggregated file: this is not an OSError.
Unsupported == format = "aggregated" /\ (command.temporal \/ command.threshold >= 0)

\* Mutant: the second pass reads all there is.
RecordsOfAll ==
    LET now == FirstPass(file, format, 1) IN
    IF command.temporal THEN get_temporal_allocation_records(now, file, command.merge_threads)
    ELSE IF command.leaks THEN get_leaked_allocation_records(now, file, command.merge_threads)
    ELSE IF command.threshold >= 0
    THEN get_temporary_allocation_records(now, file, command.merge_threads, command.threshold)
    ELSE SnapshotAllocations(file, now.n_allocations, command.merge_threads)

\* What the second pass of write_report may give.
Records ==
    IF command.temporal THEN get_temporal_allocation_records(reader, file, command.merge_threads)
    ELSE IF command.leaks THEN get_leaked_allocation_records(reader, file, command.merge_threads)
    ELSE IF command.threshold >= 0
    THEN get_temporary_allocation_records(reader, file, command.merge_threads, command.threshold)
    ELSE get_high_watermark_allocation_records(reader, file, command.merge_threads)

HighWatermarkReport(rs) ==
    CASE command.name = "flamegraph" -> FlameGraphReport(rs, native_traces, command.inverted)
      [] command.name = "table" -> TableReport(rs, native_traces)

\* The file cannot be opened a second time.  SummaryReporter reads it where no
\* one looks for an OSError, TransformReporter while it writes, the magic always.
FailToReopen ==
    /\ pc = "read" \/ (pc = "render" /\ Transforms)
    /\ \/ "reopen" \in Faults /\ Exits(IF command.magic \/ command.name = "summary" \/ Transforms
                                        THEN "uncaught" ELSE "1")
       \/ Unsupported /\ Exits("uncaught")
    /\ UNCHANGED <<reader, records, report, output>>

Reports(rs, built, where) ==
    /\ records' = rs /\ report' = built
    /\ Goto(where) /\ UNCHANGED <<reader, output>>

\* flamegraph and table.
ReadToWrite ==
    /\ pc = "read" /\ WritesFile /\ ~Unsupported /\ ~command.magic
    /\ \E rs \in Records : Reports(rs, HighWatermarkReport(rs), "output")

\* tree never merges threads, summary does but for temporary allocations.
ReadTree ==
    /\ pc = "read" /\ command.name = "tree" /\ ~Unsupported
    /\ \E rs \in IF command.threshold >= 0
                 THEN get_temporary_allocation_records(reader, file, FALSE, command.threshold)
                 ELSE get_high_watermark_allocation_records(reader, file, FALSE) :
          Reports(rs, TreeReport(rs, native_traces, command.biggest_allocs), "render")

ReadSummary ==
    /\ pc = "read" /\ command.name = "summary" /\ ~Unsupported
    /\ \E rs \in IF command.threshold >= 0
                 THEN get_temporary_allocation_records(reader, file, FALSE, command.threshold)
                 ELSE get_high_watermark_allocation_records(reader, file, TRUE) :
          Reports(rs, SummaryReport(rs, native_traces), "render")

\* stats reads the file once, and then looks for its output.
ReadStatistics ==
    /\ pc = "open" /\ command.name = "stats"
    /\ IF format = "aggregated" THEN Exits("uncaught") /\ UNCHANGED report
       ELSE /\ report' = compute_statistics(file, command.num_largest)
            /\ IF command.json /\ ~command.force /\ Exists THEN Exits("1") ELSE Goto("histogram")
    /\ UNCHANGED <<reader, records, output>>

\* draw_histogram looks whether there is anything to draw, the JSON report not.
RenderHistogram ==
    /\ pc = "histogram"
    /\ LET data == report.allocation_count_by_size IN
       IF (DOMAIN data # {} \/ command.json) /\ (ValueError(data) \/ ZeroDivisionError(data))
       THEN Exits("uncaught") ELSE Goto(IF command.json THEN "output" ELSE "render")
    /\ UNCHANGED <<reader, records, report, output>>

\* Opening the output file cuts off what is in it.
OpenOutput ==
    /\ pc = "output"
    /\ \/ output' = "torn" /\ Goto("render")
       \/ "output" \in Faults /\ Exits("uncaught") /\ UNCHANGED output
    /\ UNCHANGED <<reader, records, report>>

\* A report that was built is rendered; the elided locations of a tree are
\* given as a percentage.
Render ==
    /\ pc = "render" /\ ~Transforms
    /\ IF command.name = "tree" /\ DividesByZero(report) THEN Exits("uncaught") ELSE Exits("0")
    /\ output' = IF WritesFile THEN "report" ELSE output
    /\ UNCHANGED <<reader, records, report>>

\* TransformReporter.render, which takes the records only now.
RenderTransform ==
    /\ pc = "render" /\ Transforms /\ ~Unsupported
    /\ \E rs \in Records :
          /\ records' = rs
          /\ report' = IF command.name = "csv" THEN render_as_csv(rs, native_traces)
                       ELSE render_as_gprof2dot(rs, native_traces)
    /\ output' = "report"
    /\ Exits("0")
    /\ UNCHANGED reader

\* A write fails, by which a report in a file is cut off; or the message that
\* comes after the report does.  Nobody looks for the error.
FailToWrite ==
    /\ "write" \in Faults
    /\ pc = "render" /\ (Transforms => ~Unsupported)
    /\ output' \in IF WritesFile THEN {"cut", "report"} ELSE {output}
    /\ Exits("uncaught")
    /\ UNCHANGED <<reader, records, report>>

-----------------------------------------------------------------------------
(* The magic %%memray_flamegraph *)

\* The format that the reports of the options can be made from.
MagicFormat(c) == IF c.temporal \/ c.threshold >= 0 THEN "all" ELSE "aggregated"

\* The cell has run, and left a capture in a new directory.
RunCell(c) ==
    /\ pc = "start" /\ c.magic
    /\ format = MagicFormat(c) /\ output = "none"
    /\ command' = c
    /\ IF c.temporal /\ c.threshold >= 0 THEN pc' = "done" /\ exit' = "usage"
       ELSE pc' = "open" /\ UNCHANGED exit
    /\ UNCHANGED <<capture, reader, records, report, output, before>>

ReadCell ==
    /\ pc = "read" /\ command.magic /\ ~Unsupported
    /\ \E rs \in Records : Reports(rs, FlameGraphReport(rs, native_traces, command.inverted), "output")

-----------------------------------------------------------------------------
(* memray run, with an output file *)

\* That the capture begins empty here is a bound: run does not read it.
RunProgram(c) ==
    /\ pc = "start" /\ c.name = "run" /\ file = <<>>
    /\ command' = c /\ pc' = "target"
    /\ UNCHANGED <<capture, exit, reader, records, report, output, before>>

\* What is to be run is Python, or not, or cannot be read.
validate_target_file ==
    /\ pc = "target"
    /\ Goto("create") \/ Exits("1") \/ Exits("uncaught")
    /\ UNCHANGED <<reader, records, report, output>>

\* The Tracker of the command creates the file and writes its header, or the
\* command ends with the error.  To look for a file and to create it is one.
CreateOutput ==
    /\ pc = "create" /\ before' = output
    /\ \/ /\ output = "none" \/ command.force
          /\ output' = "torn"
          /\ \/ pc' = "script" /\ UNCHANGED exit
             \/ "output" \in Faults /\ pc' = "done" /\ exit' = "1"
       \/ /\ (output # "none" /\ ~command.force) \/ "output" \in Faults
          /\ pc' = "done" /\ exit' = "1" /\ UNCHANGED output
    /\ UNCHANGED <<capture, command, reader, records, report>>

\* However the script ends, the tracker is left and its capture is complete, or
\* cut off where it could not be written any more (see CaptureFile); an OSError
\* of the script is taken for one of the tracker's.
ScriptEnds ==
    /\ pc = "script"
    /\ Exits("0") \/ Exits("1") \/ Exits("uncaught")
    /\ output' \in {"report"} \cup (IF "write" \in Faults THEN {"cut"} ELSE {})
    /\ UNCHANGED <<reader, records, report>>

Done == pc = "done" /\ UNCHANGED reportVars

Command ==
    \/ \E c \in CommandLines : Run(c) \/ RunCell(c) \/ RunProgram(c)
    \/ Validate \/ NoSuchFile \/ FailToOpen \/ OpenReader \/ FailToReopen
    \/ ReadToWrite \/ ReadTree \/ ReadSummary
    \/ ReadStatistics \/ RenderHistogram \/ OpenOutput \/ Render \/ RenderTransform \/ FailToWrite
    \/ ReadCell \/ validate_target_file \/ CreateOutput \/ ScriptEnds

ReportNext == Command \/ WriteRecord \/ SomeoneWritesOutput \/ Done

ReportSpec == ReportInit /\ [][ReportNext]_reportVars

-----------------------------------------------------------------------------
(* Properties. *)

ReportTypeOK ==
    /\ format \in Formats /\ native_traces \in NativeTraces
    /\ file \in Seq(Writable) /\ Len(file) <= Len(Writes[format])
    /\ command \in CommandLines \cup {Nothing}
    /\ pc \in {"start", "validate", "open", "read", "histogram", "output", "render", "done",
               "target", "create", "script"}
    /\ output \in {"none", "old", "theirs", "torn", "cut", "report"}
    /\ before \in {"none", "old", "theirs"}
    /\ exit \in {"none", "0", "1", "usage", "uncaught"}
    /\ (pc = "done") = (exit # "none")

Is(name) == command # Nothing /\ command.name = name
HasRecords == records # Nothing
FirstEventsRead == FirstEvents(file, reader.n_allocations)

\* A report is of the file as it was when it was first read, however much is
\* written before it is read again: its records add up to the peak in the
\* metadata beside them, or to all that was not freed by then.  A file that had
\* no events is the exception: one event of it is read all the same.
ReportIsOfFirstPass ==
    HasRecords /\ format = "all" /\ command.threshold < 0 /\ ~command.temporal =>
        IF command.leaks
        THEN /\ Sizes(records) = HeapSize(FirstEventsRead)
             /\ Counts(records) = Cardinality(Live(FirstEventsRead))
        ELSE reader.n_allocations > 0 => Sizes(records) = reader.high_watermark.peak_memory

IntervalBytes(r, k) ==
    MapThenSumSet(LAMBDA i : r.intervals[i].n_bytes, Alive(r.intervals, k))

\* The intervals of a temporal report that are alive at a snapshot add up to the
\* heap that the report draws for it, when all snapshots are kept; those that
\* never end, to what is not freed.
IntervalsMatchSnapshots ==
    HasRecords /\ command.temporal /\ reader.memory_snapshot_stride = 0 =>
        /\ \A k \in DOMAIN reader.memory_snapshots :
              MapThenSumSet(LAMBDA r : IntervalBytes(records[r], k), DOMAIN records)
                = reader.memory_snapshots[k]
        /\ MapThenSumSet(LAMBDA r : IntervalBytes(records[r], Len(file) + 1), DOMAIN records)
             = HeapSize(FirstEventsRead)

\* The event that frees an allocation.
Frees(events, i, j) ==
    /\ events[i].kind = "allocation" /\ events[j].kind = "deallocation"
    /\ j > i /\ events[j].address = events[i].address
    /\ \A k \in (i + 1)..(j - 1) : events[k].address # events[i].address

\* i is freed by its thread with at most threshold allocations between.
IsTemporary(events, i, threshold) ==
    \E j \in DOMAIN events :
        /\ Frees(events, i, j) /\ events[j].tid = events[i].tid
        /\ Cardinality({k \in (i + 1)..(j - 1) :
                events[k].kind = "allocation" /\ events[k].tid = events[i].tid}) <= threshold

\* The temporary allocations that are reported are those that their thread freed
\* before it had made more than so many others, if no thread frees what another
\* one has allocated.
TemporariesAreTemporary ==
    LET events == FirstEventsRead IN
    (/\ HasRecords /\ command.threshold >= 0 /\ ~command.temporal
     /\ \A i, j \in DOMAIN events : Frees(events, i, j) => events[i].tid = events[j].tid) =>
        LET temporary == {i \in DOMAIN events : IsTemporary(events, i, command.threshold)} IN
        /\ Counts(records) = Cardinality(temporary)
        /\ Sizes(records) = MapThenSumSet(LAMBDA i : events[i].size, temporary)

\* Without --force a command leaves a file alone that was there when the names
\* were checked, unless its name begins with ~; run also one that came later.
ExistingOutputKept ==
    command # Nothing /\ ~command.force /\ ~command.tilde /\ before # "none" => output = before

\* A command that fails before it writes leaves no half-written file behind,
\* except for transform, which reads its records while it writes, and run if it
\* cannot write the header.  A report that a failing write has cut off is left
\* behind, but then the command does not end as if it were there; run may.
TornOnlyByWriting ==
    /\ pc = "done" /\ output = "torn" =>
        \/ (Is("gprof2dot") \/ Is("csv")) /\ exit = "uncaught"
        \/ Is("run") /\ exit = "1"
    /\ output = "cut" => exit = "uncaught" \/ Is("run")

\* The magic never asks for a report that its capture cannot give.
MagicIsSupported == command # Nothing /\ command.magic /\ exit # "usage" => ~Unsupported

\* The output file is the user's until a report is ready for it.
OutputIsSafe == ReportTypeOK /\ ExistingOutputKept /\ TornOnlyByWriting /\ MagicIsSupported

\* A hybrid stack has the Python frames that a Python stack has, in order, and
\* the assertions of the code hold; unless not all evaluation loops were found,
\* or more frames are to be skipped than there are.
HybridKeepsPython ==
    HasRecords /\ native_traces =>
        \A i \in DOMAIN records :
            LET r == records[i]
                native == {r.native[n] : n \in DOMAIN r.native} IN
            /\ AssertionsHold(r)
            /\ ~RanOut(r) /\ (r.tid = MainTid => Skipped < Len(r.python)) =>
                 SelectSeq(hybrid_stack_trace(r, All), LAMBDA f : f \notin native) = stack_trace(r, All)

-----------------------------------------------------------------------------
(* What a flame graph and a tree are to show of the records. *)

Visible(stack) == SelectSeq(stack, LAMBDA f : ~is_cpython_internal(f))

\* The frames that lead to a node of a flame graph.
PathOf(nodes) ==
    LET path[i \in DOMAIN nodes] ==
            IF nodes[i].parent = 0 THEN <<>> ELSE Append(path[nodes[i].parent], nodes[i].frame)
    IN path

\* Each node is one path of one thread, with what the records have whose stacks
\* begin with it, as deep as stacks are followed; and no path is missing.
AddsUp(nodes, stacks) ==
    LET path == PathOf(nodes)
        of(r) == Take(stacks[r], MAX_STACKS + 2)
        under(i) == {r \in DOMAIN records : IsPrefix(path[i], of(r))
                        /\ (i # 1 => format_thread_name(records[r]) = nodes[i].thread)}
    IN /\ \A i \in DOMAIN nodes :
            /\ nodes[i].value = MapThenSumSet(LAMBDA r : records[r].size, under(i))
            /\ nodes[i].n_allocations = MapThenSumSet(LAMBDA r : records[r].n_allocations, under(i))
            /\ nodes[i].too_deep = \E r \in under(i) : Len(path[i]) = MAX_STACKS + 2
            /\ \A j \in DOMAIN nodes :
                  path[i] = path[j] /\ nodes[i].thread = nodes[j].thread => i = j
       /\ \A r \in DOMAIN records : \E i \in DOMAIN nodes : path[i] = of(r)

TraceOf(r) == Trace(records[r], native_traces, All)
FlameGraph == HasRecords /\ Is("flamegraph")

\* The flame graph adds up, as an icicle of the stacks and inverted; a temporal
\* one has no sizes but places each record's intervals at the node of its stack.
FlameGraphAddsUp ==
    FlameGraph =>
        LET oldestFirst == [r \in DOMAIN records |-> Visible(Reverse(TraceOf(r)))]
            youngestFirst == [r \in DOMAIN records |-> Visible(TraceOf(r))]
            withoutImports == [r \in DOMAIN records |-> Visible(drop_import_system_frames(TraceOf(r)))]
            stacks == IF command.inverted THEN youngestFirst ELSE oldestFirst
        IN /\ AddsUp(report.nodes, stacks)
           /\ command.inverted => AddsUp(report.no_imports, withoutImports)
           /\ \A r \in DOMAIN records :
                PathOf(report.nodes)[report.ends[r]] = Take(stacks[r], MAX_STACKS + 2)

\* A node is marked as of the import system when a frame on its path is, whoever
\* was the first to get there; the second inverted graph has no such frame.
ImportsAreMarked ==
    FlameGraph =>
        IF command.inverted
        THEN \A i \in DOMAIN report.no_imports : ~is_frame_from_import_system(report.no_imports[i].frame)
        ELSE LET path == PathOf(report.nodes) IN
             \A i \in DOMAIN report.nodes :
                report.nodes[i].import_system
                    = \E n \in DOMAIN path[i] : is_frame_from_import_system(path[i][n])

\* The tree of the biggest records adds up, and with the others to all of them;
\* whatever is hidden, no node of the screen has less than the nodes below it.
TreeAddsUp ==
    HasRecords /\ Is("tree") =>
        LET biggest == Take(SortedBySize(records), command.biggest_allocs)
            path(r) == TreePath(Trace(biggest[r], native_traces, All))
            under(p) == {r \in DOMAIN biggest : IsPrefix(p, path(r))}
            tree == report.tree
            below(shown, p) == {q \in shown \ {<<>>} : ShownParent(shown, q) = p}
        IN /\ tree[<<>>].value = Sizes(records) /\ tree[<<>>].n_allocations = Counts(records)
           /\ report.elided.n_locations = Len(records) - Len(biggest)
           /\ \A p \in DOMAIN tree \ {<<>>} :
                tree[p].value = MapThenSumSet(LAMBDA r : biggest[r].size, under(p))
           /\ \A hideImports, hideUninteresting \in BOOLEAN :
                LET shown == Shown(tree, hideImports, hideUninteresting) IN
                \A p \in shown :
                    tree[p].value >= MapThenSumSet(LAMBDA q : tree[q].value, below(shown, p))
                                     + IF p = <<>> THEN report.elided.n_bytes ELSE 0

\* The rows of a summary have at least 95 percent of the memory as their own, none
\* twice, and no row has more in total than there is.
SummaryCovers ==
    HasRecords /\ Is("summary") =>
        LET own == MapThenSumSet(LAMBDA l : report.entries[l].own_memory, DOMAIN report.entries) IN
        /\ 100 * own >= MAX_MEMORY_RATIO * report.current_memory_size
        /\ own <= report.current_memory_size
        /\ \A l \in DOMAIN report.entries :
              /\ report.entries[l].own_memory <= report.entries[l].total_memory
              /\ report.entries[l].total_memory <= report.current_memory_size

\* The numbers by which the JSON of a flame graph and of gprof2dot name strings
\* and functions lead back to what was meant, and none is there twice.
IndicesDecode ==
    /\ FlameGraph =>
         LET nodes == generate_nodes(report.nodes) IN
         /\ IsInjective(nodes.strings)
         /\ \A i \in DOMAIN report.nodes :
              /\ nodes.strings[nodes.location[i]] = LocationOf(report.nodes[i])
              /\ nodes.strings[nodes.thread[i]] = report.nodes[i].thread
    /\ HasRecords /\ Is("gprof2dot") =>
         LET chains == [e \in DOMAIN report.events |->
                [n \in DOMAIN report.events[e].callchain |-> report.functions[report.events[e].callchain[n]]]]
             stacks == SelectSeq([r \in DOMAIN records |-> TraceOf(r)], LAMBDA s : s # <<>>)
         IN /\ IsInjective(report.functions)
            /\ chains = [e \in DOMAIN stacks |-> [n \in DOMAIN stacks[e] |-> stacks[e][n].location]]

\* The statistics add up, and the bins of the histogram count every allocation
\* once.  They have no gaps, and each size lies in what the JSON report gives as
\* the range of its bin; or it is one more, where the bound has been rounded.
StatisticsAddUp ==
    report # Nothing /\ Is("stats") =>
        LET data == report.allocation_count_by_size
            bins == describe_histogram_databins(get_histogram_databins(data, NumBins))
        IN /\ report.total_num_allocations = MapThenSumSet(LAMBDA s : data[s], DOMAIN data)
           /\ report.total_memory_allocated = MapThenSumSet(LAMBDA s : s * data[s], DOMAIN data)
           /\ ~ValueError(data) /\ ~ZeroDivisionError(data) =>
                /\ MapThenSumSet(LAMBDA b : bins[b].count, DOMAIN bins) = report.total_num_allocations
                /\ \A b \in DOMAIN bins \ {1} : bins[b].min_bytes = bins[b - 1].max_bytes + 1
                /\ \A s \in DOMAIN data :
                     LET bin == bins[Bucket(s, data, NumBins) + 1]
                     IN bin.min_bytes <= s /\ s <= bin.max_bytes + 1

\* The stacks that reports show are those of the records: what hybrid stacks, the
\* marks of the import system and the indices of the JSON formats make of them
\* loses no frame and adds none.
StacksAreKept == HybridKeepsPython /\ ImportsAreMarked /\ IndicesDecode

\* Each report adds up to the records it was made from.
ReportsAddUp == FlameGraphAddsUp /\ TreeAddsUp /\ SummaryCovers /\ StatisticsAddUp
=============================================================================
