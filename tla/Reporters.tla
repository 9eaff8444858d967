------------------------------ MODULE Reporters ------------------------------
(***************************************************************************)
(* What each reporter builds of the records it is given.                   *)
(*                                                                         *)
(* A frame is [location, line], its location the function and file.  The   *)
(* strings by which the code recognizes a frame of the import system, of   *)
(* runpy or of the interpreter are sets of locations.                      *)
(***************************************************************************)
EXTENDS StackTraces

CONSTANTS
    MAX_STACKS,
    CPythonInternal,    \* is_cpython_internal
    ImportSystem,       \* is_frame_from_import_system
    Runpy               \* the other frames that are not interesting

ASSUME DepthAssumption == MAX_STACKS \in Nat

NoTrace == [location |-> "???", line |-> 0]

is_cpython_internal(f) == f.location \in CPythonInternal
is_frame_from_import_system(f) == f.location \in ImportSystem
is_frame_interesting(f) == f.location \notin Runpy /\ ~is_cpython_internal(f)

Sizes(records) == FoldLeft(LAMBDA sum, r : sum + r.size, 0, records)
Counts(records) == FoldLeft(LAMBDA sum, r : sum + r.n_allocations, 0, records)
-----------------------------------------------------------------------------
(* The tree.  A node is known by the frames that lead to it; <<>> is ROOT_NODE. *)

\* Stable, the biggest first.
SortedBySize(records) ==
    LET before(i) == {j \in DOMAIN records :
            \/ records[j].size > records[i].size
            \/ records[j].size = records[i].size /\ j < i}
    IN [k \in DOMAIN records |-> records[CHOOSE i \in DOMAIN records : Cardinality(before(i)) = k - 1]]

\* The frames that get a node.  The index that ends the walk counts the
\* interpreter's frames, which get none and do not end it.
TreePath(stack) ==
    LET frames == Reverse(stack)
        shown == {i \in DOMAIN frames : ~is_cpython_internal(frames[i])}
        tooDeep == {i \in shown : i - 1 > MAX_STACKS}
        last == IF tooDeep = {} THEN Len(frames) ELSE Min(tooDeep)
    IN SelectSeq(SubSeq(frames, 1, last), LAMBDA f : ~is_cpython_internal(f))

NewNode(path) ==
    LET frame == path[Len(path)]
        imported == path # <<>> /\ is_frame_from_import_system(frame) IN
    [value |-> 0, n_allocations |-> 0, thread |-> "",
     import_system |-> imported,
     interesting |-> path = <<>> \/ (~imported /\ is_frame_interesting(frame))]

AddToTree(tree, r, native_traces) ==
    LET path == TreePath(Trace(r, native_traces, All)) IN
    [p \in DOMAIN tree \cup Prefixes(path) |->
        LET node == IF p \in DOMAIN tree THEN tree[p] ELSE NewNode(p) IN
        IF p \notin Prefixes(path) THEN node
        ELSE [node EXCEPT !.value = @ + r.size, !.n_allocations = @ + r.n_allocations,
                          !.thread = IF p = <<>> THEN @ ELSE format_thread_name(r)]]

\* TreeReporter.from_snapshot
TreeReport(records, native_traces, biggest_allocs) ==
    LET sorted == SortedBySize(records)
        elided == SubSeq(sorted, Min({biggest_allocs, Len(sorted)}) + 1, Len(sorted))
        tree == FoldLeft(LAMBDA t, r : AddToTree(t, r, native_traces),
                         [p \in {<<>>} |-> NewNode(<<>>)], Take(sorted, biggest_allocs))
    IN [tree |-> [tree EXCEPT ![<<>>].value = @ + Sizes(elided),
                              ![<<>>].n_allocations = @ + Counts(elided)],
        elided |-> [n_locations |-> Len(elided), n_allocations |-> Counts(elided),
                    n_bytes |-> Sizes(elided)]]

\* The nodes that TreeScreen adds: a node that fails the import filter goes
\* with all below it, one that fails the other filter leaves its children to
\* the nearest node above it that is shown.
Shown(tree, hideImports, hideUninteresting) ==
    {p \in DOMAIN tree :
        /\ p = <<>> \/ (hideUninteresting => tree[p].interesting)
        /\ hideImports => \A q \in Prefixes(p) : ~tree[q].import_system}

ShownParent(shown, p) ==
    SubSeq(p, 1, Max({n \in 0..(Len(p) - 1) : SubSeq(p, 1, n) \in shown}))

\* The percentage of the hidden locations is taken of the root's value even
\* when it is 0; that of a node only when its own is not.
DividesByZero(report) == report.elided.n_locations > 0 /\ report.tree[<<>>].value = 0
-----------------------------------------------------------------------------
(* The flame graph.  frames[1] is the root; a node's parent comes before it. *)

create_root_node ==
    [parent |-> 0, frame |-> NoTrace, thread |-> "0x0", value |-> 0, n_allocations |-> 0,
     interesting |-> TRUE, import_system |-> FALSE, too_deep |-> FALSE]

\* Mutant: nodes of another thread are taken for the same.
AddFrameOfAnyThread(acc, frame, index, r, inverted) ==
    LET same == {i \in DOMAIN acc.frames :
            /\ acc.frames[i].parent = acc.current /\ acc.frames[i].frame = frame}
        imported == acc.import_system
                    \/ (~inverted /\ is_frame_from_import_system(frame))
        node == [parent |-> acc.current, frame |-> frame, thread |-> format_thread_name(r),
                 value |-> 0, n_allocations |-> 0,
                 interesting |-> is_frame_interesting(frame) /\ ~is_frame_from_import_system(frame),
                 import_system |-> imported, too_deep |-> FALSE]
        frames == IF same = {} THEN Append(acc.frames, node) ELSE acc.frames
        id == IF same = {} THEN Len(frames) ELSE Min(same)
        deep == index - acc.skipped > MAX_STACKS
    IN IF acc.broken THEN acc
       ELSE IF is_cpython_internal(frame) THEN [acc EXCEPT !.skipped = @ + 1]
       ELSE [frames |-> [frames EXCEPT ![id].value = @ + r.size,
                                       ![id].n_allocations = @ + r.n_allocations,
                                       ![id].too_deep = @ \/ deep],
             current |-> id, import_system |-> frames[id].import_system,
             skipped |-> acc.skipped, broken |-> deep]

\* One frame of a stack, when acc.current is the node of the one before it.
AddFrame(acc, frame, index, r, inverted) ==
    LET same == {i \in DOMAIN acc.frames :
            /\ acc.frames[i].parent = acc.current /\ acc.frames[i].frame = frame
            /\ acc.frames[i].thread = format_thread_name(r)}
        imported == acc.import_system
                    \/ (~inverted /\ is_frame_from_import_system(frame))
        node == [parent |-> acc.current, frame |-> frame, thread |-> format_thread_name(r),
                 value |-> 0, n_allocations |-> 0,
                 interesting |-> is_frame_interesting(frame) /\ ~is_frame_from_import_system(frame),
                 import_system |-> imported, too_deep |-> FALSE]
        frames == IF same = {} THEN Append(acc.frames, node) ELSE acc.frames
        id == IF same = {} THEN Len(frames) ELSE Min(same)
        deep == index - acc.skipped > MAX_STACKS
    IN IF acc.broken THEN acc
       ELSE IF is_cpython_internal(frame) THEN [acc EXCEPT !.skipped = @ + 1]
       ELSE [frames |-> [frames EXCEPT ![id].value = @ + r.size,
                                       ![id].n_allocations = @ + r.n_allocations,
                                       ![id].too_deep = @ \/ deep],
             current |-> id, import_system |-> frames[id].import_system,
             skipped |-> acc.skipped, broken |-> deep]

\* generate_frames: the nodes after a stack, and the node it ends at.
generate_frames(frames, stack, r, inverted) ==
    FoldLeft(LAMBDA acc, i : AddFrame(acc, stack[i], i - 1, r, inverted),
             [frames |-> [frames EXCEPT ![1].value = @ + r.size, ![1].n_allocations = @ + r.n_allocations],
              current |-> 1, import_system |-> FALSE, skipped |-> 0, broken |-> FALSE],
             [i \in 1..Len(stack) |-> i])

\* What is younger than the oldest frame of the import system goes with it:
\* the walk from the oldest frame stops there.
drop_import_system_frames(stack) ==
    LET imports == {i \in DOMAIN stack : is_frame_from_import_system(stack[i])}
    IN IF imports = {} THEN stack ELSE SubSeq(stack, Max(imports) + 1, Len(stack))

\* A record is added to the graph, or to both inverted graphs; ends holds the
\* node at which each record's stack ended, which its intervals name.
AddToFlameGraph(graph, r, native_traces, inverted) ==
    LET stack == Trace(r, native_traces, All)
        all == generate_frames(graph.nodes, IF inverted THEN stack ELSE Reverse(stack), r, inverted)
        some == generate_frames(graph.no_imports, drop_import_system_frames(stack), r, inverted)
    IN [nodes |-> all.frames, ends |-> Append(graph.ends, all.current),
        no_imports |-> IF inverted THEN some.frames ELSE <<>>]

FlameGraphReport(records, native_traces, inverted) ==
    FoldLeft(LAMBDA graph, r : AddToFlameGraph(graph, r, native_traces, inverted),
             [nodes |-> <<create_root_node>>, ends |-> <<>>,
              no_imports |-> IF inverted THEN <<create_root_node>> ELSE <<>>],
             records)

\* StringRegistry: each string once, in the order in which they were registered.
register(strings, s) == IF Contains(strings, s) THEN strings ELSE Append(strings, s)
IndexOf(strings, s) == CHOOSE i \in DOMAIN strings : strings[i] = s

\* A node at which stacks were cut off has lost its name.
LocationOf(node) == IF node.too_deep THEN "..." ELSE node.frame.location

\* generate_nodes: the strings of the nodes are replaced by their index.
generate_nodes(frames) ==
    LET strings == FoldLeft(LAMBDA ss, node : register(register(ss, LocationOf(node)), node.thread),
                            <<>>, frames)
    IN [strings |-> strings,
        location |-> [i \in DOMAIN frames |-> IndexOf(strings, LocationOf(frames[i]))],
        thread |-> [i \in DOMAIN frames |-> IndexOf(strings, frames[i].thread)],
        children |-> [i \in DOMAIN frames |-> {j \in DOMAIN frames : frames[j].parent = i}]]
-----------------------------------------------------------------------------
(* Tables. *)

NoEntry == [own_memory |-> 0, total_memory |-> 0, n_allocations |-> 0, thread_ids |-> {}]

\* One record in aggregate_allocations: every location of its stack once, the
\* youngest one's own memory; the threshold is looked at before it is added.
AggregateRecord(acc, r, native_traces) ==
    LET stack == Trace(r, native_traces, All)
        youngest == IF stack = <<>> THEN NoTrace.location ELSE stack[1].location
        here == {stack[i].location : i \in DOMAIN stack} \cup {youngest}
        entry(l) == IF l \in DOMAIN acc.entries THEN acc.entries[l] ELSE NoEntry
    IN [total |-> acc.total + r.size,
        entries |-> [l \in DOMAIN acc.entries \cup here |->
            IF l \notin here THEN entry(l)
            ELSE [own_memory |-> entry(l).own_memory + (IF l = youngest THEN r.size ELSE 0),
                  total_memory |-> entry(l).total_memory + r.size,
                  n_allocations |-> entry(l).n_allocations + r.n_allocations,
                  thread_ids |-> entry(l).thread_ids \cup {r.tid}]]]

\* The threshold is percent of threshold_of: a ratio without fractions.
aggregate_allocations(records, percent, threshold_of, native_traces) ==
    FoldLeft(LAMBDA acc, r : IF 100 * acc.total >= percent * threshold_of THEN acc
                             ELSE AggregateRecord(acc, r, native_traces),
             [total |-> 0, entries |-> <<>>], records).entries

MAX_MEMORY_RATIO == 95

\* SummaryReporter
SummaryReport(records, native_traces) ==
    [current_memory_size |-> Sizes(records),
     entries |-> aggregate_allocations(records, MAX_MEMORY_RATIO, Sizes(records), native_traces)]

\* TableReporter: one row for each record, with its youngest frame.
TableReport(records, native_traces) ==
    [i \in DOMAIN records |->
        LET trace == Trace(records[i], native_traces, 1) IN
        [tid |-> format_thread_name(records[i]), size |-> records[i].size,
         n_allocations |-> records[i].n_allocations,
         frame |-> IF trace = <<>> THEN NoTrace ELSE trace[1]]]

\* TransformReporter as gprof2dot: locations by number, an event for each
\* record that has a stack.
AddEvent(acc, r, native_traces) ==
    LET stack == Trace(r, native_traces, All)
        functions == FoldLeft(LAMBDA fs, f : register(fs, f.location), acc.functions, stack)
    IN IF stack = <<>> THEN acc
       ELSE [functions |-> functions,
             events |-> Append(acc.events,
                [callchain |-> [i \in DOMAIN stack |-> IndexOf(functions, stack[i].location)],
                 cost |-> r.size])]

render_as_gprof2dot(records, native_traces) ==
    FoldLeft(LAMBDA acc, r : AddEvent(acc, r, native_traces), [functions |-> <<>>, events |-> <<>>], records)

\* TransformReporter as CSV.
render_as_csv(records, native_traces) ==
    [i \in DOMAIN records |->
        [size |-> records[i].size, num_allocations |-> records[i].n_allocations,
         tid |-> records[i].tid, stack_trace |-> Trace(records[i], native_traces, All)]]
==============================================================================
