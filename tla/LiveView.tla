------------------------------- MODULE LiveView -------------------------------
(***************************************************************************)
(* The live screen (reporters/tui.py): what it makes of a snapshot of the  *)
(* heap, and what its keys do to the table, the header and the footer.     *)
(*                                                                         *)
(* A record is [tid, stack, size, n_allocations], its stack a sequence of  *)
(* locations, youngest first; a location stands for a function and a file. *)
(* Setting a reactive attribute runs its watchers at once.  Textual itself *)
(* is external: it runs one handler after the other.                       *)
(***************************************************************************)
EXTENDS Integers, SequencesExt, FiniteSetsExt, TLC

CONSTANTS
    Keys,       \* the keys that a user presses
    Height      \* of the graph, in blocks

ASSUME HeightAssumption == Height \in Nat \ {0}

VARIABLES
    screen,     \* the attributes of TUI
    table,      \* the attributes of AllocationTable, and its rows
    label,      \* the thread that the header names, and its number
    footer,     \* the keys that the footer shows
    status_message,  \* what the header says of the session
    maxval,     \* the highest value that the graph has had
    toggled,    \* history: has "m" ever been pressed?
    peak        \* history: the biggest heap that was fetched

view == <<screen, table, label, footer, status_message, maxval, toggled, peak>>

-----------------------------------------------------------------------------
(* Snapshots *)

MAX_MEMORY_RATIO == 95   \* per cent
NoLocation == "???"

SizeOf(records) == FoldLeft(LAMBDA sum, r : sum + r.size, 0, records)
CountOf(records) == FoldLeft(LAMBDA sum, r : sum + r.n_allocations, 0, records)

Locations(r) == IF r.stack = <<>> THEN {NoLocation} ELSE ToSet(r.stack)
OwnLocation(r) == IF r.stack = <<>> THEN NoLocation ELSE Head(r.stack)

\* Those that are looked at before the sizes of others reach the threshold.
BelowThreshold(allocations, heap_size) ==
    LET reached(i) == 100 * SizeOf(SubSeq(allocations, 1, i)) >= MAX_MEMORY_RATIO * heap_size
    IN SubSeq(allocations, 1, Cardinality({i \in DOMAIN allocations : ~reached(i - 1)}))

\* Mutant: a recursive function is counted once for each of its frames.
aggregate_allocations_with_recursion(allocations, heap_size) ==
    LET seen == BelowThreshold(allocations, heap_size)
        frames(r, l) == Cardinality({i \in DOMAIN r.stack : r.stack[i] = l})
    IN [l \in UNION {Locations(r) : r \in ToSet(seen)} |->
           LET here == SelectSeq(seen, LAMBDA r : l \in Locations(r)) IN
           [own_memory |-> SizeOf(SelectSeq(here, LAMBDA r : l = OwnLocation(r))),
            total_memory |-> FoldLeft(LAMBDA sum, r : sum + Max({1, frames(r, l)}) * r.size, 0, here),
            n_allocations |-> CountOf(here),
            thread_ids |-> {r.tid : r \in ToSet(here)}]]

aggregate_allocations(allocations, heap_size) ==
    LET seen == BelowThreshold(allocations, heap_size)
    IN [l \in UNION {Locations(r) : r \in ToSet(seen)} |->
           LET here == SelectSeq(seen, LAMBDA r : l \in Locations(r)) IN
           [own_memory |-> SizeOf(SelectSeq(here, LAMBDA r : l = OwnLocation(r))),
            total_memory |-> SizeOf(here),
            n_allocations |-> CountOf(here),
            thread_ids |-> {r.tid : r \in ToSet(here)}]]

\* What UpdateThread makes of a list of records, and what there is before it.
SnapshotOf(records) ==
    [fetched |-> TRUE, heap_size |-> SizeOf(records), tids |-> {r.tid : r \in ToSet(records)},
     records_by_location |-> aggregate_allocations(records, SizeOf(records))]
EmptySnapshot == [fetched |-> FALSE, heap_size |-> 0, tids |-> {}, records_by_location |-> <<>>]

-----------------------------------------------------------------------------
(* The table and the graph *)

\* KEY_TO_COLUMN_NAME
ColumnValue(entry, column) ==
    CASE column = 1 -> entry.total_memory
      [] column = 3 -> entry.own_memory
      [] column = 5 -> entry.n_allocations

SortedRows(rows, column) ==
    SetToSortSeq(rows, LAMBDA a, b : ColumnValue(a, column) > ColumnValue(b, column))

populate_table(t) ==
    LET entries == t.snapshot.records_by_location
        shown == {l \in DOMAIN entries : t.merge_threads \/ t.current_thread \in entries[l].thread_ids}
    IN [t EXCEPT !.rows = SortedRows({entries[l] @@ [location |-> l] : l \in shown}, t.sort_column_id)]

\* The watchers of the table's attributes, each after its assignment.
WithCurrentThread(t, tid) == populate_table([t EXCEPT !.current_thread = tid])
WithMergeThreads(t, merge) == populate_table([t EXCEPT !.merge_threads = merge])
WithSnapshot(t, snapshot) == populate_table([t EXCEPT !.snapshot = snapshot])

\* The scale of the graph grows with its values.
add_value(value) == maxval' = Max({maxval, value})

\* The blocks of a value in the graph, from the bottom, in half blocks.
value_to_blocks(value, max) ==
    LET dots == IF value > max THEN 2 * Height
                ELSE (value * 2 * Height + max - 1) \div max
    IN [i \in 1..Height |-> Min({2, Max({0, dots - 2 * (i - 1)})})]

-----------------------------------------------------------------------------
(* The screen *)

AllThreads == -1
DummyThreadList == <<0>>

CurrentThread(s) == s.threads[s.thread_idx + 1]

ThreadLabel(s) ==
    IF s.merge_threads THEN [tid |-> AllThreads, number |-> 0, of |-> 0]
    ELSE [tid |-> CurrentThread(s), number |-> s.thread_idx + 1, of |-> Len(s.threads)]

\* rewrite_bindings: the keys that the footer shows.
Footer(s) ==
    (Keys \ (IF ~s.paused /\ s.disconnected THEN {"space"} ELSE {}))
          \ (IF s.merge_threads THEN {"<", ">"} ELSE {})

\* update_label
StatusMessage(s) ==
    (IF s.paused THEN {"Table updates paused"} ELSE {})
    \cup (IF s.disconnected THEN {"Remote has disconnected"} ELSE {})

InitialScreen ==
    [merge_threads |-> TRUE, thread_idx |-> 0, threads |-> DummyThreadList, name_by_tid |-> {},
     paused |-> FALSE, disconnected |-> FALSE, latest |-> EmptySnapshot]
InitialTable ==
    [merge_threads |-> FALSE, current_thread |-> 0, snapshot |-> EmptySnapshot,
     sort_column_id |-> 1, rows |-> <<>>]

InitView ==
    /\ screen = InitialScreen /\ table = InitialTable
    /\ label = ThreadLabel(screen) /\ footer = Footer(screen) /\ status_message = {}
    /\ maxval = 1 /\ toggled = FALSE /\ peak = 0

\* Threads are numbered in the order they were first seen in.
WithNewThreads(s) ==
    LET new == s.latest.tids \ s.name_by_tid
        threads == IF s.threads = DummyThreadList /\ new # {} THEN <<>> ELSE s.threads
    IN [s EXCEPT !.name_by_tid = @ \cup s.latest.tids,
                 !.threads = threads \o SetToSortSeq(new, LAMBDA a, b : a < b)]

\* What display_snapshot does to a screen that has got a snapshot or has just
\* been unpaused.  The header's label is only renewed with the threads.
display_snapshot(s) ==
    IF ~s.latest.fetched THEN screen' = s /\ UNCHANGED <<table, label, maxval>>
    ELSE /\ add_value(s.latest.heap_size)
         /\ IF s.paused THEN screen' = s /\ UNCHANGED <<table, label>>
            ELSE LET n == WithNewThreads(s) IN
                 /\ screen' = n
                 /\ label' = IF n.threads # s.threads THEN ThreadLabel(n) ELSE label
                 /\ table' = WithSnapshot([table EXCEPT !.current_thread = CurrentThread(n)], n.latest)

watch_disconnected(s) ==
    IF s.disconnected = screen.disconnected THEN UNCHANGED <<status_message, footer>>
    ELSE status_message' = StatusMessage(s) /\ footer' = Footer(s)

on_snapshot_fetched(snapshot, disconnected) ==
    LET s == [screen EXCEPT !.latest = snapshot, !.disconnected = @ \/ disconnected]
    IN /\ display_snapshot(s) /\ watch_disconnected(s)
       /\ peak' = Max({peak, snapshot.heap_size})
       /\ UNCHANGED toggled

action_toggle_merge_threads ==
    LET s == [screen EXCEPT !.merge_threads = ~@]
    IN /\ screen' = s
       /\ table' = WithMergeThreads(table, s.merge_threads)
       /\ label' = ThreadLabel(s) /\ footer' = Footer(s) /\ toggled' = TRUE
       /\ UNCHANGED <<status_message, maxval, peak>>

watch_thread_idx(s) ==
    /\ label' = ThreadLabel(s)
    /\ table' = WithCurrentThread(table, CurrentThread(s))

\* action_previous_thread and action_next_thread.
GoToThread(idx) ==
    /\ ~screen.merge_threads
    /\ LET s == [screen EXCEPT !.thread_idx = idx % Len(screen.threads)]
       IN screen' = s /\ watch_thread_idx(s)
    /\ UNCHANGED <<footer, status_message, maxval, toggled, peak>>

action_toggle_pause ==
    /\ screen.paused \/ ~screen.disconnected
    /\ LET s == [screen EXCEPT !.paused = ~@]
       IN /\ IF s.paused THEN screen' = s /\ UNCHANGED <<table, label, maxval>>
                         ELSE display_snapshot(s)
          /\ footer' = Footer(s) /\ status_message' = StatusMessage(s)
    /\ UNCHANGED <<toggled, peak>>

action_sort(column) ==
    /\ table' = [table EXCEPT !.sort_column_id = column, !.rows = SortedRows(ToSet(@), column)]
    /\ UNCHANGED <<screen, label, footer, status_message, maxval, toggled, peak>>

Direction == ("<" :> -1) @@ (">" :> 1)
SortColumn == [t |-> 1, o |-> 3, a |-> 5]

Press(key) ==
    \/ key = "m" /\ action_toggle_merge_threads
    \/ key \in DOMAIN Direction /\ GoToThread(screen.thread_idx + Direction[key])
    \/ key \in DOMAIN SortColumn /\ action_sort(SortColumn[key])
    \/ key = "space" /\ action_toggle_pause

-----------------------------------------------------------------------------
(* What holds of the screen *)

\* Once "m" has been pressed, the table has the locations of the thread that
\* the header names, or of all, from the highest value of its sort column to
\* the lowest.  Before, the header says all threads and the table has one:
\* AllocationTable.merge_threads starts as False, TUI._merge_threads as True.
TableShowsSelection ==
    LET entries == table.snapshot.records_by_location
        selected(l) == IF toggled \/ label.tid # AllThreads
                       THEN label.tid = AllThreads \/ label.tid \in entries[l].thread_ids
                       ELSE CurrentThread(screen) \in entries[l].thread_ids
    IN /\ {row.location : row \in ToSet(table.rows)} = {l \in DOMAIN entries : selected(l)}
       /\ \A i \in 1..Len(table.rows) - 1 :
             ColumnValue(table.rows[i], table.sort_column_id) >= ColumnValue(table.rows[i + 1], table.sort_column_id)

\* The table has the newest snapshot unless it is paused.
FollowsUnlessPaused == screen.paused \/ table.snapshot = screen.latest

\* Each thread with an allocation in the table can be gone to with the keys,
\* once, and the header never names a thread that is not in the list.
EveryThreadSelectable ==
    /\ table.snapshot.tids \subseteq ToSet(screen.threads)
    /\ IsInjective(screen.threads)
    /\ screen.thread_idx \in 0..Len(screen.threads) - 1
    /\ label.tid # AllThreads => label = [tid |-> screen.threads[label.number],
                                         number |-> screen.thread_idx + 1, of |-> Len(screen.threads)]

\* populate_table divides by the size of the heap and by the number of all
\* allocations, and looks a percentage up in a table of 0 to 100.
PercentagesExist ==
    LET entries == table.snapshot.records_by_location
        num_allocations == MapThenSumSet(LAMBDA l : entries[l].n_allocations, DOMAIN entries)
    IN \A l \in DOMAIN entries :
          /\ table.snapshot.heap_size > 0 /\ num_allocations > 0
          /\ entries[l].own_memory <= entries[l].total_memory
          /\ entries[l].total_memory <= table.snapshot.heap_size

\* The locations of the table have at least MAX_MEMORY_RATIO of the heap as
\* their own memory, each byte once.
TableCoversHeap ==
    LET entries == table.snapshot.records_by_location
        own == MapThenSumSet(LAMBDA l : entries[l].own_memory, DOMAIN entries)
    IN /\ own <= table.snapshot.heap_size
       /\ 100 * own >= MAX_MEMORY_RATIO * table.snapshot.heap_size

\* The footer shows the keys that do something, and the header says why a table
\* does not change.
FooterTellsTruth ==
    /\ "Table updates paused" \in status_message <=> screen.paused
    /\ "Remote has disconnected" \in status_message <=> screen.disconnected
    /\ footer = {k \in Keys : /\ k = "space" => screen.paused \/ ~screen.disconnected
                              /\ k \in {"<", ">"} => ~screen.merge_threads}

\* The graph is scaled to the highest heap that was fetched, paused or not;
\* it is full for that one and not empty for any heap that is not.
GraphShowsPeak ==
    LET dots(value) == FoldFunction(+, 0, value_to_blocks(value, maxval))
    IN /\ maxval = Max({1, peak})
       /\ dots(0) = 0 /\ dots(maxval) = 2 * Height
       /\ \A value \in {peak, 1} : value > 0 => dots(value) > 0

\* Whatever was pressed and fetched, in whatever order, the table, the header,
\* the footer and the graph are of the newest snapshot, or of the one at which
\* the user has paused, and of the thread and the order that were chosen.
ScreenTellsTruth ==
    /\ TableShowsSelection /\ FollowsUnlessPaused /\ PercentagesExist /\ TableCoversHeap
    /\ EveryThreadSelectable /\ FooterTellsTruth /\ GraphShowsPeak
=============================================================================
