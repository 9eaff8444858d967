------------------------------ MODULE FileReader ------------------------------
(***************************************************************************)
(* FileReader and compute_statistics of _memray.pyx: what the passes over  *)
(* a capture file make of it.  The file may grow between two passes, when  *)
(* the tracked process is still running.                                   *)
(*                                                                         *)
(* A capture of all allocations holds an event for each allocation and     *)
(* deallocation, and memory records; an aggregated one holds a record for  *)
(* each location, and snapshots of the heap.  Mappings are left out: the   *)
(* module Aggregators has them.                                            *)
(***************************************************************************)
EXTENDS Integers, Sequences, SequencesExt, FiniteSetsExt

CONSTANT Stacks     \* of each site: its Python and native stack, youngest first

NO_THREAD_INFO == 0

Allocation(tid, site, address, size) ==
    [kind |-> "allocation", tid |-> tid, site |-> site, address |-> address, size |-> size]
Deallocation(tid, address) == [kind |-> "deallocation", tid |-> tid, address |-> address]
MemoryRecord == [kind |-> "memory"]
AggregatedAllocation(tid, site, hwm, leaks) ==
    [kind |-> "aggregated", tid |-> tid, site |-> site, hwm |-> hwm, leaks |-> leaks]
MemorySnapshot(heap) == [kind |-> "snapshot", heap |-> heap]

IsEvent(e) == e.kind \in {"allocation", "deallocation"}
IsAggregated(e) == e.kind = "aggregated"

\* Some numbers in increasing order, and the elements of a sequence that have
\* these places in it.  (A set of places can be reasoned about, a test that is
\* given to SelectSeq cannot.)
InOrder(S) == [k \in 1..Cardinality(S) |-> CHOOSE i \in S : Cardinality({j \in S : j < i}) = k - 1]
Selected(s, places) ==
    LET order == InOrder(places) IN [k \in 1..Cardinality(places) |-> s[order[k]]]

Events(file) == Selected(file, {i \in DOMAIN file : IsEvent(file[i])})
\* The first events, of those that are there.
FirstEvents(file, n) == SubSeq(Events(file), 1, Min({n, Len(Events(file))}))

\* The allocations that are not freed, by their place in the file.
Live(events) ==
    {i \in DOMAIN events :
        /\ events[i].kind = "allocation"
        /\ \A j \in (i + 1)..Len(events) : events[j].address # events[i].address}
HeapSize(events) == MapThenSumSet(LAMBDA i : events[i].size, Live(events))

-----------------------------------------------------------------------------
(* The first pass. *)

\* HighWatermarkFinder.
HighWatermark(events) ==
    LET after(n) == HeapSize(SubSeq(events, 1, n))
        peak == Max({after(n) : n \in 0..Len(events)})
        there == {n \in DOMAIN events : after(n) = peak}
    IN [peak_memory |-> peak, index |-> IF there = {} THEN 0 ELSE Max(there) - 1]

\* An aggregated record counts as an allocation of what it had at the peak.
AggregatedHighWatermark(records) ==
    [peak_memory |-> MapThenSumSet(LAMBDA i : records[i].hwm.bytes, DOMAIN records),
     index |-> Max({Len(records), 1}) - 1]

MemorySnapshots(file) ==
    LET places == InOrder({i \in DOMAIN file : file[i].kind \in {"memory", "snapshot"}})
        heap(i) == IF file[i].kind = "snapshot" THEN file[i].heap
                   ELSE HeapSize(Events(SubSeq(file, 1, i)))
    IN [k \in DOMAIN places |-> heap(places[k])]

\* 0 if all are kept, otherwise every stride-th, from the first.
Stride(n, max) == IF n > max THEN (n + max - 1) \div max ELSE 0
EveryNth(s, stride) ==
    IF stride = 0 THEN s
    ELSE [k \in 1..((Len(s) + stride - 1) \div stride) |-> s[(k - 1) * stride + 1]]

\* FileReader.__cinit__
FirstPass(file, format, max_memory_records) ==
    LET aggregated == Selected(file, {i \in DOMAIN file : IsAggregated(file[i])})
        snapshots == MemorySnapshots(file)
        stride == Stride(Len(snapshots), max_memory_records)
    IN [format |-> format,
        n_allocations |-> Len(Events(file)) + Len(aggregated),
        high_watermark |-> IF format = "aggregated" THEN AggregatedHighWatermark(aggregated)
                           ELSE HighWatermark(Events(file)),
        memory_snapshot_stride |-> stride,
        memory_snapshots |-> EveryNth(snapshots, stride)]

-----------------------------------------------------------------------------
(* The second pass gives records, one for each location: its site, and its *)
(* thread unless threads are merged.  A table of hashes is in any order.   *)

Record(tid, site, size, n_allocations) ==
    [tid |-> tid, python |-> Stacks[site].python, native |-> Stacks[site].native,
     entry |-> Stacks[site].entry, size |-> size, n_allocations |-> n_allocations]

\* One record for each location of a list of allocations.  A merged location
\* keeps the thread of the first.
RecordsOf(allocations, merge_threads) ==
    LET here(i) == <<allocations[i].site,
                     IF merge_threads THEN NO_THREAD_INFO ELSE allocations[i].tid>>
        same(i) == {j \in DOMAIN allocations : here(j) = here(i)}
        firsts == InOrder({i \in DOMAIN allocations : i = Min(same(i))})
    IN [k \in DOMAIN firsts |->
          Record(allocations[firsts[k]].tid, allocations[firsts[k]].site,
                 MapThenSumSet(LAMBDA j : allocations[j].size, same(firsts[k])),
                 MapThenSumSet(LAMBDA j : allocations[j].n_allocations, same(firsts[k])))]

InAnyOrder(s) == {[k \in DOMAIN s |-> s[p[k]]] : p \in SetToSeqs(DOMAIN s)}

One(e) == [tid |-> e.tid, site |-> e.site, size |-> e.size, n_allocations |-> 1]

\* SnapshotAllocationAggregator, after so many events.
SnapshotAllocations(file, n, merge_threads) ==
    LET events == FirstEvents(file, n) IN
    {RecordsOf([k \in DOMAIN p |-> One(events[p[k]])], merge_threads) : p \in SetToSeqs(Live(events))}

\* Mutant: the threads share one list of what they remember.
RememberTogether(acc, e, max_items) ==
    LET found == {k \in DOMAIN acc.current : acc.current[k].tid = e.tid /\ acc.current[k].address = e.address}
    IN IF e.kind = "allocation" THEN [acc EXCEPT !.current = SubSeq(<<e>> \o @, 1, Min({max_items, Len(@) + 1}))]
       ELSE IF found = {} THEN acc
       ELSE [acc EXCEPT !.temporary = Append(@, One(acc.current[Min(found)]))]

\* TemporaryAllocationsAggregator.addAllocation: each thread remembers its last
\* allocations, the last first; what is freed is found but not forgotten.
RememberAllocation(acc, e, max_items) ==
    LET mine == SelectSeq(acc.current, LAMBDA c : c.tid = e.tid)
        others == SelectSeq(acc.current, LAMBDA c : c.tid # e.tid)
        found == {k \in DOMAIN mine : mine[k].address = e.address}
    IN IF e.kind = "allocation"
       THEN [acc EXCEPT !.current = SubSeq(<<e>> \o mine, 1, Min({max_items, Len(mine) + 1})) \o others]
       ELSE IF found = {} THEN acc
       ELSE [acc EXCEPT !.temporary = Append(@, One(mine[Min(found)]))]

TemporaryAllocations(file, n, max_items, merge_threads) ==
    InAnyOrder(RecordsOf(
        FoldLeft(LAMBDA acc, e : RememberAllocation(acc, e, max_items),
                 [current |-> <<>>, temporary |-> <<>>], FirstEvents(file, n)).temporary,
        merge_threads))

\* _reaggregate_allocations: what has no allocations is dropped.
Reaggregated(file, merge_threads, leaks) ==
    LET part(e) == IF leaks THEN e.leaks ELSE e.hwm
        kept == SelectSeq(file, LAMBDA e : IsAggregated(e) /\ part(e).allocations # 0)
    IN InAnyOrder(RecordsOf([k \in DOMAIN kept |->
           [tid |-> kept[k].tid, site |-> kept[k].site,
            size |-> part(kept[k]).bytes, n_allocations |-> part(kept[k]).allocations]], merge_threads))

get_high_watermark_allocation_records(reader, file, merge_threads) ==
    IF reader.format = "aggregated" THEN Reaggregated(file, merge_threads, FALSE)
    ELSE SnapshotAllocations(file, reader.high_watermark.index + 1, merge_threads)

get_leaked_allocation_records(reader, file, merge_threads) ==
    IF reader.format = "aggregated" THEN Reaggregated(file, merge_threads, TRUE)
    ELSE SnapshotAllocations(file, reader.n_allocations, merge_threads)

get_temporary_allocation_records(reader, file, merge_threads, threshold) ==
    TemporaryAllocations(file, reader.n_allocations, threshold + 1, merge_threads)

-----------------------------------------------------------------------------
(* Lifetimes. *)

Interval(born, died, n_allocations, n_bytes) ==
    [allocated_before_snapshot |-> born, deallocated_before_snapshot |-> died,
     n_allocations |-> n_allocations, n_bytes |-> n_bytes]
Never == -1     \* None

\* Mutant: memory records before the first event are not counted.
ReadLifetimeOfEvents(acc, e, stride) ==
    IF acc.left = 0 THEN acc
    ELSE IF e.kind = "memory"
    THEN IF acc.at = <<>> THEN acc
         ELSE [acc EXCEPT !.seen = @ + 1,
                          !.captured = IF stride = 0 \/ (acc.seen + 1) % stride = 0 THEN @ + 1 ELSE @]
    ELSE [acc EXCEPT !.left = @ - 1, !.at = Append(@, acc.captured)]

\* The memory records seen, the snapshots captured and the events left, after a
\* record of the file; allocations are numbered, their snapshots remembered.
ReadLifetime(acc, e, stride) ==
    IF acc.left = 0 THEN acc
    ELSE IF e.kind = "memory"
    THEN [acc EXCEPT !.seen = @ + 1,
                     !.captured = IF stride = 0 \/ (acc.seen + 1) % stride = 0 THEN @ + 1 ELSE @]
    ELSE [acc EXCEPT !.left = @ - 1, !.at = Append(@, acc.captured)]

\* The snapshots captured before each of the first n events.
CapturedBefore(file, n, stride) ==
    FoldLeft(LAMBDA acc, e : ReadLifetime(acc, e, stride),
             [seen |-> 0, captured |-> 0, left |-> n, at |-> <<>>], file).at

\* AllocationLifetimeAggregator: what is freed before another snapshot is
\* dropped; lifetimes of a location that are alike are added up, in any order
\* of the locations.
Lifetimes(file, n, stride, merge_threads) ==
    LET events == FirstEvents(file, n)
        at == CapturedBefore(file, n, stride)
        frees(i) == {j \in (i + 1)..Len(events) : events[j].address = events[i].address}
        died(i) == IF frees(i) = {} THEN Never ELSE at[Min(frees(i))]
        kept == {i \in DOMAIN events : events[i].kind = "allocation" /\ died(i) # at[i]}
        key(i) == [site |-> events[i].site,
                   tid |-> IF merge_threads THEN NO_THREAD_INFO ELSE events[i].tid]
        same(i) == {j \in kept : key(j) = key(i) /\ at[j] = at[i] /\ died(j) = died(i)}
        lifetime(i) == [key |-> key(i),
                        interval |-> Interval(at[i], died(i), Cardinality(same(i)),
                                              MapThenSumSet(LAMBDA j : events[j].size, same(i)))]
        lifetimes == {lifetime(i) : i \in kept}
        of(k) == SetToSeq({l \in lifetimes : l.key = k})
    IN {FlattenSeq([x \in DOMAIN keys |-> of(keys[x])]) : keys \in SetToSeqs({l.key : l \in lifetimes})}

\* TemporalAllocationGenerator: a record for each run of lifetimes of one key.
NextLifetime(records, lifetime) ==
    IF records # <<>> /\ Last(records).key = lifetime.key
    THEN [records EXCEPT ![Len(records)].intervals = Append(@, lifetime.interval)]
    ELSE Append(records, [key |-> lifetime.key, intervals |-> <<lifetime.interval>>])

TemporalRecord(r) ==
    [intervals |-> r.intervals] @@ Record(r.key.tid, r.key.site, 0, 0)

get_temporal_allocation_records(reader, file, merge_threads) ==
    {LET records == FoldLeft(NextLifetime, <<>>, ls) IN [k \in DOMAIN records |-> TemporalRecord(records[k])] :
        ls \in Lifetimes(file, reader.n_allocations, reader.memory_snapshot_stride, merge_threads)}

\* What the intervals have alive at the k-th snapshot, counted from 1.
Alive(intervals, k) ==
    {i \in DOMAIN intervals :
        /\ intervals[i].allocated_before_snapshot < k
        /\ \/ intervals[i].deallocated_before_snapshot = Never
           \/ k <= intervals[i].deallocated_before_snapshot}

-----------------------------------------------------------------------------
\* compute_statistics, a pass of its own.  The locations are the youngest
\* Python frames; of locations that are as large any may be left out.
compute_statistics(file, num_largest) ==
    LET allocations == SelectSeq(Events(file), LAMBDA e : e.kind = "allocation")
        location(i) == LET stack == Stacks[allocations[i].site].python
                       IN IF stack = <<>> THEN [location |-> "<unknown>", line |-> 0] ELSE stack[1]
        of(l) == {i \in DOMAIN allocations : location(i) = l}
        sizes == {allocations[i].size : i \in DOMAIN allocations}
        by_size(l) == MapThenSumSet(LAMBDA i : allocations[i].size, of(l))
        by_count(l) == Cardinality(of(l))
        top(by(_)) == LET ls == {location(i) : i \in DOMAIN allocations} IN
            SubSeq(SetToSortSeq(ls, LAMBDA l, m : by(l) > by(m)), 1, Min({num_largest, Cardinality(ls)}))
    IN [n_allocations |-> Len(Events(file)),
        total_num_allocations |-> Len(allocations),
        total_memory_allocated |-> MapThenSumSet(LAMBDA i : allocations[i].size, DOMAIN allocations),
        peak_memory_allocated |-> HighWatermark(Events(file)).peak_memory,
        allocation_count_by_size |->
            [s \in sizes |-> Cardinality({i \in DOMAIN allocations : allocations[i].size = s})],
        top_locations_by_size |-> top(by_size), top_locations_by_count |-> top(by_count)]
===============================================================================
