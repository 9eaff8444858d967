----------------------------- MODULE Aggregators -----------------------------
(***************************************************************************)
(* The aggregators that turn the records of a capture into what memray     *)
(* reports, over the same records: HighWaterMarkAggregator, which a live   *)
(* tracker that aggregates runs in its process and temporal reports in the *)
(* reader's; HighWatermarkFinder and SnapshotAllocationAggregator, the two *)
(* passes of a FileReader; and AllocationLifetimeAggregator.               *)
(***************************************************************************)
EXTENDS HighWaterMark, HighWatermarkFinder, AllocationLifetime

CONSTANTS MaxRecords, MaxSnapshots

VARIABLE
    at_mark     \* history: the heap after the record of the high water mark

all_vars == <<vars, finder_vars, lifetime_vars, at_mark>>

ReaderInit ==
    /\ Init /\ FinderInit /\ LifetimeInit
    /\ at_mark = [k \in Keys |-> None]

\* A second pass over the file stops after the record of the high water mark.
\* get_high_watermark_allocation_records processes index + 1 records.
SecondPass ==
    at_mark' = IF last_high_water_mark'.index + 1 = allocations_seen' THEN heap' ELSE at_mark

Processes == Quiet /\ allocations_seen < MaxRecords

ReadSimple(a, k, n) ==
    /\ Processes
    /\ AddSimple(a, k, n) /\ ProcessSimple(a, n) /\ LifetimeSimple(a, k, n) /\ SecondPass

ReadSimpleFree(a) ==
    /\ Processes
    /\ FreeSimple(a) /\ ProcessSimpleFree(a) /\ LifetimeSimpleFree(a) /\ SecondPass

ReadRanged(b, e, k) ==
    /\ Processes
    /\ AddRanged(b, e, k) /\ ProcessRanged(b, e) /\ LifetimeRanged(b, e, k) /\ SecondPass

\* Addresses that were allocated before tracking began are freed, too.
ReadUnknownFree ==
    /\ Processes
    /\ UpdatePeak(current_memory)
    /\ UNCHANGED <<vars, ptr_to_allocation_size, intervals, lifetime_vars>>
    /\ SecondPass

ReadRangedFree(b, e) ==
    /\ Processes
    /\ FreeRanged(b, e) /\ ProcessRangedFree(b, e) /\ LifetimeRangedFree(b, e)
    /\ SecondPass

\* A memory record.
ReadMemoryRecord ==
    /\ Quiet /\ CurrentSnapshot < MaxSnapshots
    /\ CaptureSnapshot /\ LifetimeCapture
    /\ UNCHANGED <<finder_vars, at_mark>>

ReadRemoved ==
    /\ RecordRemoved
    /\ UNCHANGED <<finder_vars, lifetime_vars, at_mark>>

ReadNext ==
    \/ \E a \in Addresses, k \in SimpleKeys, n \in Sizes : ReadSimple(a, k, n)
    \/ \E a \in Addresses : ReadSimpleFree(a)
    \/ \E b, e \in Pages, k \in RangedKeys : ReadRanged(b, e, k)
    \/ \E b, e \in Pages : ReadRangedFree(b, e)
    \/ ReadUnknownFree
    \/ ReadRemoved
    \/ ReadMemoryRecord

ReaderSpec == ReaderInit /\ [][ReadNext]_all_vars

-----------------------------------------------------------------------------
\* getSnapshotAllocations of a SnapshotAllocationAggregator that has processed
\* the same records.
SnapshotAllocations(k) ==
    LET simple == {a \in Addresses : ptr_to_allocation[a].key = k}
        ranged == {i \in mmap_intervals : i.value = k}
        sizes == [a \in simple |-> ptr_to_allocation[a].size]
    IN Contribution(SumFunction(sizes) + TotalSize(ranged),
                    Cardinality(simple) + Cardinality(ranged))

HeapSize(contents) == SumFunction([k \in Keys |-> contents[k].bytes])

(* The inductive invariant behind the properties of these aggregators. *)

\* Mappings are there and do not overlap; only finitely much is allocated.
MappingsOK ==
    /\ IsFiniteSet(mmap_intervals) /\ IsFiniteSet(removed)
    /\ IsFiniteSet({a \in Addresses : ptr_to_allocation[a] # NoAllocation})
    /\ \A i \in mmap_intervals \cup removed : i.begin < i.end
    /\ \A i, j \in mmap_intervals : i # j => ~Intersects(i, j.begin, j.end)

\* HighWatermarkFinder keeps the same addresses, but not whose they are.
Mapping(i) == [begin |-> i.begin, end |-> i.end, value |-> "mapping"]

\* All that is live.
LiveMemory ==
    LET simple == {a \in Addresses : ptr_to_allocation[a] # NoAllocation}
    IN SumFunction([a \in simple |-> ptr_to_allocation[a].size]) + TotalSize(mmap_intervals)

FinderAgrees ==
    /\ current_memory = LiveMemory
    /\ ptr_to_allocation_size =
         [a \in Addresses |-> IF ptr_to_allocation[a] = NoAllocation THEN NoSize
                              ELSE ptr_to_allocation[a].size]
    /\ intervals = {Mapping(i) : i \in mmap_intervals}

\* What munmap has taken from a key and RecordRemoved has yet to.
Pending(k) ==
    LET ranged == {i \in removed : i.value = k}
    IN Contribution(TotalSize(ranged), SumFunction([i \in ranged |-> 1 - i.remain]))

HeapsAgree ==
    /\ \A k \in Keys : heap[k] = Plus(SnapshotAllocations(k), Pending(k))
    /\ current_heap_size = HeapSize(heap)
    /\ current_heap_size = current_memory + TotalSize(removed)

\* The finder has found the height of the highest peak, after some record.
MarkAgrees ==
    /\ allocations_seen \in Nat /\ last_high_water_mark \in [index : Nat, peak_memory : Nat]
    /\ \/ last_high_water_mark.index < allocations_seen
       \/ last_high_water_mark = [index |-> 0, peak_memory |-> 0]
    /\ \A s \in 0..CurrentSnapshot : peaks[s + 1].bytes <= last_high_water_mark.peak_memory
    /\ \E s \in 0..CurrentSnapshot : peaks[s + 1].bytes = last_high_water_mark.peak_memory
    /\ CurrentSnapshot = 0 => at_mark = peaks[1].heap

ReaderInv == MappingsOK /\ FinderAgrees /\ HeapsAgree /\ MarkAgrees

-----------------------------------------------------------------------------
\* The deltas that the aggregator records add up to what a
\* SnapshotAllocationAggregator has of each key, whatever munmap cuts up.
DeltasAddUp ==
    Quiet => /\ \A k \in Keys : heap[k] = SnapshotAllocations(k)
             /\ current_heap_size = HeapSize(heap)
             /\ current_heap_size = current_memory

\* visitAllocations finds the height that HighWatermarkFinder finds, which is
\* the highest of all, and reports what each location had on the heap at one
\* of the peaks of that height.
HighestIsHeapAtPeak ==
    Quiet => \E s \in 0..CurrentSnapshot :
        /\ \A t \in 0..CurrentSnapshot : peaks[t + 1].bytes <= peaks[s + 1].bytes
        /\ last_high_water_mark.peak_memory = peaks[s + 1].bytes
        /\ HighestPeak.bytes = peaks[s + 1].bytes
        /\ \A k \in Keys \ cancelled :
            HighWaterMarkContribution(usage_history[k], HighestPeak.index) = peaks[s + 1].heap[k]

\* Both formats of capture file give the same high water mark: what the
\* aggregator has in the tracker's process (where no snapshots are captured)
\* is what the two passes over a file of all allocations find.
FormatsAgree ==
    Quiet /\ CurrentSnapshot = 0 =>
        \A k \in Keys : HighWaterMarkContribution(usage_history[k], HighestPeak.index) = at_mark[k]

\* generateIndex of the lifetimes has, for each snapshot, what was live then,
\* and counts a mapping once; except for a location of which one munmap has
\* freed all that was left of a mapping, in several pieces.
LifetimesAddUp ==
    \A s \in 1..num_snapshots, k \in Keys :
        /\ InLifetimes(k, s).bytes = live_at[s][k].bytes
        /\ k \notin uncounted => InLifetimes(k, s).allocations = live_at[s][k].allocations
=============================================================================
