------------------------ MODULE HighWatermarkFinder ------------------------
(***************************************************************************)
(* HighWatermarkFinder of snapshot.cpp, the first pass of a FileReader: it *)
(* finds the record after which the heap is highest.  The second pass, of  *)
(* a SnapshotAllocationAggregator, stops after that record.                *)
(***************************************************************************)
EXTENDS Integers, Allocations, IntervalTree

VARIABLES
    last_high_water_mark,        \* the number of a record, and the heap after it
    current_memory,
    allocations_seen,
    ptr_to_allocation_size,
    intervals

finder_vars == <<last_high_water_mark, current_memory, allocations_seen,
                 ptr_to_allocation_size, intervals>>

NoSize == -1

FinderInit ==
    /\ last_high_water_mark = [index |-> 0, peak_memory |-> 0]
    /\ current_memory = 0 /\ allocations_seen = 0
    /\ ptr_to_allocation_size = [a \in Addresses |-> NoSize]
    /\ intervals = {}

\* Mutant: a heap as high as the highest is not a new high water mark.
UpdatePeakAbove(memory) ==
    /\ current_memory' = memory
    /\ allocations_seen' = allocations_seen + 1
    /\ last_high_water_mark' =
         IF memory > last_high_water_mark.peak_memory
         THEN [index |-> allocations_seen, peak_memory |-> memory] ELSE last_high_water_mark

\* updatePeak, with the number of the record that is being processed.
UpdatePeak(memory) ==
    /\ current_memory' = memory
    /\ allocations_seen' = allocations_seen + 1
    /\ last_high_water_mark' =
         IF memory >= last_high_water_mark.peak_memory
         THEN [index |-> allocations_seen, peak_memory |-> memory] ELSE last_high_water_mark

ProcessSimple(a, size) ==
    /\ UpdatePeak(current_memory + size)
    /\ ptr_to_allocation_size' = [ptr_to_allocation_size EXCEPT ![a] = size]
    /\ UNCHANGED intervals

\* An address that is not known is a record all the same.
ProcessSimpleFree(a) ==
    /\ UpdatePeak(IF ptr_to_allocation_size[a] = NoSize THEN current_memory
                  ELSE current_memory - ptr_to_allocation_size[a])
    /\ ptr_to_allocation_size' = [ptr_to_allocation_size EXCEPT ![a] = NoSize]
    /\ UNCHANGED intervals

ProcessRanged(begin, end) ==
    /\ UpdatePeak(current_memory + (end - begin))
    /\ intervals' = AddInterval(intervals, begin, end, "mapping")
    /\ UNCHANGED ptr_to_allocation_size

ProcessRangedFree(begin, end) ==
    /\ UpdatePeak(current_memory - TotalSize(Removed(intervals, begin, end)))
    /\ intervals' = RemoveInterval(intervals, begin, end)
    /\ UNCHANGED ptr_to_allocation_size
=============================================================================
