---------------------------- MODULE HighWaterMark ----------------------------
(***************************************************************************)
(* HighWaterMarkAggregator and UsageHistory of snapshot.cpp: one pass over *)
(* the allocations and deallocations of a capture that tells, for every    *)
(* location, what it contributed to the highest heap of the whole run and  *)
(* to the highest heap between any two snapshots, without keeping a copy   *)
(* of the heap for each.  Peaks are numbered; a location remembers what it *)
(* contributed to the last peak that it knows of and what it did since,    *)
(* and brings that up to date only when it allocates or frees again.       *)
(*                                                                         *)
(* Sizes are integers here: the code's unsigned differences wrap around    *)
(* and back.                                                               *)
(***************************************************************************)
EXTENDS Integers, Sequences, Allocations, IntervalTree

VARIABLES
    ptr_to_allocation,       \* the live simple allocations, by address
    mmap_intervals,          \* the live mappings
    index_by_snapshot,       \* the number of the highest peak of each snapshot
    bytes_by_snapshot,       \* and its height
    peak_count,
    heap_size_at_last_peak,
    current_heap_size,
    usage_history,           \* a UsageHistory for each key
    removed,                 \* the RemovalStats that munmap has yet to record
    heap,                    \* history: what each key has on the heap
    peaks,                   \* history: for each snapshot, and the current one,
                             \* the latest highest heap: its height, its contents
    cancelled                \* history: keys that have ended a snapshot with as
                             \* many allocations as at its peak, but other bytes

peak_vars == <<index_by_snapshot, bytes_by_snapshot, peak_count, heap_size_at_last_peak,
               current_heap_size, usage_history>>
history_vars == <<heap, peaks, cancelled>>
vars == <<ptr_to_allocation, mmap_intervals, peak_vars, removed, history_vars>>

-----------------------------------------------------------------------------
UsageHistory(snapshot, peak, contributed, since, recorded) ==
    [last_known_snapshot |-> snapshot, last_known_peak |-> peak,
     contributed |-> contributed,      \* to the last known peak
     since |-> since,                  \* the last known peak
     recorded |-> recorded]            \* heap_contribution_by_snapshot

NewHistory == UsageHistory(0, 0, None, None, <<>>)

CurrentSnapshot == Len(index_by_snapshot)

Rebase(h, new_peak) ==
    IF h.last_known_peak = new_peak THEN h
    ELSE UsageHistory(h.last_known_snapshot, new_peak, Plus(h.contributed, h.since), None,
                      h.recorded)

LastRecorded(recorded) ==
    IF recorded = <<>> THEN None ELSE recorded[Len(recorded)].contrib

\* Only a contribution that differs from the one before it is recorded.
Record(recorded, snapshot, peak, contrib) ==
    IF LastRecorded(recorded) = contrib THEN recorded
    ELSE Append(recorded, [as_of_snapshot |-> snapshot, peak_index |-> peak, contrib |-> contrib])

\* One iteration of recordContributionsToCompletedSnapshots.
RecordContribution(h) ==
    LET snapshot == h.last_known_snapshot
        peak == index_by_snapshot[snapshot + 1]
        r == Rebase(h, peak)
        next == IF r.since.allocations # 0 THEN snapshot + 1 ELSE CurrentSnapshot
    IN UsageHistory(next, peak, r.contributed, r.since,
                    Record(r.recorded, snapshot, peak, r.contributed))

\* The loop, which by its comment fires at most twice (LoopFiresAtMostTwice).
RecordContributionsToCompletedSnapshots(h) ==
    IF h.last_known_snapshot = CurrentSnapshot THEN h
    ELSE LET once == RecordContribution(h)
         IN IF once.last_known_snapshot = CurrentSnapshot THEN once
            ELSE RecordContribution(once)

WithDelta(h, current_peak, delta) ==
    LET r == Rebase(RecordContributionsToCompletedSnapshots(h), current_peak)
    IN UsageHistory(r.last_known_snapshot, r.last_known_peak, r.contributed,
                    Plus(r.since, delta), r.recorded)

-----------------------------------------------------------------------------
Init ==
    /\ ptr_to_allocation = [a \in Addresses |-> NoAllocation]
    /\ mmap_intervals = {}
    /\ index_by_snapshot = <<>> /\ bytes_by_snapshot = <<>>
    /\ peak_count = 0 /\ heap_size_at_last_peak = 0 /\ current_heap_size = 0
    /\ usage_history = [k \in Keys |-> NewHistory]
    /\ removed = {}
    /\ heap = [k \in Keys |-> None]
    /\ peaks = <<[bytes |-> 0, heap |-> [k \in Keys |-> None]]>>
    /\ cancelled = {}

\* Mutant: a heap as high as the last peak is not a new peak.
RisingAbove == current_heap_size > heap_size_at_last_peak

\* On the rising edge of a peak, or on a peak from which nothing has fallen.
Rising == current_heap_size >= heap_size_at_last_peak

\* History: the latest of the highest heaps of a snapshot.
Highest(peak, size, contents) ==
    IF size >= peak.bytes THEN [bytes |-> size, heap |-> contents] ELSE peak

RecordUsageDelta(key, count_delta, bytes_delta) ==
    LET new_heap_size == current_heap_size + bytes_delta
        falls == Rising /\ new_heap_size < current_heap_size
        peak == IF falls THEN peak_count + 1 ELSE peak_count
        delta == Contribution(bytes_delta, count_delta)
    IN /\ peak_count' = peak
       /\ heap_size_at_last_peak' = IF falls THEN current_heap_size ELSE heap_size_at_last_peak
       /\ current_heap_size' = new_heap_size
       /\ usage_history' =
            [usage_history EXCEPT ![key] = WithDelta(usage_history[key], peak, delta)]
       /\ heap' = [heap EXCEPT ![key] = Plus(heap[key], delta)]
       /\ peaks' = [peaks EXCEPT ![Len(peaks)] = Highest(peaks[Len(peaks)], new_heap_size, heap')]
       /\ UNCHANGED <<index_by_snapshot, bytes_by_snapshot, cancelled>>

Quiet == removed = {}

\* addAllocation of a record of malloc and the like.
AddSimple(a, key, size) ==
    /\ Quiet /\ ptr_to_allocation[a] = NoAllocation
    /\ RecordUsageDelta(key, 1, size)
    /\ ptr_to_allocation' = [ptr_to_allocation EXCEPT ![a] = [key |-> key, size |-> size]]
    /\ UNCHANGED <<mmap_intervals, removed>>

\* addAllocation of a record of free; an address that is not known is ignored.
FreeSimple(a) ==
    /\ Quiet /\ ptr_to_allocation[a] # NoAllocation
    /\ RecordUsageDelta(ptr_to_allocation[a].key, -1, -ptr_to_allocation[a].size)
    /\ ptr_to_allocation' = [ptr_to_allocation EXCEPT ![a] = NoAllocation]
    /\ UNCHANGED <<mmap_intervals, removed>>

\* addAllocation of a record of mmap.
AddRanged(begin, end, key) ==
    /\ Quiet /\ begin < end /\ \A i \in mmap_intervals : ~Intersects(i, begin, end)
    /\ RecordUsageDelta(key, 1, end - begin)
    /\ mmap_intervals' = AddInterval(mmap_intervals, begin, end, key)
    /\ UNCHANGED <<ptr_to_allocation, removed>>

\* addAllocation of a record of munmap: a delta is recorded for each interval
\* that it frees, then for each that it shrinks, then for each that it splits.
FreeRanged(begin, end) ==
    /\ Quiet /\ begin < end
    /\ removed' = Removed(mmap_intervals, begin, end)
    /\ mmap_intervals' = RemoveInterval(mmap_intervals, begin, end)
    /\ UNCHANGED <<ptr_to_allocation, peak_vars, history_vars>>

\* Mutant: a mapping that is split counts as before.
RecordRemovedUncounted ==
    \E i \in removed :
        /\ \A j \in removed : i.remain <= j.remain
        /\ RecordUsageDelta(i.value, IF i.remain = 0 THEN -1 ELSE 0, -Size(i))
        /\ removed' = removed \ {i}
        /\ UNCHANGED <<ptr_to_allocation, mmap_intervals>>

RecordRemoved ==
    \E i \in removed :
        /\ \A j \in removed : i.remain <= j.remain
        /\ RecordUsageDelta(i.value, i.remain - 1, -Size(i))
        /\ removed' = removed \ {i}
        /\ UNCHANGED <<ptr_to_allocation, mmap_intervals>>

\* History: what a key did after the peak of a snapshot cancels out in number.
Cancels(k) ==
    /\ heap[k].allocations = peaks[Len(peaks)].heap[k].allocations
    /\ heap[k].bytes # peaks[Len(peaks)].heap[k].bytes

\* Mutant: the height of the last peak is kept.
CaptureSnapshotKeeping ==
    /\ Quiet
    /\ index_by_snapshot' = Append(index_by_snapshot, IF Rising THEN peak_count + 1 ELSE peak_count)
    /\ bytes_by_snapshot' =
         Append(bytes_by_snapshot, IF Rising THEN current_heap_size ELSE heap_size_at_last_peak)
    /\ peak_count' = peak_count + 1
    /\ peaks' = Append(peaks, [bytes |-> current_heap_size, heap |-> heap])
    /\ cancelled' = cancelled \cup {k \in Keys : Cancels(k)}
    /\ UNCHANGED <<ptr_to_allocation, mmap_intervals, current_heap_size, heap_size_at_last_peak,
                   usage_history, removed, heap>>

\* A snapshot starts as a peak, whatever the height of the heap.
CaptureSnapshot ==
    /\ Quiet
    /\ index_by_snapshot' = Append(index_by_snapshot, IF Rising THEN peak_count + 1 ELSE peak_count)
    /\ bytes_by_snapshot' =
         Append(bytes_by_snapshot, IF Rising THEN current_heap_size ELSE heap_size_at_last_peak)
    /\ peak_count' = peak_count + 1
    /\ heap_size_at_last_peak' = current_heap_size
    /\ peaks' = Append(peaks, [bytes |-> current_heap_size, heap |-> heap])
    /\ cancelled' = cancelled \cup {k \in Keys : Cancels(k)}
    /\ UNCHANGED <<ptr_to_allocation, mmap_intervals, current_heap_size, usage_history, removed, heap>>

Next ==
    \/ \E a \in Addresses, k \in SimpleKeys, n \in Sizes : AddSimple(a, k, n)
    \/ \E a \in Addresses : FreeSimple(a)
    \/ \E b, e \in Pages, k \in RangedKeys : AddRanged(b, e, k)
    \/ \E b, e \in Pages : FreeRanged(b, e)
    \/ RecordRemoved
    \/ CaptureSnapshot

Spec == Init /\ [][Next]_vars

-----------------------------------------------------------------------------
\* highWaterMarkContribution.  recorded is in the order of peak_index.
HighWaterMarkContribution(h, highest_peak) ==
    IF highest_peak < h.last_known_peak
    THEN LET until == {i \in 1..Len(h.recorded) : h.recorded[i].peak_index <= highest_peak}
         IN IF until = {} THEN None
            ELSE h.recorded[CHOOSE i \in until : \A j \in until : j <= i].contrib
    ELSE Rebase(h, highest_peak).contributed

LeaksContribution(h) == Plus(h.contributed, h.since)

\* contributionsBySnapshot, of which generateIndex makes intervals: the last
\* record counts from its snapshot on, each other until the next.
ContributionsBySnapshot(h, current_peak) ==
    LET completed == RecordContributionsToCompletedSnapshots(h)
        final == Rebase(completed, current_peak)
        hwm == final.contributed
        upto == Record(completed.recorded, CurrentSnapshot, current_peak, hwm)
    IN Record(upto, CurrentSnapshot + 1, -1, Plus(hwm, final.since))

FinalPeakCount == IF Rising THEN peak_count + 1 ELSE peak_count

\* Of a list of contributions, the one that counts at a snapshot.
AsOf(records, snapshot) ==
    LET until == {i \in 1..Len(records) : records[i].as_of_snapshot <= snapshot}
    IN IF until = {} THEN None
       ELSE records[CHOOSE i \in until : \A j \in until : j <= i].contrib

\* The interval of generateIndex that a snapshot is in.
InIndex(k, snapshot) ==
    AsOf(ContributionsBySnapshot(usage_history[k], FinalPeakCount), snapshot)

\* The number of the highest peak of all, as visitAllocations finds it: of
\* those of the snapshots the first, unless the heap was as high later.
HighestOfSnapshots ==
    LET snapshots == {s \in 1..CurrentSnapshot : bytes_by_snapshot[s] > 0}
    IN IF snapshots = {} THEN [index |-> 0, bytes |-> 0]
       ELSE LET s == CHOOSE s \in snapshots : \A t \in snapshots :
                        \/ bytes_by_snapshot[t] < bytes_by_snapshot[s]
                        \/ bytes_by_snapshot[t] = bytes_by_snapshot[s] /\ s <= t
            IN [index |-> index_by_snapshot[s], bytes |-> bytes_by_snapshot[s]]

HighestPeak ==
    LET best == HighestOfSnapshots
        last == IF heap_size_at_last_peak > best.bytes
                THEN [index |-> peak_count, bytes |-> heap_size_at_last_peak] ELSE best
    IN IF current_heap_size >= last.bytes
       THEN [index |-> peak_count + 1, bytes |-> current_heap_size] ELSE last

-----------------------------------------------------------------------------
Contributions == [bytes : Int, allocations : Int]
HistoricalContributions == [as_of_snapshot : Nat, peak_index : Int, contrib : Contributions]
Histories == [last_known_snapshot : Nat, last_known_peak : Nat, contributed : Contributions,
              since : Contributions, recorded : Seq(HistoricalContributions)]

AllocationsOK ==
    /\ ptr_to_allocation \in [Addresses -> [key : SimpleKeys, size : Sizes] \cup {NoAllocation}]
    /\ mmap_intervals \subseteq [begin : Nat, end : Nat, value : RangedKeys]
    /\ removed \subseteq [begin : Nat, end : Nat, value : RangedKeys, remain : 0..2]

PeaksOK ==
    /\ index_by_snapshot \in Seq(Nat)
    /\ bytes_by_snapshot \in Seq(Int) /\ Len(bytes_by_snapshot) = Len(index_by_snapshot)
    /\ peak_count \in Nat
    /\ heap_size_at_last_peak \in Int /\ current_heap_size \in Int
    /\ usage_history \in [Keys -> Histories]
    /\ heap \in [Keys -> Contributions]
    /\ peaks \in Seq([bytes : Int, heap : [Keys -> Contributions]])
    /\ Len(peaks) = Len(index_by_snapshot) + 1
    /\ cancelled \subseteq Keys

TypeOK == AllocationsOK /\ PeaksOK

\* The loop of recordContributionsToCompletedSnapshots needs no third
\* iteration, however many snapshots are newly completed.
LoopFiresAtMostTwice ==
    \A k \in Keys :
        RecordContributionsToCompletedSnapshots(usage_history[k]).last_known_snapshot = CurrentSnapshot

\* generateIndex ends, for each location, with its contribution to the highest
\* heap since the last snapshot and then with what it leaks.
IndexEndsRight ==
    \A k \in Keys : /\ InIndex(k, CurrentSnapshot) = peaks[CurrentSnapshot + 1].heap[k]
                    /\ InIndex(k, CurrentSnapshot + 1) = heap[k]

\* generateIndex has, for each location and each snapshot, what the location
\* had on the heap when the heap was highest in that snapshot, however long
\* ago it last allocated or freed; except for a location that has ended a
\* snapshot with as many allocations as at its peak, but other bytes.
IndexIsHeapAtPeak ==
    \A k \in Keys \ cancelled, s \in 0..CurrentSnapshot : InIndex(k, s) = peaks[s + 1].heap[k]

\* The numbers of allocations in the index are right without exception.
CountsAreRight ==
    \A k \in Keys, s \in 0..CurrentSnapshot :
        InIndex(k, s).allocations = peaks[s + 1].heap[k].allocations

-----------------------------------------------------------------------------
(* The inductive invariant behind these properties. *)

\* The number of the highest peak of a snapshot, the current one included.
PeakIndex(s) == IF s < CurrentSnapshot THEN index_by_snapshot[s + 1] ELSE FinalPeakCount

PeaksInOrder == \A s, u \in 0..CurrentSnapshot : s < u => PeakIndex(s) < PeakIndex(u)

\* A heap that has not fallen yet is the highest; otherwise the last peak is.
HighestOfCurrent ==
    LET last == peaks[CurrentSnapshot + 1]
    IN IF Rising THEN last = [bytes |-> current_heap_size, heap |-> heap]
       ELSE last.bytes = heap_size_at_last_peak

\* A location is up to date with its last known snapshot and peak, has what it
\* had then in all later peaks, and has recorded what it had in all earlier.
UpToDate(k, h) ==
    LET known == h.last_known_snapshot
    IN /\ known \in 0..CurrentSnapshot
       /\ h.last_known_peak <= peak_count /\ h.last_known_peak <= PeakIndex(known)
       /\ LeaksContribution(h) = heap[k]
       /\ Rebase(h, PeakIndex(known)).contributed = peaks[known + 1].heap[k]
       /\ \A s \in known + 1..CurrentSnapshot : peaks[s + 1].heap[k] = heap[k]

Recorded(k, h) ==
    /\ \A i \in 1..Len(h.recorded) : h.recorded[i].as_of_snapshot < h.last_known_snapshot
    /\ \A s \in 0..h.last_known_snapshot - 1 :
          /\ AsOf(h.recorded, s).allocations = peaks[s + 1].heap[k].allocations
          /\ k \notin cancelled => AsOf(h.recorded, s) = peaks[s + 1].heap[k]

\* What a location did after the peak of its last known snapshot cancels out
\* in bytes when it does in number.
CancelsOut(k, h) ==
    LET known == h.last_known_snapshot
    IN (known < CurrentSnapshot /\ heap[k].allocations = peaks[known + 1].heap[k].allocations)
       => (k \in cancelled \/ heap[k] = peaks[known + 1].heap[k])

\* What has been recorded is found by the number of a peak as by its snapshot,
\* and what has not since the last known peak is what there was at that peak.
KnowsPeaks(k, h) ==
    /\ \A i \in 1..Len(h.recorded) :
          h.recorded[i].peak_index = PeakIndex(h.recorded[i].as_of_snapshot)
    /\ k \notin cancelled =>
          \A s \in 0..h.last_known_snapshot - 1 : h.last_known_peak <= PeakIndex(s) =>
             Rebase(h, PeakIndex(s)).contributed = peaks[s + 1].heap[k]

HistoryOK(k, h) ==
    UpToDate(k, h) /\ Recorded(k, h) /\ CancelsOut(k, h) /\ KnowsPeaks(k, h)

HeightsRecorded ==
    \A s \in 0..CurrentSnapshot - 1 : bytes_by_snapshot[s + 1] = peaks[s + 1].bytes

HistoriesInv ==
    /\ TypeOK
    /\ PeaksInOrder
    /\ HighestOfCurrent
    /\ HeightsRecorded
    /\ \A k \in Keys : HistoryOK(k, usage_history[k])
=============================================================================
