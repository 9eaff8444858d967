-------------------------- MODULE AggregatorsProofs --------------------------
(***************************************************************************)
(* Proofs about HighWaterMark, for any locations, addresses and sizes and  *)
(* any number of records and snapshots, and about the aggregators that     *)
(* read the same records: what is proved of HighWaterMark holds of it      *)
(* among them, they agree on the heap and on its high water mark, and the  *)
(* lifetimes of allocations add up to what was live at each snapshot.      *)
(***************************************************************************)
EXTENDS Aggregators, SumTheorems

(* Contributions. *)

LEMMA PlusType ==
    ASSUME NEW c \in Contributions, NEW d \in Contributions
    PROVE  /\ Plus(c, d) \in Contributions
           /\ Plus(c, d).bytes = c.bytes + d.bytes
           /\ Plus(c, d).allocations = c.allocations + d.allocations
BY DEF Plus, Contribution, Contributions

\* The contribution of no allocation, and adding it.
LEMMA NoneType == None \in Contributions /\ None.bytes = 0 /\ None.allocations = 0
BY DEF None, Contribution, Contributions

\* To add no allocation to a contribution changes nothing.
LEMMA PlusNone ==
    ASSUME NEW c \in Contributions
    PROVE  Plus(c, None) = c /\ Plus(None, c) = c
BY DEF Plus, None, Contribution, Contributions

\* It does not matter in which order contributions are added up.
LEMMA PlusAssociates ==
    ASSUME NEW c \in Contributions, NEW d \in Contributions, NEW e \in Contributions
    PROVE  Plus(Plus(c, d), e) = Plus(c, Plus(d, e))
BY DEF Plus, Contribution, Contributions

\* A contribution is its two numbers.
LEMMA ContributionEquality ==
    ASSUME NEW c \in Contributions, NEW d \in Contributions,
           c.bytes = d.bytes, c.allocations = d.allocations
    PROVE  c = d
BY DEF Contributions

(* Lists of contributions. *)

\* A set of positions has a last one.
LEMMA LastPosition ==
    ASSUME NEW n \in Nat, NEW S \in SUBSET (1..n), S # {}
    PROVE  \E i \in S : \A j \in S : j <= i
<1> DEFINE T == {n - i : i \in S}
<1>1. T \in SUBSET Nat /\ T # {}
  <2>1. \A i \in S : i \in 1..n
    OBVIOUS
  <2>2. \A i \in 1..n : n - i \in Nat
    OBVIOUS
  <2> QED BY <2>1, <2>2
<1>2. IsWellFoundedOn(OpToRel(<, Nat), Nat)
  BY NatLessThanWellFounded
<1>3. PICK m \in T : \A k \in T : ~(<<k, m>> \in OpToRel(<, Nat))
  <2> HIDE DEF T
  <2> DEFINE R == OpToRel(<, Nat)
  <2>1. IsWellFoundedOn(R, Nat)
    BY <1>2
  <2> HIDE DEF R
  <2>2. \E x \in T : \A y \in T : ~(<<y, x>> \in R)
    BY <1>1, <2>1, WFMin
  <2> QED BY <2>2 DEF R
<1>4. \A k \in T : m <= k
  <2> HIDE DEF T
  <2>1. m \in Nat /\ \A k \in T : k \in Nat
    BY <1>1
  <2>2. \A k \in T : ~(k < m)
    BY <1>3, <2>1 DEF OpToRel
  <2> QED BY <2>1, <2>2
<1>5. PICK i \in S : m = n - i
  BY <1>3
<1>6. \A j \in S : j <= i
  BY <1>4, <1>5
<1> QED BY <1>6

\* The last of them that counts at a snapshot.
LEMMA AsOfLast ==
    ASSUME NEW records \in Seq(HistoricalContributions), NEW s \in Int,
           NEW n \in 1..Len(records), records[n].as_of_snapshot <= s,
           \A i \in n + 1..Len(records) : records[i].as_of_snapshot > s
    PROVE  AsOf(records, s) = records[n].contrib
<1> DEFINE until == {i \in 1..Len(records) : records[i].as_of_snapshot <= s}
           last == CHOOSE i \in until : \A j \in until : j <= i
<1>1. Len(records) \in Nat OBVIOUS
<1>2. \A i \in 1..Len(records) : records[i].as_of_snapshot \in Nat
  <2>1. \A i \in 1..Len(records) : records[i] \in HistoricalContributions
    OBVIOUS
  <2> QED BY <2>1 DEF HistoricalContributions
<1>3. n \in until
  OBVIOUS
<1>4. \A j \in until : j <= n
  BY <1>1, <1>2
<1>5. last \in until /\ \A j \in until : j <= last
  <2> HIDE DEF until
  <2> QED BY <1>3, <1>4
<1>6. last = n
  BY <1>1, <1>3, <1>4, <1>5
<1> QED
  BY <1>3, <1>6 DEF AsOf

\* Of a location whose every record is of a later snapshot nothing counts by s.
LEMMA AsOfNone ==
    ASSUME NEW records, NEW s,
           \A i \in 1..Len(records) : ~(records[i].as_of_snapshot <= s)
    PROVE  AsOf(records, s) = None
BY DEF AsOf

\* Two lists agree at a snapshot when they agree up to it.
LEMMA AsOfAppend ==
    ASSUME NEW records \in Seq(HistoricalContributions), NEW e \in HistoricalContributions,
           NEW s \in Int
    PROVE  AsOf(Append(records, e), s) =
             IF e.as_of_snapshot <= s THEN e.contrib ELSE AsOf(records, s)
<1> DEFINE longer == Append(records, e)
           n == Len(records)
<1>1. /\ longer \in Seq(HistoricalContributions)
      /\ Len(longer) = n + 1 /\ n \in Nat
      /\ longer[n + 1] = e
      /\ \A i \in 1..n : longer[i] = records[i]
  OBVIOUS
<1>2. /\ e.as_of_snapshot \in Nat
      /\ \A i \in 1..n : records[i].as_of_snapshot \in Nat
  <2>1. \A i \in 1..Len(records) : records[i] \in HistoricalContributions
    OBVIOUS
  <2> QED BY <2>1 DEF HistoricalContributions
<1> HIDE DEF longer, n
<1>3. CASE e.as_of_snapshot <= s
  <2>1. n + 1 \in 1..Len(longer) /\ longer[n + 1].as_of_snapshot <= s
    BY <1>1, <1>3
  <2>2. \A i \in (n + 1) + 1..Len(longer) : longer[i].as_of_snapshot > s
    BY <1>1
  <2>3. AsOf(longer, s) = longer[n + 1].contrib
    BY <1>1, <2>1, <2>2, AsOfLast
  <2> QED BY <1>1, <1>3, <2>3 DEF longer
<1>4. CASE ~(e.as_of_snapshot <= s)
  <2> DEFINE upto == {i \in 1..n : records[i].as_of_snapshot <= s}
  <2>1. {i \in 1..Len(longer) : longer[i].as_of_snapshot <= s} = upto
    BY <1>1, <1>2, <1>4
  <2>2. \A i \in upto : longer[i] = records[i]
    BY <1>1
  <2>3. CASE upto = {}
    BY <2>1, <2>3, <1>4 DEF AsOf, longer, n
  <2>4. CASE upto # {}
    <3> DEFINE last == CHOOSE i \in upto : \A j \in upto : j <= i
    <3>1. AsOf(longer, s) = longer[last].contrib
      BY <2>1, <2>4 DEF AsOf
    <3>2. AsOf(records, s) = records[last].contrib
      BY <2>4 DEF AsOf, n
    <3>3. upto \in SUBSET (1..n)
      OBVIOUS
    <3>4. last \in upto
      <4> HIDE DEF upto
      <4>1. \E i \in upto : \A j \in upto : j <= i
        BY <1>1, <2>4, <3>3, LastPosition
      <4> QED BY <4>1
    <3>5. longer[last] = records[last]
      BY <2>2, <3>4
    <3> QED
      BY <1>4, <3>1, <3>2, <3>5 DEF longer
  <2> QED BY <2>3, <2>4
<1> QED BY <1>3, <1>4

\* When all of them count, the last one does.
LEMMA AsOfAll ==
    ASSUME NEW records \in Seq(HistoricalContributions), NEW s \in Int,
           \A i \in 1..Len(records) : records[i].as_of_snapshot <= s
    PROVE  AsOf(records, s) = LastRecorded(records)
<1>1. CASE records = <<>>
  BY <1>1, AsOfNone DEF LastRecorded
<1>2. CASE records # <<>>
  <2>1. Len(records) \in 1..Len(records) /\ Len(records) + 1..Len(records) = {}
    BY <1>2
  <2> QED BY <1>2, <2>1, AsOfLast DEF LastRecorded
<1> QED BY <1>1, <1>2

\* What is recorded for a snapshot counts from it on, whether it makes a new
\* entry or not.
LEMMA RecordAsOf ==
    ASSUME NEW records \in Seq(HistoricalContributions), NEW snapshot \in Nat,
           NEW peak \in Int, NEW c \in Contributions,
           \A i \in 1..Len(records) : records[i].as_of_snapshot < snapshot
    PROVE  LET r == Record(records, snapshot, peak, c) IN
           /\ r \in Seq(HistoricalContributions)
           /\ \A i \in 1..Len(r) : r[i].as_of_snapshot <= snapshot
           /\ \A s \in Int : AsOf(r, s) = IF s < snapshot THEN AsOf(records, s) ELSE c
<1>1. \A i \in 1..Len(records) : records[i].as_of_snapshot \in Nat
  <2>1. \A i \in 1..Len(records) : records[i] \in HistoricalContributions
    OBVIOUS
  <2> QED BY <2>1 DEF HistoricalContributions
<1>2. CASE LastRecorded(records) = c
  <2>1. Record(records, snapshot, peak, c) = records
    BY <1>2 DEF Record
  <2>2. ASSUME NEW s \in Int, ~(s < snapshot) PROVE AsOf(records, s) = c
    BY <1>1, <1>2, <2>2, AsOfAll
  <2> QED BY <1>1, <2>1, <2>2
<1>3. CASE LastRecorded(records) # c
  <2> DEFINE e == [as_of_snapshot |-> snapshot, peak_index |-> peak, contrib |-> c]
  <2>1. e \in HistoricalContributions /\ e.as_of_snapshot = snapshot /\ e.contrib = c
    BY DEF HistoricalContributions
  <2>2. Record(records, snapshot, peak, c) = Append(records, e)
    BY <1>3 DEF Record
  <2> HIDE DEF e
  <2>3. /\ Append(records, e) \in Seq(HistoricalContributions)
        /\ \A i \in 1..Len(Append(records, e)) : Append(records, e)[i].as_of_snapshot <= snapshot
    BY <1>1, <2>1
  <2>4. ASSUME NEW s \in Int
        PROVE  AsOf(Append(records, e), s) = IF s < snapshot THEN AsOf(records, s) ELSE c
    BY <2>1, AsOfAppend
  <2> QED BY <2>2, <2>3, <2>4
<1> QED BY <1>2, <1>3

\* A list of contributions gets at most one more.
LEMMA RecordAppends ==
    ASSUME NEW records \in Seq(HistoricalContributions), NEW snapshot, NEW peak, NEW c
    PROVE  LET new == Record(records, snapshot, peak, c) IN
           \A i \in 1..Len(new) :
              \/ i \in 1..Len(records) /\ new[i] = records[i]
              \/ new[i].as_of_snapshot = snapshot /\ new[i].peak_index = peak
<1> DEFINE e == [as_of_snapshot |-> snapshot, peak_index |-> peak, contrib |-> c]
           more == Append(records, e)
<1>1. \A i \in 1..Len(more) : (i \in 1..Len(records) /\ more[i] = records[i]) \/ more[i] = e
  <2> HIDE DEF e
  <2> QED OBVIOUS
<1>2. Record(records, snapshot, peak, c) \in {records, more}
  BY DEF Record
<1>3. \A i \in 1..Len(more) :
        \/ i \in 1..Len(records) /\ more[i] = records[i]
        \/ more[i].as_of_snapshot = snapshot /\ more[i].peak_index = peak
  <2> HIDE DEF more
  <2> QED BY <1>1
<1> HIDE DEF more
<1> QED BY <1>2, <1>3

(* Histories. *)

LEMMA HistoryType ==
    ASSUME NEW snapshot \in Nat, NEW peak \in Nat, NEW c \in Contributions,
           NEW d \in Contributions, NEW records \in Seq(HistoricalContributions)
    PROVE  LET h == UsageHistory(snapshot, peak, c, d, records) IN
           /\ h \in Histories
           /\ h.last_known_snapshot = snapshot /\ h.last_known_peak = peak
           /\ h.contributed = c /\ h.since = d /\ h.recorded = records
           /\ LeaksContribution(h) = Plus(c, d)
BY DEF UsageHistory, Histories, LeaksContribution

\* What the history of a location holds, and that its leaks are the settled
\* part and what was added since.
LEMMA HistoryFields ==
    ASSUME NEW h \in Histories
    PROVE  /\ h.last_known_snapshot \in Nat /\ h.last_known_peak \in Nat
           /\ h.contributed \in Contributions /\ h.since \in Contributions
           /\ h.recorded \in Seq(HistoricalContributions)
           /\ LeaksContribution(h) = Plus(h.contributed, h.since)
           /\ LeaksContribution(h) \in Contributions
BY PlusType DEF Histories, LeaksContribution

\* Each record of a history has the snapshot and the peak it is of.
LEMMA RecordedFields ==
    ASSUME NEW h \in Histories
    PROVE  \A i \in 1..Len(h.recorded) :
              h.recorded[i].as_of_snapshot \in Nat /\ h.recorded[i].peak_index \in Int
<1>1. h.recorded \in Seq(HistoricalContributions)
  BY HistoryFields
<1>2. \A i \in 1..Len(h.recorded) : h.recorded[i] \in HistoricalContributions
  BY <1>1
<1> QED BY <1>2 DEF HistoricalContributions

\* A new peak takes in all that happened since the last one.
LEMMA RebaseHistory ==
    ASSUME NEW h \in Histories, NEW p \in Nat
    PROVE  LET r == Rebase(h, p) IN
           /\ r \in Histories
           /\ r.last_known_snapshot = h.last_known_snapshot /\ r.last_known_peak = p
           /\ r.recorded = h.recorded
           /\ LeaksContribution(r) = LeaksContribution(h)
           /\ IF h.last_known_peak = p THEN r = h
              ELSE r.contributed = LeaksContribution(h) /\ r.since = None
<1>1. CASE h.last_known_peak = p
  BY <1>1 DEF Rebase
<1>2. CASE h.last_known_peak # p
  <2> DEFINE r == UsageHistory(h.last_known_snapshot, p, Plus(h.contributed, h.since), None,
                               h.recorded)
  <2>1. Rebase(h, p) = r
    BY <1>2 DEF Rebase
  <2>2. Plus(h.contributed, h.since) \in Contributions
    BY HistoryFields, PlusType
  <2>3. /\ r \in Histories
        /\ r.last_known_snapshot = h.last_known_snapshot /\ r.last_known_peak = p
        /\ r.contributed = Plus(h.contributed, h.since) /\ r.since = None
        /\ r.recorded = h.recorded
        /\ LeaksContribution(r) = Plus(Plus(h.contributed, h.since), None)
    <3>1. /\ h.last_known_snapshot \in Nat /\ None \in Contributions
          /\ h.recorded \in Seq(HistoricalContributions)
      BY HistoryFields, NoneType
    <3> QED BY <2>2, <3>1, HistoryType
  <2> HIDE DEF r
  <2>4. LeaksContribution(r) = LeaksContribution(h)
    BY <2>2, <2>3, HistoryFields, PlusNone
  <2>5. r.contributed = LeaksContribution(h)
    BY <2>3, HistoryFields
  <2> QED BY <1>2, <2>1, <2>3, <2>4, <2>5
<1> QED BY <1>1, <1>2

(* The numbers of the peaks. *)

LEMMA PeakIndexType ==
    ASSUME PeaksOK
    PROVE  /\ CurrentSnapshot \in Nat
           /\ FinalPeakCount \in {peak_count, peak_count + 1} /\ FinalPeakCount \in Nat
           /\ PeakIndex(CurrentSnapshot) = FinalPeakCount
           /\ \A s \in 0..CurrentSnapshot : PeakIndex(s) \in Nat
           /\ \A s \in 0..CurrentSnapshot - 1 : PeakIndex(s) = index_by_snapshot[s + 1]
<1>1. CurrentSnapshot \in Nat
  BY DEF PeaksOK, CurrentSnapshot
<1>2. FinalPeakCount \in {peak_count, peak_count + 1} /\ FinalPeakCount \in Nat
  BY DEF PeaksOK, FinalPeakCount
<1>3. \A s \in 0..CurrentSnapshot - 1 : index_by_snapshot[s + 1] \in Nat
  BY <1>1 DEF PeaksOK, CurrentSnapshot
<1> QED BY <1>1, <1>2, <1>3 DEF PeakIndex

\* The peaks of completed snapshots have been counted.
LEMMA CompletedPeaks ==
    ASSUME PeaksOK, PeaksInOrder, NEW s \in 0..CurrentSnapshot - 1
    PROVE  PeakIndex(s) <= peak_count /\ PeakIndex(s) < FinalPeakCount
<1>1. /\ CurrentSnapshot \in Nat /\ PeakIndex(s) \in Nat
      /\ FinalPeakCount \in {peak_count, peak_count + 1}
      /\ PeakIndex(CurrentSnapshot) = FinalPeakCount
  BY PeakIndexType
<1>2. PeakIndex(s) < PeakIndex(CurrentSnapshot)
  BY <1>1 DEF PeaksInOrder
<1>3. peak_count \in Nat
  BY DEF PeaksOK
<1> QED BY <1>1, <1>2, <1>3

\* The heap, the history and the heap at each completed peak of a location.
LEMMA PeaksType ==
    ASSUME PeaksOK, NEW k \in Keys
    PROVE  /\ heap[k] \in Contributions
           /\ usage_history[k] \in Histories
           /\ \A s \in 0..CurrentSnapshot : peaks[s + 1].heap[k] \in Contributions
<1> DEFINE Peaks == [bytes : Int, heap : [Keys -> Contributions]]
<1>1. \A s \in 0..CurrentSnapshot : peaks[s + 1] \in Peaks
  <2>1. CurrentSnapshot \in Nat
    BY PeakIndexType
  <2>2. peaks \in Seq(Peaks) /\ Len(peaks) = CurrentSnapshot + 1
    BY DEF PeaksOK, CurrentSnapshot
  <2> HIDE DEF Peaks
  <2> QED BY <2>1, <2>2
<1>2. \A s \in 0..CurrentSnapshot : peaks[s + 1].heap \in [Keys -> Contributions]
  BY <1>1
<1> QED BY <1>2 DEF PeaksOK

(* Catching up with completed snapshots. *)

\* One iteration of recordContributionsToCompletedSnapshots.
LEMMA Iteration ==
    ASSUME PeaksOK, PeaksInOrder, NEW k \in Keys, NEW h \in Histories,
           HistoryOK(k, h), h.last_known_snapshot < CurrentSnapshot
    PROVE  LET r == RecordContribution(h) IN
           /\ r \in Histories /\ HistoryOK(k, r)
           /\ r.last_known_snapshot > h.last_known_snapshot
           /\ r.last_known_snapshot = CurrentSnapshot
              \/ r.last_known_peak = PeakIndex(h.last_known_snapshot)
           /\ h.last_known_peak # PeakIndex(h.last_known_snapshot)
              => r.last_known_snapshot = CurrentSnapshot
<1> DEFINE known == h.last_known_snapshot
           peak == PeakIndex(known)
           b == Rebase(h, peak)
           next == IF b.since.allocations # 0 THEN known + 1 ELSE CurrentSnapshot
           records == Record(h.recorded, known, peak, b.contributed)
           r == UsageHistory(next, peak, b.contributed, b.since, records)
<1>1. /\ known \in Nat /\ CurrentSnapshot \in Nat /\ known < CurrentSnapshot
      /\ known \in 0..CurrentSnapshot - 1 /\ known \in 0..CurrentSnapshot
      /\ peak \in Nat /\ peak <= peak_count /\ peak < FinalPeakCount
      /\ peak = index_by_snapshot[known + 1]
  BY HistoryFields, PeakIndexType, CompletedPeaks
<1>2. /\ b \in Histories /\ b.recorded = h.recorded /\ b.last_known_peak = peak
      /\ b.contributed \in Contributions /\ b.since \in Contributions
      /\ LeaksContribution(b) = LeaksContribution(h)
      /\ LeaksContribution(b) = Plus(b.contributed, b.since)
      /\ h.last_known_peak # peak => b.since = None
  BY <1>1, RebaseHistory, HistoryFields
<1>3. RecordContribution(h) = r
  BY <1>1, <1>2 DEF RecordContribution
<1>4. /\ h.recorded \in Seq(HistoricalContributions)
      /\ \A i \in 1..Len(h.recorded) : h.recorded[i].as_of_snapshot < known
      /\ \A s \in 0..known - 1 :
            /\ AsOf(h.recorded, s).allocations = peaks[s + 1].heap[k].allocations
            /\ k \notin cancelled => AsOf(h.recorded, s) = peaks[s + 1].heap[k]
  BY HistoryFields DEF HistoryOK, Recorded
<1>5. /\ records \in Seq(HistoricalContributions)
      /\ \A i \in 1..Len(records) : records[i].as_of_snapshot <= known
      /\ \A s \in Int :
            AsOf(records, s) = IF s < known THEN AsOf(h.recorded, s) ELSE b.contributed
  <2>1. peak \in Int /\ known \in Nat
    BY <1>1
  <2> HIDE DEF known, peak, b
  <2> QED BY <1>2, <1>4, <2>1, RecordAsOf
<1>6. /\ LeaksContribution(h) = heap[k]
      /\ b.contributed = peaks[known + 1].heap[k]
      /\ \A s \in known + 1..CurrentSnapshot : peaks[s + 1].heap[k] = heap[k]
  BY DEF HistoryOK, UpToDate
<1>7. /\ heap[k].allocations = peaks[known + 1].heap[k].allocations
         => (k \in cancelled \/ heap[k] = peaks[known + 1].heap[k])
  BY <1>1 DEF HistoryOK, CancelsOut
<1>8. \A s \in known + 1..CurrentSnapshot : peak < PeakIndex(s) /\ PeakIndex(s) \in Nat
  BY <1>1, PeakIndexType DEF PeaksInOrder
<1>9. next \in known + 1..CurrentSnapshot /\ next \in Nat
  BY <1>1
<1>10. h.last_known_peak # peak => next = CurrentSnapshot
  BY <1>2, NoneType
<1> HIDE DEF known, peak, b, next, records, r
<1>11. /\ r \in Histories
       /\ r.last_known_snapshot = next /\ r.last_known_peak = peak
       /\ r.contributed = b.contributed /\ r.since = b.since /\ r.recorded = records
       /\ LeaksContribution(r) = Plus(b.contributed, b.since)
  <2> DEFINE c == b.contributed
             d == b.since
  <2>1. /\ next \in Nat /\ peak \in Nat /\ c \in Contributions /\ d \in Contributions
        /\ records \in Seq(HistoricalContributions)
    BY <1>1, <1>2, <1>5, <1>9
  <2>2. r = UsageHistory(next, peak, c, d, records)
    BY DEF r
  <2> HIDE DEF c, d
  <2>3. /\ r \in Histories
        /\ r.last_known_snapshot = next /\ r.last_known_peak = peak
        /\ r.contributed = c /\ r.since = d /\ r.recorded = records
        /\ LeaksContribution(r) = Plus(c, d)
    BY <2>1, <2>2, HistoryType
  <2> QED BY <2>3 DEF c, d
<1>12. UpToDate(k, r)
  <2>1. LeaksContribution(r) = heap[k]
    BY <1>2, <1>6, <1>11
  <2>2. peak < PeakIndex(next) /\ PeakIndex(next) \in Nat
    BY <1>8, <1>9
  <2>3. Rebase(r, PeakIndex(next)).contributed = heap[k]
    <3>1. r.last_known_peak # PeakIndex(next)
      BY <1>1, <1>11, <2>2
    <3> QED BY <1>11, <2>1, <2>2, <3>1, RebaseHistory
  <2>4. \A s \in next..CurrentSnapshot : peaks[s + 1].heap[k] = heap[k]
    BY <1>1, <1>6, <1>9
  <2>5. next \in 0..CurrentSnapshot /\ next + 1..CurrentSnapshot \subseteq next..CurrentSnapshot
    BY <1>1, <1>9
  <2>6. peaks[next + 1].heap[k] = heap[k]
    BY <1>1, <2>4, <2>5
  <2>7. peak <= peak_count /\ peak <= PeakIndex(next)
    BY <1>1, <2>2
  <2> QED
    BY <1>11, <2>1, <2>3, <2>4, <2>5, <2>6, <2>7 DEF UpToDate
<1>13. Recorded(k, r)
  <2>1. \A i \in 1..Len(records) : records[i].as_of_snapshot < next
    <3>1. \A i \in 1..Len(records) : records[i].as_of_snapshot \in Nat
      <4>1. \A i \in 1..Len(records) : records[i] \in HistoricalContributions
        BY <1>5
      <4> QED BY <4>1 DEF HistoricalContributions
    <3> QED BY <1>1, <1>5, <1>9, <3>1
  <2>2. ASSUME NEW s \in 0..next - 1
        PROVE  /\ AsOf(records, s).allocations = peaks[s + 1].heap[k].allocations
               /\ k \notin cancelled => AsOf(records, s) = peaks[s + 1].heap[k]
    <3>1. CASE s < known
      <4>1. s \in 0..known - 1 /\ s \in Int
        BY <1>1, <1>9, <3>1
      <4>2. AsOf(records, s) = AsOf(h.recorded, s)
        BY <1>5, <3>1, <4>1
      <4> QED BY <1>4, <4>1, <4>2
    <3>2. CASE s = known
      BY <1>1, <1>5, <1>6, <3>2
    <3>3. CASE s > known
      <4>1. next = CurrentSnapshot /\ b.since.allocations = 0
        BY <1>1, <1>9, <3>3 DEF next
      <4>2. s \in known + 1..CurrentSnapshot /\ s \in Int /\ ~(s < known)
        BY <1>1, <4>1, <3>3
      <4>3. AsOf(records, s) = b.contributed /\ peaks[s + 1].heap[k] = heap[k]
        BY <1>5, <1>6, <4>2
      <4>4. heap[k] = Plus(b.contributed, b.since)
        BY <1>2, <1>6
      <4>5. heap[k].allocations = b.contributed.allocations
        <5>1. b.contributed.allocations \in Int
          BY <1>2 DEF Contributions
        <5> QED BY <1>2, <4>1, <4>4, <5>1, PlusType
      <4>6. k \notin cancelled => heap[k] = b.contributed
        BY <1>6, <1>7, <4>5
      <4> QED BY <4>3, <4>5, <4>6
    <3> QED BY <1>1, <1>9, <3>1, <3>2, <3>3
  <2> QED BY <1>11, <2>1, <2>2 DEF Recorded
<1>14. CancelsOut(k, r)
  <2>1. CASE next = CurrentSnapshot
    BY <1>1, <1>11, <2>1 DEF CancelsOut
  <2>2. CASE next # CurrentSnapshot
    BY <1>6, <1>9, <1>11 DEF CancelsOut
  <2> QED BY <2>1, <2>2
<1>15. KnowsPeaks(k, r)
  <2>1. \A i \in 1..Len(records) : records[i].peak_index = PeakIndex(records[i].as_of_snapshot)
    <3>1. \A i \in 1..Len(h.recorded) :
            h.recorded[i].peak_index = PeakIndex(h.recorded[i].as_of_snapshot)
      BY DEF HistoryOK, KnowsPeaks
    <3>2. \A i \in 1..Len(records) :
            \/ i \in 1..Len(h.recorded) /\ records[i] = h.recorded[i]
            \/ records[i].as_of_snapshot = known /\ records[i].peak_index = peak
      BY <1>4, RecordAppends DEF records
    <3> QED BY <3>1, <3>2 DEF peak
  <2>2. ASSUME k \notin cancelled, NEW s \in 0..next - 1, peak <= PeakIndex(s)
        PROVE  Rebase(r, PeakIndex(s)).contributed = peaks[s + 1].heap[k]
    <3>1. s \in 0..CurrentSnapshot /\ PeakIndex(s) \in Nat
      BY <1>1, <1>9, PeakIndexType
    <3>2. CASE s < known
      <4>1. PeakIndex(s) < peak
        BY <1>1, <3>1, <3>2 DEF PeaksInOrder, peak
      <4> QED BY <1>1, <2>2, <3>1, <4>1
    <3>3. CASE s = known
      <4>1. Rebase(r, PeakIndex(s)) = r
        BY <1>11, <3>1, <3>3, RebaseHistory DEF peak
      <4> QED BY <1>6, <1>11, <3>3, <4>1
    <3>4. CASE s > known
      <4>1. s \in known + 1..CurrentSnapshot
        BY <1>1, <3>1, <3>4
      <4>2. r.last_known_peak # PeakIndex(s)
        BY <1>1, <1>8, <1>11, <4>1
      <4>3. Rebase(r, PeakIndex(s)).contributed = LeaksContribution(r)
        BY <1>11, <3>1, <4>2, RebaseHistory
      <4> QED BY <1>2, <1>6, <1>11, <4>1, <4>3
    <3> QED BY <1>1, <3>1, <3>2, <3>3, <3>4
  <2> QED BY <1>11, <2>1, <2>2 DEF KnowsPeaks
<1> QED
  BY <1>1, <1>3, <1>9, <1>10, <1>11, <1>12, <1>13, <1>14, <1>15 DEF HistoryOK, known, peak

\* Two iterations catch up with any number of snapshots.
LEMMA CatchesUp ==
    ASSUME PeaksOK, PeaksInOrder, NEW k \in Keys, NEW h \in Histories, HistoryOK(k, h)
    PROVE  LET r == RecordContributionsToCompletedSnapshots(h) IN
           /\ r \in Histories /\ HistoryOK(k, r)
           /\ r.last_known_snapshot = CurrentSnapshot
<1> DEFINE once == RecordContribution(h)
           twice == RecordContribution(once)
<1>1. h.last_known_snapshot \in 0..CurrentSnapshot /\ CurrentSnapshot \in Nat
  BY PeakIndexType DEF HistoryOK, UpToDate
<1>2. CASE h.last_known_snapshot = CurrentSnapshot
  BY <1>2 DEF RecordContributionsToCompletedSnapshots
<1>3. CASE h.last_known_snapshot # CurrentSnapshot
  <2>1. h.last_known_snapshot < CurrentSnapshot
    BY <1>1, <1>3
  <2>2. /\ once \in Histories /\ HistoryOK(k, once)
        /\ once.last_known_snapshot > h.last_known_snapshot
        /\ once.last_known_snapshot = CurrentSnapshot
           \/ once.last_known_peak = PeakIndex(h.last_known_snapshot)
    BY <2>1, Iteration
  <2> HIDE DEF once
  <2>3. CASE once.last_known_snapshot = CurrentSnapshot
    BY <1>3, <2>2, <2>3 DEF RecordContributionsToCompletedSnapshots, once
  <2>4. CASE once.last_known_snapshot # CurrentSnapshot
    <3>1. once.last_known_snapshot \in 0..CurrentSnapshot
      BY <2>2 DEF HistoryOK, UpToDate
    <3>2. once.last_known_snapshot < CurrentSnapshot
      BY <1>1, <2>4, <3>1
    <3>3. PeakIndex(h.last_known_snapshot) < PeakIndex(once.last_known_snapshot)
      BY <1>1, <2>2, <3>1 DEF PeaksInOrder
    <3>4. once.last_known_peak # PeakIndex(once.last_known_snapshot)
      <4>1. PeakIndex(h.last_known_snapshot) \in Nat
        BY <1>1, PeakIndexType
      <4> QED BY <2>2, <2>4, <3>3, <4>1
    <3>5. /\ twice \in Histories /\ HistoryOK(k, twice)
          /\ twice.last_known_snapshot = CurrentSnapshot
      BY <2>2, <3>2, <3>4, Iteration
    <3> QED
      BY <1>3, <2>4, <3>5 DEF RecordContributionsToCompletedSnapshots, once
  <2> QED BY <2>3, <2>4
<1> QED BY <1>2, <1>3

(* The aggregator's steps. *)

\* A delta either leaves the heap the highest of its snapshot, or a peak
\* behind that has been counted.
LEMMA DeltaPeaks ==
    ASSUME PeaksOK, HighestOfCurrent, NEW key \in Keys, NEW count \in Int, NEW bytes \in Int,
           RecordUsageDelta(key, count, bytes)
    PROVE  /\ current_heap_size' \in Int /\ heap_size_at_last_peak' \in Int /\ peak_count' \in Nat
           /\ peaks' \in Seq([bytes : Int, heap : [Keys -> Contributions]])
           /\ heap' \in [Keys -> Contributions]
           /\ heap'[key] = Plus(heap[key], Contribution(bytes, count))
           /\ \A k \in Keys : k # key => heap'[k] = heap[k]
           /\ Len(peaks') = Len(peaks)
           /\ \A s \in 0..CurrentSnapshot - 1 : peaks'[s + 1] = peaks[s + 1]
           /\ \/ /\ Rising' /\ peak_count' = peak_count
                 /\ peaks'[CurrentSnapshot + 1] = [bytes |-> current_heap_size', heap |-> heap']
              \/ /\ ~Rising' /\ peak_count' = FinalPeakCount
                 /\ peaks'[CurrentSnapshot + 1] = peaks[CurrentSnapshot + 1]
                 /\ peaks'[CurrentSnapshot + 1].bytes = heap_size_at_last_peak'
<1> DEFINE Peaks == [bytes : Int, heap : [Keys -> Contributions]]
           n == CurrentSnapshot + 1
           delta == Contribution(bytes, count)
           latest == [bytes |-> current_heap_size', heap |-> heap']
<1>1. /\ CurrentSnapshot \in Nat /\ peaks \in Seq(Peaks) /\ Len(peaks) = n
      /\ peak_count \in Nat /\ current_heap_size \in Int /\ heap_size_at_last_peak \in Int
      /\ heap \in [Keys -> Contributions]
  BY DEF PeaksOK, CurrentSnapshot
<1>2. n \in 1..Len(peaks) /\ peaks[n] \in Peaks
  <2> HIDE DEF Peaks
  <2> QED BY <1>1
<1>3. delta \in Contributions
  BY DEF Contribution, Contributions
<1>4. /\ current_heap_size' = current_heap_size + bytes
      /\ heap' = [heap EXCEPT ![key] = Plus(heap[key], delta)]
      /\ peaks' = [peaks EXCEPT ![n] = Highest(peaks[n], current_heap_size', heap')]
  BY <1>1 DEF RecordUsageDelta
<1>5. /\ current_heap_size' \in Int
      /\ heap' \in [Keys -> Contributions]
      /\ heap'[key] = Plus(heap[key], delta)
      /\ \A k \in Keys : k # key => heap'[k] = heap[k]
  <2>1. Plus(heap[key], delta) \in Contributions
    BY <1>1, <1>3, PlusType
  <2> HIDE DEF delta
  <2> QED BY <1>1, <1>4, <2>1
<1>6. latest \in Peaks
  BY <1>5
<1>7. /\ peaks' \in Seq(Peaks) /\ Len(peaks') = Len(peaks)
      /\ peaks'[n] = Highest(peaks[n], current_heap_size', heap')
      /\ \A i \in 1..Len(peaks) : i # n => peaks'[i] = peaks[i]
  <2>1. Highest(peaks[n], current_heap_size', heap') \in Peaks
    <3> HIDE DEF Peaks
    <3> QED BY <1>2, <1>6 DEF Highest
  <2> HIDE DEF Peaks, n
  <2> QED BY <1>1, <1>2, <1>4, <2>1
<1>8. peaks'[n] = IF current_heap_size' >= peaks[n].bytes THEN latest ELSE peaks[n]
  BY <1>7 DEF Highest
<1>9. ASSUME NEW s \in 0..(CurrentSnapshot - 1) PROVE peaks'[s + 1] = peaks[s + 1]
  <2>1. s + 1 \in 1..Len(peaks) /\ s + 1 # n
    BY <1>1
  <2> HIDE DEF n
  <2> QED BY <1>7, <2>1
<1>10. CASE Rising /\ current_heap_size' < current_heap_size
  <2>1. /\ peak_count' = peak_count + 1 /\ heap_size_at_last_peak' = current_heap_size
    BY <1>4, <1>10 DEF RecordUsageDelta
  <2>2. ~Rising' /\ FinalPeakCount = peak_count + 1
    BY <1>1, <1>5, <1>10, <2>1 DEF Rising, FinalPeakCount
  <2>3. peaks[n].bytes = current_heap_size
    BY <1>10 DEF HighestOfCurrent
  <2>4. peaks'[n] = peaks[n]
    BY <1>1, <1>5, <1>8, <1>10, <2>3
  <2> QED
    BY <1>1, <1>5, <1>7, <1>9, <2>1, <2>2, <2>3, <2>4
<1>11. CASE Rising /\ ~(current_heap_size' < current_heap_size)
  <2>1. /\ peak_count' = peak_count /\ heap_size_at_last_peak' = heap_size_at_last_peak
    BY <1>4, <1>11 DEF RecordUsageDelta
  <2>2. Rising'
    BY <1>1, <1>5, <1>11, <2>1 DEF Rising
  <2>3. peaks[n].bytes = current_heap_size
    BY <1>11 DEF HighestOfCurrent
  <2>4. peaks'[n] = latest
    BY <1>1, <1>5, <1>8, <1>11, <2>3
  <2> QED
    BY <1>1, <1>5, <1>7, <1>9, <2>1, <2>2, <2>4
<1>12. CASE ~Rising
  <2>1. /\ peak_count' = peak_count /\ heap_size_at_last_peak' = heap_size_at_last_peak
    BY <1>4, <1>12 DEF RecordUsageDelta
  <2>2. peaks[n].bytes = heap_size_at_last_peak /\ FinalPeakCount = peak_count
    BY <1>12 DEF HighestOfCurrent, FinalPeakCount
  <2>3. Rising' <=> current_heap_size' >= peaks[n].bytes
    BY <2>1, <2>2 DEF Rising
  <2> QED
    BY <1>1, <1>5, <1>7, <1>8, <1>9, <2>1, <2>2, <2>3
<1> QED BY <1>10, <1>11, <1>12

\* What is known of the peaks.
PeaksInv ==
    /\ PeaksOK
    /\ PeaksInOrder
    /\ HighestOfCurrent
    /\ HeightsRecorded
    /\ \A k \in Keys : HistoryOK(k, usage_history[k])

\* What a delta does to the numbers of the peaks.
LEMMA DeltaIndexes ==
    ASSUME PeaksInv, NEW key \in Keys, NEW count \in Int, NEW bytes \in Int,
           RecordUsageDelta(key, count, bytes)
    PROVE  /\ CurrentSnapshot' = CurrentSnapshot
           /\ \A s \in 0..CurrentSnapshot - 1 : PeakIndex(s)' = PeakIndex(s)
           /\ PeakIndex(CurrentSnapshot)' = FinalPeakCount'
           /\ FinalPeakCount' \in Nat /\ FinalPeakCount <= FinalPeakCount'
           /\ Rising' => FinalPeakCount' = peak_count + 1
           /\ ~Rising' => FinalPeakCount' = FinalPeakCount
           /\ peak_count <= peak_count'
           /\ PeaksInOrder'
<1>1. PeaksOK /\ HighestOfCurrent
  BY DEF PeaksInv
<1>2. /\ index_by_snapshot' = index_by_snapshot
      /\ CurrentSnapshot' = CurrentSnapshot
  BY DEF RecordUsageDelta, CurrentSnapshot
<1>3. /\ CurrentSnapshot \in Nat /\ peak_count \in Nat
      /\ FinalPeakCount \in {peak_count, peak_count + 1} /\ FinalPeakCount \in Nat
      /\ \A s \in 0..CurrentSnapshot : PeakIndex(s) \in Nat
      /\ PeakIndex(CurrentSnapshot) = FinalPeakCount
  BY <1>1, PeakIndexType DEF PeaksOK
<1>4. \/ Rising' /\ peak_count' = peak_count
      \/ ~Rising' /\ peak_count' = FinalPeakCount
  BY <1>1, DeltaPeaks
<1>5. FinalPeakCount' = IF Rising' THEN peak_count' + 1 ELSE peak_count'
  BY DEF FinalPeakCount
<1>6. /\ FinalPeakCount' \in Nat /\ FinalPeakCount <= FinalPeakCount'
      /\ Rising' => FinalPeakCount' = peak_count + 1
      /\ ~Rising' => FinalPeakCount' = FinalPeakCount
      /\ peak_count <= peak_count'
  BY <1>3, <1>4, <1>5
<1>7. \A s \in 0..CurrentSnapshot - 1 : PeakIndex(s)' = PeakIndex(s)
  BY <1>2, <1>3 DEF PeakIndex
<1>8. PeakIndex(CurrentSnapshot)' = FinalPeakCount'
  BY <1>2, <1>3 DEF PeakIndex
<1>9. PeaksInOrder'
  <2> SUFFICES ASSUME NEW s \in 0..CurrentSnapshot', NEW u \in 0..CurrentSnapshot', s < u
               PROVE  PeakIndex(s)' < PeakIndex(u)'
    BY DEF PeaksInOrder
  <2>1. s \in 0..CurrentSnapshot - 1 /\ s \in 0..CurrentSnapshot /\ u \in 0..CurrentSnapshot
    BY <1>2, <1>3
  <2>2. PeakIndex(s) < PeakIndex(u)
    BY <2>1 DEF PeaksInv, PeaksInOrder
  <2>3. CASE u = CurrentSnapshot
    <3>1. PeakIndex(u)' = FinalPeakCount'
      BY <1>2, <2>3 DEF PeakIndex
    <3> QED BY <1>3, <1>6, <1>7, <2>1, <2>2, <2>3, <3>1
  <2>4. CASE u # CurrentSnapshot
    BY <1>3, <1>7, <2>1, <2>2, <2>4
  <2> QED BY <2>3, <2>4
<1> QED BY <1>2, <1>6, <1>7, <1>8, <1>9

\* A location that did nothing remains up to date.
LEMMA DeltaElsewhere ==
    ASSUME PeaksInv, NEW key \in Keys, NEW count \in Int, NEW bytes \in Int,
           RecordUsageDelta(key, count, bytes), NEW k \in Keys, k # key,
           NEW h \in Histories, HistoryOK(k, h)
    PROVE  HistoryOK(k, h)'
<1> DEFINE known == h.last_known_snapshot
<1>1. /\ PeaksOK /\ HighestOfCurrent /\ UpToDate(k, h) /\ Recorded(k, h) /\ CancelsOut(k, h)
  BY DEF PeaksInv, HistoryOK
<1>2. cancelled' = cancelled
  BY DEF RecordUsageDelta
<1>3. /\ heap'[k] = heap[k] /\ heap[k] \in Contributions
      /\ \A s \in 0..CurrentSnapshot - 1 : peaks'[s + 1] = peaks[s + 1]
      /\ \/ Rising' /\ peaks'[CurrentSnapshot + 1].heap[k] = heap[k]
         \/ ~Rising' /\ peaks'[CurrentSnapshot + 1] = peaks[CurrentSnapshot + 1]
  <2>1. heap[k] \in Contributions
    BY <1>1, PeaksType
  <2>2. /\ \A j \in Keys : j # key => heap'[j] = heap[j]
        /\ \A s \in 0..CurrentSnapshot - 1 : peaks'[s + 1] = peaks[s + 1]
        /\ \/ Rising' /\ peaks'[CurrentSnapshot + 1] = [bytes |-> current_heap_size', heap |-> heap']
           \/ ~Rising' /\ peaks'[CurrentSnapshot + 1] = peaks[CurrentSnapshot + 1]
    BY <1>1, DeltaPeaks
  <2>3. heap'[k] = heap[k]
    BY <2>2
  <2>4. Rising' => peaks'[CurrentSnapshot + 1].heap[k] = heap[k]
    <3>1. ASSUME Rising' PROVE peaks'[CurrentSnapshot + 1].heap = heap'
      BY <2>2, <3>1
    <3> QED BY <2>3, <3>1
  <2> QED BY <2>1, <2>2, <2>3, <2>4
<1>4. /\ CurrentSnapshot' = CurrentSnapshot /\ CurrentSnapshot \in Nat
      /\ peak_count \in Nat /\ peak_count' \in Nat
      /\ \A s \in 0..CurrentSnapshot - 1 : PeakIndex(s)' = PeakIndex(s)
      /\ PeakIndex(CurrentSnapshot)' = FinalPeakCount'
      /\ PeakIndex(CurrentSnapshot) = FinalPeakCount
      /\ FinalPeakCount' \in Nat /\ FinalPeakCount \in Nat /\ FinalPeakCount <= FinalPeakCount'
      /\ Rising' => FinalPeakCount' = peak_count + 1
      /\ ~Rising' => FinalPeakCount' = FinalPeakCount
      /\ peak_count <= peak_count'
  <2>1. peak_count \in Nat
    BY <1>1 DEF PeaksOK
  <2> QED BY <1>1, <2>1, DeltaIndexes, DeltaPeaks, PeakIndexType
<1>5. /\ known \in 0..CurrentSnapshot /\ known \in Nat /\ h.last_known_peak \in Nat
      /\ h.last_known_peak <= peak_count /\ h.last_known_peak <= PeakIndex(known)
      /\ LeaksContribution(h) = heap[k]
      /\ Rebase(h, PeakIndex(known)).contributed = peaks[known + 1].heap[k]
      /\ \A s \in known + 1..CurrentSnapshot : peaks[s + 1].heap[k] = heap[k]
  BY <1>1, HistoryFields DEF UpToDate
<1> HIDE DEF known
<1>6. known < CurrentSnapshot => /\ known \in 0..CurrentSnapshot - 1
                                  /\ PeakIndex(known)' = PeakIndex(known)
                                  /\ peaks'[known + 1] = peaks[known + 1]
  BY <1>3, <1>4, <1>5
<1>7. known = CurrentSnapshot => PeakIndex(known)' = FinalPeakCount'
  <2>1. CASE known = CurrentSnapshot
    BY <1>4, <2>1 DEF PeakIndex
  <2> QED BY <2>1
<1>8. h.last_known_peak <= peak_count' /\ h.last_known_peak <= PeakIndex(known)'
  <2>1. CASE known < CurrentSnapshot
    BY <1>4, <1>5, <1>6, <2>1
  <2>2. CASE known = CurrentSnapshot
    BY <1>4, <1>5, <1>7, <2>2
  <2> QED BY <1>4, <1>5, <2>1, <2>2
<1>9. Rebase(h, PeakIndex(known)').contributed = peaks'[known + 1].heap[k]
  <2>1. CASE known < CurrentSnapshot
    BY <1>5, <1>6, <2>1
  <2>2. CASE known = CurrentSnapshot /\ Rising'
    <3>1. PeakIndex(known)' = FinalPeakCount' /\ h.last_known_peak # FinalPeakCount'
      BY <1>4, <1>5, <1>7, <2>2
    <3>2. Rebase(h, FinalPeakCount').contributed = LeaksContribution(h)
      BY <1>4, <3>1, RebaseHistory
    <3> QED BY <1>3, <1>5, <2>2, <3>1, <3>2
  <2>3. CASE known = CurrentSnapshot /\ ~Rising'
    <3>1. PeakIndex(known)' = PeakIndex(known)
      BY <1>4, <1>7, <2>3
    <3> QED BY <1>3, <1>5, <2>3, <3>1
  <2> QED BY <1>4, <1>5, <2>1, <2>2, <2>3
<1>10. ASSUME NEW s \in known + 1..CurrentSnapshot PROVE peaks'[s + 1].heap[k] = heap[k]
  <2>1. CASE s < CurrentSnapshot
    BY <1>3, <1>4, <1>5, <2>1
  <2>2. CASE s = CurrentSnapshot
    BY <1>3, <1>5, <2>2
  <2> QED BY <1>4, <1>5, <2>1, <2>2
<1>11. UpToDate(k, h)'
  BY <1>3, <1>4, <1>5, <1>8, <1>9, <1>10 DEF UpToDate, LeaksContribution, known
<1>12. Recorded(k, h)'
  <2>1. \A s \in 0..known - 1 : peaks'[s + 1] = peaks[s + 1]
    BY <1>3, <1>4, <1>5
  <2> QED BY <1>1, <1>2, <2>1 DEF Recorded, known
<1>13. CancelsOut(k, h)'
  BY <1>1, <1>2, <1>3, <1>4, <1>6 DEF CancelsOut, known
<1>14. KnowsPeaks(k, h)'
  <2>1. KnowsPeaks(k, h)
    BY DEF HistoryOK
  <2>2. \A i \in 1..Len(h.recorded) : h.recorded[i].as_of_snapshot \in 0..CurrentSnapshot - 1
    <3>1. \A i \in 1..Len(h.recorded) : h.recorded[i].as_of_snapshot < known
      BY <1>1 DEF Recorded, known
    <3>2. \A i \in 1..Len(h.recorded) : h.recorded[i].as_of_snapshot \in Nat
      BY RecordedFields
    <3> SUFFICES ASSUME NEW i \in 1..Len(h.recorded)
                 PROVE  h.recorded[i].as_of_snapshot \in 0..CurrentSnapshot - 1
      OBVIOUS
    <3> DEFINE a == h.recorded[i].as_of_snapshot
    <3>3. a < known /\ a \in Nat
      BY <3>1, <3>2
    <3> HIDE DEF a
    <3> QED BY <1>4, <1>5, <3>3 DEF a
  <2>3. \A s \in 0..known - 1 : s \in 0..CurrentSnapshot - 1
    BY <1>4, <1>5
  <2>4. \A i \in 1..Len(h.recorded) :
          h.recorded[i].peak_index = PeakIndex(h.recorded[i].as_of_snapshot)'
    BY <1>4, <2>1, <2>2 DEF KnowsPeaks
  <2>5. ASSUME k \notin cancelled', NEW s \in 0..known - 1, h.last_known_peak <= PeakIndex(s)'
        PROVE  Rebase(h, PeakIndex(s)').contributed = peaks'[s + 1].heap[k]
    <3>1. PeakIndex(s)' = PeakIndex(s) /\ peaks'[s + 1] = peaks[s + 1]
      BY <1>3, <1>4, <2>3
    <3> QED BY <1>2, <2>1, <2>5, <3>1 DEF KnowsPeaks, known
  <2> QED BY <2>4, <2>5 DEF KnowsPeaks, known
<1> QED BY <1>11, <1>12, <1>13, <1>14 DEF HistoryOK

\* The location that did something catches up.
LEMMA DeltaHere ==
    ASSUME PeaksInv, NEW key \in Keys, NEW count \in Int, NEW bytes \in Int,
           RecordUsageDelta(key, count, bytes),
           NEW h, h = usage_history'[key]
    PROVE  HistoryOK(key, h)' /\ usage_history' \in [Keys -> Histories]
<1> DEFINE before == usage_history[key]
           completed == RecordContributionsToCompletedSnapshots(before)
           delta == Contribution(bytes, count)
           r == Rebase(completed, peak_count')
<1>1. /\ PeaksOK /\ PeaksInOrder /\ HighestOfCurrent
      /\ before \in Histories /\ HistoryOK(key, before)
      /\ CurrentSnapshot \in Nat /\ PeakIndex(CurrentSnapshot) = FinalPeakCount
      /\ FinalPeakCount \in Nat
  BY PeaksType, PeakIndexType DEF PeaksInv
<1>2. /\ completed \in Histories /\ HistoryOK(key, completed)
      /\ completed.last_known_snapshot = CurrentSnapshot
  <2> HIDE DEF before
  <2> QED BY <1>1, CatchesUp
<1>3. delta \in Contributions
  BY DEF Contribution, Contributions
<1>4. /\ peak_count' \in Nat /\ peak_count \in Nat
      /\ heap'[key] = Plus(heap[key], delta)
      /\ \A s \in 0..CurrentSnapshot - 1 : peaks'[s + 1] = peaks[s + 1]
      /\ \/ /\ Rising' /\ peak_count' = peak_count
            /\ peaks'[CurrentSnapshot + 1].heap = heap'
         \/ /\ ~Rising' /\ peak_count' = FinalPeakCount
            /\ peaks'[CurrentSnapshot + 1] = peaks[CurrentSnapshot + 1]
  <2>1. peak_count \in Nat
    BY <1>1 DEF PeaksOK
  <2> QED BY <1>1, <2>1, DeltaPeaks
<1>5. /\ CurrentSnapshot' = CurrentSnapshot /\ cancelled' = cancelled
      /\ PeakIndex(CurrentSnapshot)' = FinalPeakCount' /\ FinalPeakCount' \in Nat
      /\ Rising' => FinalPeakCount' = peak_count + 1
      /\ ~Rising' => FinalPeakCount' = FinalPeakCount
  <2>1. cancelled' = cancelled
    BY DEF RecordUsageDelta
  <2> QED BY <2>1, DeltaIndexes
<1>6. usage_history' = [usage_history EXCEPT ![key] = WithDelta(before, peak_count', delta)]
  BY DEF RecordUsageDelta
<1> HIDE DEF before, completed
<1>7. /\ r \in Histories /\ r.last_known_snapshot = CurrentSnapshot
      /\ r.last_known_peak = peak_count' /\ r.recorded = completed.recorded
      /\ r.contributed \in Contributions /\ r.since \in Contributions
      /\ LeaksContribution(r) = LeaksContribution(completed)
      /\ LeaksContribution(r) = Plus(r.contributed, r.since)
      /\ r.recorded \in Seq(HistoricalContributions)
  BY <1>2, <1>4, RebaseHistory, HistoryFields
<1>8. /\ completed.last_known_peak <= peak_count
      /\ LeaksContribution(completed) = heap[key]
      /\ Rebase(completed, FinalPeakCount).contributed = peaks[CurrentSnapshot + 1].heap[key]
      /\ \A i \in 1..Len(completed.recorded) :
            completed.recorded[i].as_of_snapshot < CurrentSnapshot
      /\ \A s \in 0..CurrentSnapshot - 1 :
            /\ AsOf(completed.recorded, s).allocations = peaks[s + 1].heap[key].allocations
            /\ key \notin cancelled => AsOf(completed.recorded, s) = peaks[s + 1].heap[key]
  BY <1>1, <1>2 DEF HistoryOK, UpToDate, Recorded
<1> DEFINE after == UsageHistory(CurrentSnapshot, peak_count', r.contributed,
                                 Plus(r.since, delta), r.recorded)
<1>9. WithDelta(before, peak_count', delta) = after
  BY <1>7 DEF WithDelta, completed
<1> HIDE DEF delta, r
<1>10. /\ after \in Histories
       /\ after.last_known_snapshot = CurrentSnapshot /\ after.last_known_peak = peak_count'
       /\ after.contributed = r.contributed /\ after.recorded = r.recorded
       /\ LeaksContribution(after) = heap'[key]
  <2>1. Plus(r.since, delta) \in Contributions
    BY <1>3, <1>7, PlusType
  <2>2. /\ after \in Histories
        /\ after.last_known_snapshot = CurrentSnapshot /\ after.last_known_peak = peak_count'
        /\ after.contributed = r.contributed /\ after.recorded = r.recorded
        /\ LeaksContribution(after) = Plus(r.contributed, Plus(r.since, delta))
    <3> DEFINE c == r.contributed
               d == Plus(r.since, delta)
               records == r.recorded
               peak == peak_count'
    <3>1. /\ CurrentSnapshot \in Nat /\ peak \in Nat /\ c \in Contributions
          /\ d \in Contributions /\ records \in Seq(HistoricalContributions)
      BY <1>1, <1>4, <1>7, <2>1
    <3>2. after = UsageHistory(CurrentSnapshot, peak, c, d, records)
      OBVIOUS
    <3> HIDE DEF c, d, records, peak, after
    <3>3. /\ after \in Histories
          /\ after.last_known_snapshot = CurrentSnapshot /\ after.last_known_peak = peak
          /\ after.contributed = c /\ after.recorded = records
          /\ LeaksContribution(after) = Plus(c, d)
      BY <3>1, <3>2, HistoryType
    <3> QED BY <3>3 DEF c, d, records, peak
  <2>3. LeaksContribution(after) = heap'[key]
    <3>1. Plus(r.contributed, Plus(r.since, delta)) = Plus(Plus(r.contributed, r.since), delta)
      BY <1>3, <1>7, PlusAssociates
    <3>2. Plus(r.contributed, r.since) = heap[key]
      BY <1>7, <1>8
    <3> HIDE DEF after
    <3> QED BY <1>4, <2>2, <3>1, <3>2
  <2> HIDE DEF after
  <2> QED BY <2>2, <2>3
<1> HIDE DEF after
<1>11. usage_history' \in [Keys -> Histories] /\ h = after
  <2>1. usage_history \in [Keys -> Histories]
    BY <1>1 DEF PeaksOK
  <2> QED BY <1>6, <1>9, <1>10, <2>1
<1>12. UpToDate(key, h)'
  <2>1. h.last_known_peak <= FinalPeakCount'
    BY <1>4, <1>5, <1>10, <1>11
  <2>2. Rebase(h, FinalPeakCount').contributed = peaks'[CurrentSnapshot + 1].heap[key]
    <3>1. CASE Rising'
      <4>1. h.last_known_peak # FinalPeakCount'
        BY <1>4, <1>5, <1>10, <1>11, <3>1
      <4>2. Rebase(h, FinalPeakCount').contributed = LeaksContribution(h)
        BY <1>5, <1>10, <1>11, <4>1, RebaseHistory
      <4> QED BY <1>4, <1>10, <1>11, <3>1, <4>2
    <3>2. CASE ~Rising'
      <4>1. h.last_known_peak = FinalPeakCount' /\ peak_count' = FinalPeakCount
        BY <1>4, <1>5, <1>10, <1>11, <3>2
      <4>2. Rebase(h, FinalPeakCount') = h
        BY <1>5, <1>10, <1>11, <4>1, RebaseHistory
      <4>3. h.contributed = Rebase(completed, FinalPeakCount).contributed
        BY <1>10, <1>11, <4>1 DEF r
      <4> QED BY <1>4, <1>8, <3>2, <4>2, <4>3
    <3> QED BY <3>1, <3>2
  <2>3. h.last_known_peak <= peak_count'
    BY <1>4, <1>10, <1>11
  <2>4. CurrentSnapshot \in 0..CurrentSnapshot /\ CurrentSnapshot + 1..CurrentSnapshot = {}
    BY <1>1
  <2> QED BY <1>5, <1>10, <1>11, <2>1, <2>2, <2>3, <2>4 DEF UpToDate, LeaksContribution
<1>13. Recorded(key, h)'
  BY <1>4, <1>5, <1>7, <1>8, <1>10, <1>11 DEF Recorded
<1>14. CancelsOut(key, h)'
  BY <1>1, <1>5, <1>10, <1>11 DEF CancelsOut
<1>15. \A s \in 0..CurrentSnapshot - 1 : PeakIndex(s)' = PeakIndex(s)
  BY DeltaIndexes
<1>16. KnowsPeaks(key, h)'
  <2>1. KnowsPeaks(key, completed)
    BY <1>2 DEF HistoryOK
  <2>2. \A i \in 1..Len(completed.recorded) :
          completed.recorded[i].as_of_snapshot \in 0..CurrentSnapshot - 1
    <3>1. \A i \in 1..Len(completed.recorded) : completed.recorded[i].as_of_snapshot \in Nat
      BY <1>2, RecordedFields
    <3> QED BY <1>1, <1>8, <3>1
  <2>3. \A i \in 1..Len(h.recorded) :
          h.recorded[i].peak_index = PeakIndex(h.recorded[i].as_of_snapshot)'
    BY <1>7, <1>10, <1>11, <1>15, <2>1, <2>2 DEF KnowsPeaks
  <2>4. ASSUME key \notin cancelled', NEW s \in 0..CurrentSnapshot - 1,
               h.last_known_peak <= PeakIndex(s)'
        PROVE  Rebase(h, PeakIndex(s)').contributed = peaks'[s + 1].heap[key]
    <3>1. PeakIndex(s) \in Nat /\ PeakIndex(s) <= peak_count /\ PeakIndex(s)' = PeakIndex(s)
      BY <1>1, <1>15, CompletedPeaks, PeakIndexType
    <3>2. peak_count <= peak_count'
      BY DeltaIndexes
    <3>3. PeakIndex(s) = peak_count' /\ PeakIndex(s) = peak_count
      BY <1>4, <1>10, <1>11, <2>4, <3>1, <3>2
    <3>4. Rebase(h, peak_count') = h
      BY <1>4, <1>10, <1>11, RebaseHistory
    <3>5. Rebase(completed, PeakIndex(s)).contributed = peaks[s + 1].heap[key]
      BY <1>2, <1>5, <1>8, <2>1, <2>4, <3>3 DEF KnowsPeaks
    <3>6. h.contributed = Rebase(completed, peak_count').contributed
      BY <1>10, <1>11 DEF r
    <3>7. peaks'[s + 1] = peaks[s + 1]
      BY <1>4
    <3> QED BY <3>1, <3>3, <3>4, <3>5, <3>6, <3>7
  <2> QED BY <1>5, <1>10, <1>11, <2>3, <2>4 DEF KnowsPeaks
<1> QED BY <1>11, <1>12, <1>13, <1>14, <1>16 DEF HistoryOK

\* recordUsageDelta keeps the invariant of the high water mark: a delta, be it
\* of an allocation or of a deallocation, is settled against the peaks so far.
LEMMA DeltaStep ==
    ASSUME PeaksInv, NEW key \in Keys, NEW count \in Int, NEW bytes \in Int,
           RecordUsageDelta(key, count, bytes)
    PROVE  PeaksInv'
<1>1. PeaksOK /\ HighestOfCurrent
  BY DEF PeaksInv
<1>2. usage_history' \in [Keys -> Histories]
  BY DeltaHere
<1>3. PeaksOK'
  <2>1. UNCHANGED <<index_by_snapshot, bytes_by_snapshot, cancelled>>
    BY DEF RecordUsageDelta
  <2> QED BY <1>1, <1>2, <2>1, DeltaPeaks DEF PeaksOK
<1>4. PeaksInOrder'
  BY DeltaIndexes
<1>5. HighestOfCurrent'
  <2>1. CurrentSnapshot' = CurrentSnapshot
    BY DeltaIndexes
  <2> QED BY <1>1, <2>1, DeltaPeaks DEF HighestOfCurrent
<1>6. ASSUME NEW k \in Keys PROVE HistoryOK(k, usage_history[k])'
  <2>1. CASE k = key
    BY <2>1, DeltaHere
  <2>2. CASE k # key
    <3>1. usage_history[k] \in Histories /\ HistoryOK(k, usage_history[k])
      BY <1>1, PeaksType DEF PeaksInv
    <3>2. usage_history'[k] = usage_history[k]
      BY <1>1, <2>2 DEF RecordUsageDelta, PeaksOK
    <3>3. PICK h \in Histories : h = usage_history[k] /\ HistoryOK(k, h)
      BY <3>1
    <3>4. HistoryOK(k, h)'
      BY <2>2, <3>3, DeltaElsewhere
    <3> QED BY <3>2, <3>3, <3>4
  <2> QED BY <2>1, <2>2
<1>7. HeightsRecorded'
  <2>1. bytes_by_snapshot' = bytes_by_snapshot /\ CurrentSnapshot' = CurrentSnapshot
    BY DeltaIndexes DEF RecordUsageDelta
  <2>2. \A s \in 0..CurrentSnapshot - 1 : peaks'[s + 1] = peaks[s + 1]
    BY <1>1, DeltaPeaks
  <2> QED BY <2>1, <2>2 DEF PeaksInv, HeightsRecorded
<1> QED BY <1>3, <1>4, <1>5, <1>6, <1>7 DEF PeaksInv

\* A snapshot takes the number of its highest peak with it; every location is
\* behind by one more.
LEMMA CaptureStep ==
    ASSUME PeaksInv, CaptureSnapshot
    PROVE  PeaksInv'
<1> DEFINE n == CurrentSnapshot
           Peaks == [bytes : Int, heap : [Keys -> Contributions]]
           start == [bytes |-> current_heap_size, heap |-> heap]
<1>1. /\ PeaksOK /\ HighestOfCurrent /\ PeaksInOrder
      /\ n \in Nat /\ FinalPeakCount \in {peak_count, peak_count + 1} /\ FinalPeakCount \in Nat
      /\ PeakIndex(n) = FinalPeakCount
      /\ \A s \in 0..n : PeakIndex(s) \in Nat
      /\ \A s \in 0..n - 1 : PeakIndex(s) = index_by_snapshot[s + 1]
  BY PeakIndexType DEF PeaksInv
<1>2. /\ index_by_snapshot \in Seq(Nat) /\ Len(index_by_snapshot) = n
      /\ bytes_by_snapshot \in Seq(Int) /\ Len(bytes_by_snapshot) = n
      /\ peaks \in Seq(Peaks) /\ Len(peaks) = n + 1 /\ start \in Peaks
      /\ peak_count \in Nat /\ heap_size_at_last_peak \in Int /\ current_heap_size \in Int
      /\ heap \in [Keys -> Contributions] /\ usage_history \in [Keys -> Histories]
      /\ cancelled \subseteq Keys
  BY <1>1 DEF PeaksOK, CurrentSnapshot
<1>3. /\ index_by_snapshot' = Append(index_by_snapshot, FinalPeakCount)
      /\ bytes_by_snapshot' = Append(bytes_by_snapshot, IF Rising THEN current_heap_size
                                                        ELSE heap_size_at_last_peak)
      /\ peak_count' = peak_count + 1 /\ heap_size_at_last_peak' = current_heap_size
      /\ peaks' = Append(peaks, start)
      /\ cancelled' = cancelled \cup {k \in Keys : Cancels(k)}
      /\ UNCHANGED <<current_heap_size, usage_history, heap>>
  BY DEF CaptureSnapshot, FinalPeakCount
<1>4. Rising' /\ FinalPeakCount' = peak_count + 2
  BY <1>2, <1>3 DEF Rising, FinalPeakCount
<1> HIDE DEF Peaks
<1>5. /\ peaks' \in Seq(Peaks) /\ Len(peaks') = n + 2 /\ peaks'[n + 2] = start
      /\ \A i \in 1..n + 1 : peaks'[i] = peaks[i]
  <2> HIDE DEF n, start
  <2> QED BY <1>2, <1>3, <1>1
<1>6. \A s \in 0..n : peaks'[s + 1] = peaks[s + 1]
  BY <1>1, <1>5
<1>7. /\ index_by_snapshot' \in Seq(Nat) /\ Len(index_by_snapshot') = n + 1
      /\ index_by_snapshot'[n + 1] = FinalPeakCount
      /\ \A i \in 1..n : index_by_snapshot'[i] = index_by_snapshot[i]
  BY <1>1, <1>2, <1>3
<1>8. CurrentSnapshot' = n + 1
  BY <1>7 DEF CurrentSnapshot
<1>9. \A s \in 0..n : PeakIndex(s)' = PeakIndex(s)
  <2> SUFFICES ASSUME NEW s \in 0..n PROVE PeakIndex(s)' = PeakIndex(s)
    OBVIOUS
  <2>1. PeakIndex(s)' = index_by_snapshot'[s + 1]
    BY <1>1, <1>8 DEF PeakIndex
  <2>2. CASE s = n
    BY <1>1, <1>7, <2>1, <2>2
  <2>3. CASE s # n
    <3>1. s \in 0..n - 1 /\ s + 1 \in 1..n
      BY <1>1, <2>3
    <3>2. PeakIndex(s) = index_by_snapshot[s + 1]
      BY <1>1, <3>1
    <3>3. index_by_snapshot'[s + 1] = index_by_snapshot[s + 1]
      BY <1>7, <3>1
    <3> QED BY <2>1, <3>2, <3>3
  <2> QED BY <2>2, <2>3
<1>10. PeakIndex(n + 1)' = peak_count + 2
  BY <1>1, <1>4, <1>8 DEF PeakIndex
<1>11. PeaksOK'
  <2>1. bytes_by_snapshot' \in Seq(Int) /\ Len(bytes_by_snapshot') = n + 1
    BY <1>1, <1>2, <1>3
  <2>2. peaks' \in Seq([bytes : Int, heap : [Keys -> Contributions]])
    BY <1>5 DEF Peaks
  <2>3. cancelled' \subseteq Keys
    BY <1>2, <1>3
  <2> QED BY <1>1, <1>2, <1>3, <1>5, <1>7, <2>1, <2>2, <2>3 DEF PeaksOK
<1>12. PeaksInOrder'
  <2> SUFFICES ASSUME NEW s \in 0..n + 1, NEW u \in 0..n + 1, s < u
               PROVE  PeakIndex(s)' < PeakIndex(u)'
    BY <1>8 DEF PeaksInOrder
  <2>1. s \in 0..n /\ PeakIndex(s) \in Nat
    BY <1>1
  <2>2. CASE u = n + 1
    <3>1. PeakIndex(s) <= FinalPeakCount
      BY <1>1, <2>1 DEF PeaksInOrder
    <3>2. PeakIndex(u)' = peak_count + 2
      <4>1. PeakIndex(u)' = FinalPeakCount'
        BY <1>1, <1>8, <2>2 DEF PeakIndex
      <4> QED BY <1>4, <4>1
    <3> QED BY <1>1, <1>2, <1>9, <2>1, <3>1, <3>2
  <2>3. CASE u # n + 1
    <3>1. u \in 0..n
      BY <1>1, <2>3
    <3> QED BY <1>1, <1>9, <2>1, <3>1 DEF PeaksInOrder
  <2> QED BY <2>2, <2>3
<1>13. HighestOfCurrent'
  <2>1. peaks'[CurrentSnapshot' + 1] = start
    BY <1>1, <1>5, <1>8
  <2> QED BY <1>3, <1>4, <2>1 DEF HighestOfCurrent
<1>14. ASSUME NEW k \in Keys, NEW h \in Histories, HistoryOK(k, h)
       PROVE  HistoryOK(k, h)'
  <2> DEFINE known == h.last_known_snapshot
  <2>1. /\ UpToDate(k, h) /\ Recorded(k, h) /\ CancelsOut(k, h)
        /\ known \in 0..n /\ h.last_known_peak \in Nat
    BY <1>14, HistoryFields DEF HistoryOK, UpToDate
  <2>2. /\ PeakIndex(known)' = PeakIndex(known) /\ peaks'[known + 1] = peaks[known + 1]
        /\ heap' = heap
    BY <1>3, <1>6, <1>9, <2>1
  <2>3. ASSUME NEW s \in known + 1..n + 1 PROVE peaks'[s + 1].heap[k] = heap[k]
    <3>1. CASE s = n + 1
      <4>1. peaks'[s + 1] = start
        BY <1>1, <1>5, <3>1
      <4> QED BY <4>1
    <3>2. CASE s # n + 1
      <4>1. s \in 0..n /\ s \in known + 1..n
        BY <1>1, <2>1, <3>2
      <4> QED BY <1>6, <2>1, <4>1 DEF UpToDate
    <3> QED BY <3>1, <3>2
  <2>4. UpToDate(k, h)'
    <3>1. h.last_known_peak <= peak_count'
      BY <1>2, <1>3, <2>1 DEF UpToDate
    <3>2. known \in 0..n + 1
      BY <1>1, <2>1
    <3> QED BY <1>8, <2>1, <2>2, <2>3, <3>1, <3>2 DEF UpToDate, LeaksContribution
  <2>5. Recorded(k, h)'
    <3>1. \A s \in 0..known - 1 : peaks'[s + 1] = peaks[s + 1]
      BY <1>1, <1>6, <2>1
    <3>2. cancelled \subseteq cancelled'
      BY <1>3
    <3> QED BY <2>1, <3>1, <3>2 DEF Recorded
  <2>6. CancelsOut(k, h)'
    <3> SUFFICES ASSUME heap[k].allocations = peaks[known + 1].heap[k].allocations
                 PROVE  k \in cancelled' \/ heap[k] = peaks[known + 1].heap[k]
      BY <2>2 DEF CancelsOut
    <3>1. CASE known < n
      BY <1>3, <2>1, <3>1 DEF CancelsOut
    <3>2. CASE known = n
      <4>1. heap[k] \in Contributions /\ peaks[n + 1].heap[k] \in Contributions
        BY <1>1, PeaksType
      <4>2. heap[k] = peaks[n + 1].heap[k] \/ heap[k].bytes # peaks[n + 1].heap[k].bytes
        BY <3>2, <4>1, ContributionEquality
      <4>3. heap[k].bytes # peaks[n + 1].heap[k].bytes => Cancels(k)
        BY <1>2, <3>2 DEF Cancels
      <4> QED BY <1>3, <3>2, <4>2, <4>3
    <3> QED BY <1>1, <2>1, <3>1, <3>2
  <2>7. KnowsPeaks(k, h)'
    <3>1. KnowsPeaks(k, h)
      BY <1>14 DEF HistoryOK
    <3>2. \A i \in 1..Len(h.recorded) : h.recorded[i].as_of_snapshot \in 0..n
      <4>1. \A i \in 1..Len(h.recorded) : h.recorded[i].as_of_snapshot < known
        BY <2>1 DEF Recorded
      <4>2. \A i \in 1..Len(h.recorded) : h.recorded[i].as_of_snapshot \in Nat
        BY <1>14, RecordedFields
      <4>3. known \in 0..n /\ n \in Nat
        BY <1>1, <2>1
      <4> HIDE DEF known, n
      <4> QED BY <4>1, <4>2, <4>3
    <3>3. \A s \in 0..known - 1 : s \in 0..n
      BY <1>1, <2>1
    <3>4. cancelled \subseteq cancelled'
      BY <1>3
    <3>5. \A i \in 1..Len(h.recorded) :
            h.recorded[i].peak_index = PeakIndex(h.recorded[i].as_of_snapshot)'
      BY <1>9, <3>1, <3>2 DEF KnowsPeaks
    <3>6. ASSUME k \notin cancelled', NEW s \in 0..known - 1, h.last_known_peak <= PeakIndex(s)'
          PROVE  Rebase(h, PeakIndex(s)').contributed = peaks'[s + 1].heap[k]
      <4>1. PeakIndex(s)' = PeakIndex(s) /\ peaks'[s + 1] = peaks[s + 1]
        BY <1>6, <1>9, <3>3
      <4> QED BY <3>1, <3>4, <3>6, <4>1 DEF KnowsPeaks
    <3> QED BY <3>5, <3>6 DEF KnowsPeaks
  <2> QED BY <2>4, <2>5, <2>6, <2>7 DEF HistoryOK
<1>15. ASSUME NEW k \in Keys PROVE HistoryOK(k, usage_history[k])'
  <2>1. usage_history[k] \in Histories /\ HistoryOK(k, usage_history[k])
    BY <1>2 DEF PeaksInv
  <2>2. PICK h \in Histories : h = usage_history[k] /\ HistoryOK(k, h)
    BY <2>1
  <2>3. HistoryOK(k, h)'
    BY <1>14, <2>2
  <2> QED BY <1>3, <2>2, <2>3
<1>16. HeightsRecorded'
  <2>1. bytes_by_snapshot'[n + 1] = peaks[n + 1].bytes
    BY <1>1, <1>2, <1>3 DEF HighestOfCurrent
  <2>2. \A s \in 0..n - 1 : bytes_by_snapshot'[s + 1] = bytes_by_snapshot[s + 1]
    BY <1>1, <1>2, <1>3
  <2>3. \A s \in 0..n - 1 : bytes_by_snapshot[s + 1] = peaks[s + 1].bytes
    BY DEF PeaksInv, HeightsRecorded
  <2>4. \A s \in 0..n : bytes_by_snapshot'[s + 1] = peaks'[s + 1].bytes
    <3> SUFFICES ASSUME NEW s \in 0..n PROVE bytes_by_snapshot'[s + 1] = peaks'[s + 1].bytes
      OBVIOUS
    <3>1. CASE s = n
      BY <1>1, <1>6, <2>1, <3>1
    <3>2. CASE s # n
      <4>1. s \in 0..n - 1
        BY <1>1, <3>2
      <4> QED BY <1>6, <2>2, <2>3, <4>1
    <3> QED BY <3>1, <3>2
  <2>5. CurrentSnapshot' - 1 = n
    BY <1>1, <1>8
  <2> QED BY <2>4, <2>5 DEF HeightsRecorded
<1> QED BY <1>11, <1>12, <1>13, <1>15, <1>16 DEF PeaksInv

-----------------------------------------------------------------------------
(* The steps of the specification. *)

\* The intervals that munmap leaves, and those that it removes.
LEMMA RemoveIntervalType ==
    ASSUME NEW begin \in Nat, NEW end \in Nat,
           NEW tree \in SUBSET [begin : Nat, end : Nat, value : RangedKeys]
    PROVE  /\ RemoveInterval(tree, begin, end) \subseteq [begin : Nat, end : Nat, value : RangedKeys]
           /\ Removed(tree, begin, end)
                \subseteq [begin : Nat, end : Nat, value : RangedKeys, remain : 0..2]
<1> DEFINE Intervals == [begin : Nat, end : Nat, value : RangedKeys]
<1>1. ASSUME NEW i \in Intervals
      PROVE  Before(i, begin) \subseteq Intervals /\ After(i, end) \subseteq Intervals
  BY DEF Before, After
<1>2. ASSUME NEW i \in Intervals
      PROVE  [begin |-> Max2(i.begin, begin), end |-> Min2(i.end, end), value |-> i.value,
              remain |-> (IF i.begin < begin THEN 1 ELSE 0) + (IF end < i.end THEN 1 ELSE 0)]
               \in [begin : Nat, end : Nat, value : RangedKeys, remain : 0..2]
  BY DEF Max2, Min2
<1>3. \A i \in tree : i \in Intervals
  OBVIOUS
<1> HIDE DEF Intervals
<1>4. RemoveInterval(tree, begin, end) \subseteq Intervals
  BY <1>1, <1>3 DEF RemoveInterval, Remainder
<1>5. Removed(tree, begin, end)
        \subseteq [begin : Nat, end : Nat, value : RangedKeys, remain : 0..2]
  BY <1>2, <1>3 DEF Removed
<1> QED BY <1>4, <1>5 DEF Intervals

\* A capture begins with no heap and no peak.
LEMMA InitInvariant == Init => HistoriesInv
<1> SUFFICES ASSUME Init PROVE HistoriesInv
  OBVIOUS
<1> DEFINE empty == [bytes |-> 0, heap |-> [k \in Keys |-> None]]
<1>1. /\ CurrentSnapshot = 0 /\ Rising /\ FinalPeakCount = 1
      /\ peaks = <<empty>> /\ peaks[1] = empty /\ Len(peaks) = 1
      /\ current_heap_size = 0 /\ heap = [k \in Keys |-> None]
  BY DEF Init, CurrentSnapshot, Rising, FinalPeakCount
<1>2. NewHistory \in Histories
  <2>1. <<>> \in Seq(HistoricalContributions)
    OBVIOUS
  <2> QED BY <2>1, NoneType, HistoryType DEF NewHistory
<1>3. AllocationsOK
  BY DEF Init, AllocationsOK
<1>4. PeaksOK
  <2>1. empty \in [bytes : Int, heap : [Keys -> Contributions]]
    BY NoneType
  <2>2. peaks \in Seq([bytes : Int, heap : [Keys -> Contributions]])
    <3> HIDE DEF empty
    <3> QED BY <1>1, <2>1
  <2>3. heap \in [Keys -> Contributions]
    BY <1>1, NoneType
  <2>4. usage_history \in [Keys -> Histories]
    BY <1>2 DEF Init
  <2>5. index_by_snapshot = <<>> /\ bytes_by_snapshot = <<>>
    BY DEF Init
  <2>6. cancelled = {} /\ peak_count = 0 /\ heap_size_at_last_peak = 0
    BY DEF Init
  <2> QED BY <1>1, <2>2, <2>3, <2>4, <2>5, <2>6 DEF PeaksOK
<1>5. PeaksInOrder
  BY <1>1 DEF PeaksInOrder
<1>6. HighestOfCurrent
  BY <1>1 DEF HighestOfCurrent
<1>7. ASSUME NEW k \in Keys PROVE HistoryOK(k, usage_history[k])
  <2>1. /\ NewHistory.last_known_snapshot = 0 /\ NewHistory.last_known_peak = 0
        /\ NewHistory.recorded = <<>>
        /\ LeaksContribution(NewHistory) = None
        /\ usage_history[k] = NewHistory
    BY <1>2, NoneType, PlusNone
       DEF Init, NewHistory, UsageHistory, LeaksContribution
  <2>2. PeakIndex(0) = 1
    BY <1>1 DEF PeakIndex
  <2>3. Rebase(NewHistory, 1).contributed = None
    BY <1>2, <2>1, RebaseHistory
  <2>4. heap[k] = None /\ peaks[0 + 1].heap[k] = None
    BY <1>1
  <2>5. peak_count = 0
    BY DEF Init
  <2>6. UpToDate(k, NewHistory)
    BY <1>1, <2>1, <2>2, <2>3, <2>4, <2>5 DEF UpToDate
  <2>7. Recorded(k, NewHistory)
    BY <2>1 DEF Recorded
  <2>8. CancelsOut(k, NewHistory)
    BY <1>1, <2>1 DEF CancelsOut
  <2>9. KnowsPeaks(k, NewHistory)
    BY <2>1 DEF KnowsPeaks
  <2> QED BY <2>1, <2>6, <2>7, <2>8, <2>9 DEF HistoryOK
<1>8. HeightsRecorded
  BY <1>1 DEF HeightsRecorded
<1> QED BY <1>3, <1>4, <1>5, <1>6, <1>7, <1>8 DEF HistoriesInv, TypeOK

\* A step records one usage delta, starts a snapshot or leaves the peaks alone.
LEMMA NextInvariant == HistoriesInv /\ [Next]_vars => HistoriesInv'
<1> SUFFICES ASSUME HistoriesInv, [Next]_vars PROVE HistoriesInv'
  OBVIOUS
<1>1. AllocationsOK /\ PeaksInv
  BY DEF HistoriesInv, TypeOK, PeaksInv
<1>2. PeaksInv' /\ AllocationsOK' => HistoriesInv'
  BY DEF HistoriesInv, TypeOK, PeaksInv
<1>3. ASSUME UNCHANGED <<peak_vars, history_vars>> PROVE PeaksInv'
  <2>1. /\ index_by_snapshot' = index_by_snapshot /\ bytes_by_snapshot' = bytes_by_snapshot
        /\ peak_count' = peak_count /\ heap_size_at_last_peak' = heap_size_at_last_peak
        /\ current_heap_size' = current_heap_size /\ usage_history' = usage_history
        /\ heap' = heap /\ peaks' = peaks /\ cancelled' = cancelled
    BY <1>3 DEF peak_vars, history_vars
  <2>2. PeaksOK'
    BY <1>1, <2>1 DEF PeaksInv, PeaksOK
  <2>3. PeaksInOrder'
    BY <1>1, <2>1 DEF PeaksInv, PeaksInOrder, PeakIndex, CurrentSnapshot, FinalPeakCount, Rising
  <2>4. HighestOfCurrent'
    BY <1>1, <2>1 DEF PeaksInv, HighestOfCurrent, CurrentSnapshot, Rising
  <2>5. ASSUME NEW k \in Keys PROVE HistoryOK(k, usage_history[k])'
    BY <1>1, <2>1
       DEF PeaksInv, HistoryOK, UpToDate, Recorded, CancelsOut, KnowsPeaks, PeakIndex,
           CurrentSnapshot, FinalPeakCount, Rising, LeaksContribution
  <2>6. HeightsRecorded'
    BY <1>1, <2>1 DEF PeaksInv, HeightsRecorded, CurrentSnapshot
  <2> QED BY <2>2, <2>3, <2>4, <2>5, <2>6 DEF PeaksInv
<1>4. ASSUME NEW a \in Addresses, NEW k \in SimpleKeys, NEW n \in Sizes, AddSimple(a, k, n)
      PROVE  HistoriesInv'
  <2>1. k \in Keys /\ n \in Int
    BY NumbersAssumption DEF Keys
  <2>2. PeaksInv'
    BY <1>1, <1>4, <2>1, DeltaStep DEF AddSimple
  <2>3. AllocationsOK'
    BY <1>1, <1>4 DEF AddSimple, AllocationsOK
  <2> QED BY <1>2, <2>2, <2>3
<1>5. ASSUME NEW a \in Addresses, FreeSimple(a) PROVE HistoriesInv'
  <2> DEFINE freed == ptr_to_allocation[a]
  <2>1. freed \in [key : SimpleKeys, size : Sizes]
    BY <1>1, <1>5 DEF FreeSimple, AllocationsOK
  <2>2. freed.key \in Keys /\ -freed.size \in Int
    <3>1. freed.key \in SimpleKeys /\ freed.size \in Sizes
      <4> HIDE DEF freed
      <4> QED BY <2>1
    <3> HIDE DEF freed
    <3>2. freed.size \in Nat
      BY <3>1, NumbersAssumption
    <3> QED BY <3>1, <3>2 DEF Keys
  <2>3. PeaksInv'
    <3>1. RecordUsageDelta(freed.key, -1, -freed.size)
      BY <1>5 DEF FreeSimple
    <3> HIDE DEF freed
    <3> QED BY <1>1, <2>2, <3>1, DeltaStep
  <2>4. AllocationsOK'
    BY <1>1, <1>5 DEF FreeSimple, AllocationsOK
  <2> QED BY <1>2, <2>3, <2>4
<1>6. ASSUME NEW b \in Pages, NEW e \in Pages, NEW k \in RangedKeys, AddRanged(b, e, k)
      PROVE  HistoriesInv'
  <2>1. k \in Keys /\ b \in Nat /\ e \in Nat
    BY NumbersAssumption DEF Keys
  <2>2. PeaksInv'
    <3>1. e - b \in Int /\ RecordUsageDelta(k, 1, e - b)
      BY <1>6, <2>1 DEF AddRanged
    <3> QED BY <1>1, <2>1, <3>1, DeltaStep
  <2>3. AllocationsOK'
    BY <1>1, <1>6, <2>1 DEF AddRanged, AddInterval, AllocationsOK
  <2> QED BY <1>2, <2>2, <2>3
<1>7. ASSUME NEW b \in Pages, NEW e \in Pages, FreeRanged(b, e) PROVE HistoriesInv'
  <2>1. b \in Nat /\ e \in Nat
    BY NumbersAssumption
  <2>2. PeaksInv'
    BY <1>3, <1>7 DEF FreeRanged
  <2>3. AllocationsOK'
    BY <1>1, <1>7, <2>1, RemoveIntervalType DEF FreeRanged, AllocationsOK
  <2> QED BY <1>2, <2>2, <2>3
<1>8. ASSUME RecordRemoved PROVE HistoriesInv'
  <2>1. PICK i \in removed : /\ RecordUsageDelta(i.value, i.remain - 1, -Size(i))
                             /\ removed' = removed \ {i}
                             /\ UNCHANGED <<ptr_to_allocation, mmap_intervals>>
    BY <1>8 DEF RecordRemoved
  <2>2. i.value \in Keys /\ i.remain - 1 \in Int /\ -Size(i) \in Int
    BY <1>1 DEF AllocationsOK, Size, Keys
  <2>3. PeaksInv'
    BY <1>1, <2>1, <2>2, DeltaStep
  <2>4. AllocationsOK'
    BY <1>1, <2>1 DEF AllocationsOK
  <2> QED BY <1>2, <2>3, <2>4
<1>9. ASSUME CaptureSnapshot PROVE HistoriesInv'
  <2>1. AllocationsOK'
    BY <1>1, <1>9 DEF CaptureSnapshot, AllocationsOK
  <2> QED BY <1>1, <1>2, <1>9, <2>1, CaptureStep
<1>10. ASSUME UNCHANGED vars PROVE HistoriesInv'
  <2>1. AllocationsOK'
    BY <1>1, <1>10 DEF vars, AllocationsOK
  <2>2. PeaksInv'
    BY <1>3, <1>10 DEF vars
  <2> QED BY <1>2, <2>1, <2>2
<1> QED BY <1>4, <1>5, <1>6, <1>7, <1>8, <1>9, <1>10 DEF Next

\* Throughout a capture the numbers of the peaks increase from one snapshot to
\* the next, and each location's pending and recorded contributions determine
\* what it had on the heap at the highest heap of every snapshot.
THEOREM Invariant == Spec => []HistoriesInv
<1>1. Init => HistoriesInv
  BY InitInvariant
<1>2. HistoriesInv /\ [Next]_vars => HistoriesInv'
  BY NextInvariant
<1> QED BY <1>1, <1>2, PTL DEF Spec

-----------------------------------------------------------------------------
(* The properties. *)

\* Every variable has its type in every reachable state.
THEOREM TypeCorrect == Spec => []TypeOK
<1>1. HistoriesInv => TypeOK
  BY DEF HistoriesInv
<1> QED BY <1>1, Invariant, PTL

\* A history that is brought up to the current snapshot tells the same.
LEMMA InvariantCatchesUp ==
    ASSUME HistoriesInv, NEW k \in Keys
    PROVE  LET r == RecordContributionsToCompletedSnapshots(usage_history[k]) IN
           /\ r \in Histories /\ HistoryOK(k, r)
           /\ r.last_known_snapshot = CurrentSnapshot
<1>1. /\ PeaksOK /\ PeaksInOrder
      /\ usage_history[k] \in Histories /\ HistoryOK(k, usage_history[k])
  BY PeaksType DEF HistoriesInv, TypeOK
<1>2. PICK h \in Histories : h = usage_history[k] /\ HistoryOK(k, h)
  BY <1>1
<1>3. LET r == RecordContributionsToCompletedSnapshots(h) IN
      /\ r \in Histories /\ HistoryOK(k, r)
      /\ r.last_known_snapshot = CurrentSnapshot
  BY <1>1, <1>2, CatchesUp
<1> QED BY <1>2, <1>3

\* The comment on the loop of recordContributionsToCompletedSnapshots is right
\* for every location, however many snapshots it slept through.
THEOREM LoopIsShort == Spec => []LoopFiresAtMostTwice
<1>1. HistoriesInv => LoopFiresAtMostTwice
  BY InvariantCatchesUp DEF LoopFiresAtMostTwice
<1> QED BY <1>1, Invariant, PTL

\* The list that generateIndex reads, at any snapshot and one after the last.
LEMMA IndexOfRecorded ==
    ASSUME HistoriesInv, NEW k \in Keys, NEW s \in Int
    PROVE  LET r == RecordContributionsToCompletedSnapshots(usage_history[k]) IN
           InIndex(k, s) = IF s < CurrentSnapshot THEN AsOf(r.recorded, s)
                           ELSE IF s = CurrentSnapshot THEN peaks[CurrentSnapshot + 1].heap[k]
                           ELSE heap[k]
<1> DEFINE r == RecordContributionsToCompletedSnapshots(usage_history[k])
           final == Rebase(r, FinalPeakCount)
           n == CurrentSnapshot
           upto == Record(r.recorded, n, FinalPeakCount, final.contributed)
           all == Record(upto, n + 1, -1, Plus(final.contributed, final.since))
<1>1. /\ r \in Histories /\ HistoryOK(k, r) /\ r.last_known_snapshot = n
  BY InvariantCatchesUp
<1>2. n \in Nat /\ FinalPeakCount \in Nat /\ PeakIndex(n) = FinalPeakCount
  BY PeakIndexType DEF HistoriesInv, TypeOK
<1>3. InIndex(k, s) = AsOf(all, s)
  BY DEF InIndex, ContributionsBySnapshot
<1> HIDE DEF r
<1>4. /\ final \in Histories /\ final.contributed \in Contributions
      /\ final.since \in Contributions
      /\ Plus(final.contributed, final.since) = LeaksContribution(r)
      /\ r.recorded \in Seq(HistoricalContributions)
  BY <1>1, <1>2, RebaseHistory, HistoryFields
<1>5. /\ final.contributed = peaks[n + 1].heap[k] /\ LeaksContribution(r) = heap[k]
      /\ \A i \in 1..Len(r.recorded) : r.recorded[i].as_of_snapshot < n
  BY <1>1, <1>2 DEF HistoryOK, UpToDate, Recorded
<1> HIDE DEF final, n
<1>6. /\ upto \in Seq(HistoricalContributions)
      /\ \A i \in 1..Len(upto) : upto[i].as_of_snapshot <= n
      /\ \A t \in Int : AsOf(upto, t) = IF t < n THEN AsOf(r.recorded, t) ELSE final.contributed
  <2> DEFINE records == r.recorded
             c == final.contributed
  <2>1. /\ records \in Seq(HistoricalContributions) /\ n \in Nat /\ FinalPeakCount \in Int
        /\ c \in Contributions
        /\ \A i \in 1..Len(records) : records[i].as_of_snapshot < n
    BY <1>2, <1>4, <1>5
  <2>2. upto = Record(records, n, FinalPeakCount, c)
    OBVIOUS
  <2> HIDE DEF records, c, upto
  <2>3. /\ upto \in Seq(HistoricalContributions)
        /\ \A i \in 1..Len(upto) : upto[i].as_of_snapshot <= n
        /\ \A t \in Int : AsOf(upto, t) = IF t < n THEN AsOf(records, t) ELSE c
    BY <2>1, <2>2, RecordAsOf
  <2> QED BY <2>3 DEF records, c
<1> HIDE DEF upto
<1>7. \A i \in 1..Len(upto) : upto[i].as_of_snapshot < n + 1
  <2>1. \A i \in 1..Len(upto) : upto[i].as_of_snapshot \in Nat
    <3>1. \A i \in 1..Len(upto) : upto[i] \in HistoricalContributions
      BY <1>6
    <3> QED BY <3>1 DEF HistoricalContributions
  <2> QED BY <1>2, <1>6, <2>1
<1>8. Plus(final.contributed, final.since) \in Contributions
  BY <1>4, PlusType
<1>9. AsOf(all, s) = IF s < n + 1 THEN AsOf(upto, s)
                     ELSE Plus(final.contributed, final.since)
  <2>1. n + 1 \in Nat /\ -1 \in Int
    BY <1>2
  <2> QED BY <1>6, <1>7, <1>8, <2>1, RecordAsOf
<1> HIDE DEF all
<1>10. AsOf(all, s) = IF s < n THEN AsOf(r.recorded, s)
                      ELSE IF s = n THEN peaks[n + 1].heap[k] ELSE heap[k]
  BY <1>2, <1>4, <1>5, <1>6, <1>9
<1> QED BY <1>3, <1>10 DEF r, n

\* The last two intervals of every location are its contribution to the
\* highest heap since the last snapshot and what it leaks.
THEOREM IndexEnds == Spec => []IndexEndsRight
<1>1. ASSUME HistoriesInv PROVE IndexEndsRight
  <2>1. CurrentSnapshot \in Nat
    BY <1>1, PeakIndexType DEF HistoriesInv, TypeOK
  <2>2. CurrentSnapshot \in Int /\ CurrentSnapshot + 1 \in Int
    BY <2>1
  <2> SUFFICES ASSUME NEW k \in Keys
               PROVE  /\ InIndex(k, CurrentSnapshot) = peaks[CurrentSnapshot + 1].heap[k]
                      /\ InIndex(k, CurrentSnapshot + 1) = heap[k]
    BY DEF IndexEndsRight
  <2>3. InIndex(k, CurrentSnapshot) = peaks[CurrentSnapshot + 1].heap[k]
    BY <1>1, <2>1, <2>2, IndexOfRecorded
  <2>4. InIndex(k, CurrentSnapshot + 1) = heap[k]
    BY <1>1, <2>1, <2>2, IndexOfRecorded
  <2> QED BY <2>3, <2>4
<1> QED BY <1>1, Invariant, PTL

\* What the list holds of a completed snapshot, and of the current one.
LEMMA IndexOfSnapshots ==
    ASSUME HistoriesInv, NEW k \in Keys, NEW s \in 0..CurrentSnapshot
    PROVE  /\ InIndex(k, s).allocations = peaks[s + 1].heap[k].allocations
           /\ k \notin cancelled => InIndex(k, s) = peaks[s + 1].heap[k]
<1>1. CurrentSnapshot \in Nat
  BY PeakIndexType DEF HistoriesInv, TypeOK
<1>2. PICK r \in Histories :
        /\ r = RecordContributionsToCompletedSnapshots(usage_history[k])
        /\ HistoryOK(k, r) /\ r.last_known_snapshot = CurrentSnapshot
  BY InvariantCatchesUp
<1>3. s \in Int
  OBVIOUS
<1>4. InIndex(k, s) = IF s < CurrentSnapshot THEN AsOf(r.recorded, s)
                      ELSE IF s = CurrentSnapshot THEN peaks[CurrentSnapshot + 1].heap[k]
                      ELSE heap[k]
  BY <1>2, <1>3, IndexOfRecorded
<1>5. CASE s < CurrentSnapshot
  <2>1. s \in 0..r.last_known_snapshot - 1
    BY <1>1, <1>2, <1>5
  <2> QED BY <1>2, <1>4, <1>5, <2>1 DEF HistoryOK, Recorded
<1>6. CASE s = CurrentSnapshot
  BY <1>1, <1>4, <1>6
<1> QED BY <1>1, <1>5, <1>6

\* The index is the heap at the highest peak of every snapshot, for every
\* location but one that once had other bytes in as many allocations.
THEOREM IndexIsRight == Spec => []IndexIsHeapAtPeak
<1>1. HistoriesInv => IndexIsHeapAtPeak
  BY IndexOfSnapshots DEF IndexIsHeapAtPeak
<1> QED BY <1>1, Invariant, PTL

\* Its numbers of allocations are right for every location.
THEOREM IndexCountsAreRight == Spec => []CountsAreRight
<1>1. HistoriesInv => CountsAreRight
  BY IndexOfSnapshots DEF CountsAreRight
<1> QED BY <1>1, Invariant, PTL

-----------------------------------------------------------------------------
(* The aggregators of a reader share the records and change nothing of     *)
(* each other.                                                             *)

\* Whatever a reader does is, for the aggregator of high water marks, one of
\* its own steps or none.
THEOREM ReaderImplementsHighWaterMark == ReaderSpec => Spec
<1>1. ReaderInit => Init
  BY DEF ReaderInit
<1>2. [ReadNext]_all_vars => [Next]_vars
  <2> SUFFICES ASSUME ReadNext PROVE [Next]_vars
    BY DEF all_vars
  <2>1. ASSUME NEW a \in Addresses, NEW k \in SimpleKeys, NEW n \in Sizes, ReadSimple(a, k, n)
        PROVE  Next
    BY <2>1 DEF ReadSimple, Next
  <2>2. ASSUME NEW a \in Addresses, ReadSimpleFree(a) PROVE Next
    BY <2>2 DEF ReadSimpleFree, Next
  <2>3. ASSUME NEW b \in Pages, NEW e \in Pages, NEW k \in RangedKeys, ReadRanged(b, e, k)
        PROVE  Next
    BY <2>3 DEF ReadRanged, Next
  <2>4. ASSUME NEW b \in Pages, NEW e \in Pages, ReadRangedFree(b, e) PROVE Next
    BY <2>4 DEF ReadRangedFree, Next
  <2>5. ReadUnknownFree => UNCHANGED vars
    BY DEF ReadUnknownFree
  <2>6. ReadRemoved => Next
    BY DEF ReadRemoved, Next
  <2>7. ReadMemoryRecord => Next
    BY DEF ReadMemoryRecord, Next
  <2> QED BY <2>1, <2>2, <2>3, <2>4, <2>5, <2>6, <2>7 DEF ReadNext
<1> QED BY <1>1, <1>2, PTL DEF ReaderSpec, Spec

\* In every capture that is read, by any number of aggregators, the index of
\* peaks is the heap at the highest peak of every snapshot.
THEOREM ReaderIndexIsRight == ReaderSpec => [](HistoriesInv /\ IndexIsHeapAtPeak /\ CountsAreRight)
BY ReaderImplementsHighWaterMark, Invariant, IndexIsRight, IndexCountsAreRight, PTL

-----------------------------------------------------------------------------
(* Intervals and what they add up to. *)

\* Intervals with bytes in them, and finitely many.
Spans(S) ==
    /\ IsFiniteSet(S)
    /\ \A i \in S : i.begin \in Nat /\ i.end \in Nat /\ i.begin < i.end

\* What pieces of intervals leave of the number of intervals: each has been one.
Taken(S) == SumFunction([i \in S |-> 1 - i.remain])

\* A part of some intervals, and the union of two sets of them.
LEMMA SpansPart ==
    ASSUME NEW B, Spans(B), NEW S \in SUBSET B
    PROVE  Spans(S)
BY FS_Subset DEF Spans

\* The union of two finite sets of intervals is one.
LEMMA SpansUnion ==
    ASSUME NEW S, NEW T, Spans(S), Spans(T)
    PROVE  Spans(S \cup T)
BY FS_Union DEF Spans

\* The sizes of parts of a set can be added up with one function.
LEMMA TotalSizeIs ==
    ASSUME NEW B, Spans(B), NEW S \in SUBSET B
    PROVE  LET f == [i \in B |-> Size(i)] IN
           Adds(f, S) /\ TotalSize(S) = SumFunctionOnSet(f, S)
<1> DEFINE f == [i \in B |-> Size(i)]
           g == [i \in S |-> Size(i)]
<1>1. \A i \in B : f[i] \in Int
  BY DEF Spans, Size
<1>2. Adds(f, S)
  <2> HIDE DEF f
  <2> QED BY <1>1, FS_Subset DEF Spans, Adds
<1>3. g = [i \in S |-> g[i]] /\ \A i \in S : g[i] = f[i]
  OBVIOUS
<1>4. TotalSize(S) = SumFunction(g)
  BY DEF TotalSize
<1> HIDE DEF f, g
<1>5. SumFunction(g) = SumFunctionOnSet(f, S)
  BY <1>2, <1>3, SumOfAll
<1> QED BY <1>2, <1>4, <1>5 DEF f

\* A total is natural, and positive if there is an interval.
LEMMA TotalSizeType ==
    ASSUME NEW S, Spans(S)
    PROVE  TotalSize(S) \in Nat /\ (S # {} => TotalSize(S) > 0)
<1> DEFINE f == [i \in S |-> Size(i)]
<1>1. \A i \in S : f[i] \in Nat /\ f[i] > 0
  BY DEF Spans, Size
<1>2. TotalSize(S) = SumFunctionOnSet(f, S)
  BY TotalSizeIs
<1>3. IsFiniteSet(S)
  BY DEF Spans
<1> HIDE DEF f
<1>4. SumFunctionOnSet(f, S) \in Nat /\ \A i \in S : f[i] <= SumFunctionOnSet(f, S)
  BY <1>1, <1>3, SumOfNaturals
<1> QED BY <1>1, <1>2, <1>4

\* No interval, and a single one.
LEMMA TotalSizeOfNone == TotalSize({}) = 0
<1>1. Spans({}) /\ {} \in SUBSET {}
  BY FS_EmptySet DEF Spans
<1>2. TotalSize({}) = SumFunctionOnSet([i \in {} |-> Size(i)], {})
  BY <1>1, TotalSizeIs
<1> QED BY <1>2, SumOfNothing

\* The total size of one interval is its size.
LEMMA TotalSizeOfOne ==
    ASSUME NEW i, Spans({i})
    PROVE  TotalSize({i}) = Size(i)
<1> DEFINE f == [j \in {i} |-> Size(j)]
<1>1. Adds(f, {i}) /\ TotalSize({i}) = SumFunctionOnSet(f, {i})
  BY TotalSizeIs
<1>2. f[i] = Size(i) /\ i \in {i} /\ {i} \ {i} = {}
  OBVIOUS
<1>3. Size(i) \in Int
  BY DEF Spans, Size
<1> HIDE DEF f
<1>4. SumFunctionOnSet(f, {i}) = f[i] + SumFunctionOnSet(f, {i} \ {i})
  BY <1>1, <1>2, SumWithout
<1> QED BY <1>1, <1>2, <1>3, <1>4, SumOfNothing

\* Sets that have nothing in common add up.
LEMMA TotalSizeOfUnion ==
    ASSUME NEW S, NEW T, Spans(S), Spans(T), S \cap T = {}
    PROVE  TotalSize(S \cup T) = TotalSize(S) + TotalSize(T)
<1> DEFINE f == [i \in S \cup T |-> Size(i)]
<1>1. Spans(S \cup T) /\ S \in SUBSET (S \cup T) /\ T \in SUBSET (S \cup T)
      /\ S \cup T \in SUBSET (S \cup T)
  BY SpansUnion
<1>2. /\ Adds(f, S) /\ TotalSize(S) = SumFunctionOnSet(f, S)
      /\ Adds(f, T) /\ TotalSize(T) = SumFunctionOnSet(f, T)
      /\ TotalSize(S \cup T) = SumFunctionOnSet(f, S \cup T)
  BY <1>1, TotalSizeIs
<1> HIDE DEF f
<1> QED BY <1>2, SumOfUnion

\* Removed pieces, with how many pieces remain of each interval.
Remains(S) == IsFiniteSet(S) /\ \A i \in S : i.remain \in 0..2

\* The same of the numbers of pieces.
LEMMA TakenIs ==
    ASSUME NEW B, Remains(B), NEW S \in SUBSET B
    PROVE  LET f == [i \in B |-> 1 - i.remain] IN
           Adds(f, S) /\ Taken(S) = SumFunctionOnSet(f, S)
<1> DEFINE f == [i \in B |-> 1 - i.remain]
           g == [i \in S |-> 1 - i.remain]
<1>1. \A i \in B : f[i] \in Int
  BY DEF Remains
<1>2. Adds(f, S)
  <2> HIDE DEF f
  <2> QED BY <1>1, FS_Subset DEF Remains, Adds
<1>3. g = [i \in S |-> g[i]] /\ \A i \in S : g[i] = f[i]
  OBVIOUS
<1>4. Taken(S) = SumFunction(g)
  BY DEF Taken
<1> HIDE DEF f, g
<1>5. SumFunction(g) = SumFunctionOnSet(f, S)
  BY <1>2, <1>3, SumOfAll
<1> QED BY <1>2, <1>4, <1>5 DEF f

\* How much pieces leave of the number of intervals is an integer.
LEMMA TakenType ==
    ASSUME NEW S, Remains(S)
    PROVE  Taken(S) \in Int
<1> DEFINE f == [i \in S |-> 1 - i.remain]
<1>1. Adds(f, S) /\ Taken(S) = SumFunctionOnSet(f, S)
  BY TakenIs
<1> HIDE DEF f
<1> QED BY <1>1, SumType

\* No piece leaves the number of intervals as it is.
LEMMA TakenOfNone == Taken({}) = 0
<1>1. Remains({}) /\ {} \in SUBSET {}
  BY FS_EmptySet DEF Remains
<1>2. Taken({}) = SumFunctionOnSet([i \in {} |-> 1 - i.remain], {})
  BY <1>1, TakenIs
<1> QED BY <1>2, SumOfNothing

\* One piece takes its interval away, and what remains of it adds to the number.
LEMMA TakenOfOne ==
    ASSUME NEW i, Remains({i})
    PROVE  Taken({i}) = 1 - i.remain
<1> DEFINE f == [j \in {i} |-> 1 - j.remain]
<1>1. Adds(f, {i}) /\ Taken({i}) = SumFunctionOnSet(f, {i})
  BY TakenIs
<1>2. f[i] = 1 - i.remain /\ i \in {i} /\ {i} \ {i} = {}
  OBVIOUS
<1>3. i.remain \in 0..2
  BY DEF Remains
<1> HIDE DEF f
<1>4. SumFunctionOnSet(f, {i}) = f[i] + SumFunctionOnSet(f, {i} \ {i})
  BY <1>1, <1>2, SumWithout
<1> QED BY <1>1, <1>2, <1>3, <1>4, SumOfNothing

\* The union of two sets of removed pieces is one.
LEMMA RemainsUnion ==
    ASSUME NEW S, NEW T, Remains(S), Remains(T)
    PROVE  Remains(S \cup T)
BY FS_Union DEF Remains

\* What pieces leave of the number of intervals adds up over disjoint sets.
LEMMA TakenOfUnion ==
    ASSUME NEW S, NEW T, Remains(S), Remains(T), S \cap T = {}
    PROVE  Taken(S \cup T) = Taken(S) + Taken(T)
<1> DEFINE f == [i \in S \cup T |-> 1 - i.remain]
<1>1. /\ Remains(S \cup T) /\ S \in SUBSET (S \cup T) /\ T \in SUBSET (S \cup T)
      /\ S \cup T \in SUBSET (S \cup T)
  BY RemainsUnion
<1>2. /\ Adds(f, S) /\ Taken(S) = SumFunctionOnSet(f, S)
      /\ Adds(f, T) /\ Taken(T) = SumFunctionOnSet(f, T)
      /\ Taken(S \cup T) = SumFunctionOnSet(f, S \cup T)
  BY <1>1, TakenIs
<1> HIDE DEF f
<1> QED BY <1>2, SumOfUnion

-----------------------------------------------------------------------------
(* What munmap leaves of intervals, and what it takes. *)

\* Of one interval.
Left(i, begin, end) == IF Intersects(i, begin, end) THEN Remainder(i, begin, end) ELSE {i}
Took(i, begin, end) == Removed({i}, begin, end)

\* p is a piece of i.
PieceOf(p, i) ==
    /\ p.begin \in Nat /\ p.end \in Nat
    /\ i.begin <= p.begin /\ p.begin < p.end /\ p.end <= i.end /\ p.value = i.value

\* What munmap takes of one interval is one piece, or none.
LEMMA RemovedOfOne ==
    ASSUME NEW i, NEW begin, NEW end
    PROVE  Took(i, begin, end) =
             IF Intersects(i, begin, end)
             THEN {[begin |-> Max2(i.begin, begin), end |-> Min2(i.end, end), value |-> i.value,
                    remain |-> (IF i.begin < begin THEN 1 ELSE 0)
                                 + (IF end < i.end THEN 1 ELSE 0)]}
             ELSE {}
BY DEF Took, Removed

\* What is left, and what is taken, is part of the interval.
LEMMA Pieces ==
    ASSUME NEW i, Spans({i}), NEW begin \in Nat, NEW end \in Nat, begin < end
    PROVE  /\ \A p \in Left(i, begin, end) : PieceOf(p, i)
           /\ \A p \in Took(i, begin, end) : PieceOf(p, i)
<1>1. i.begin \in Nat /\ i.end \in Nat /\ i.begin < i.end
  BY DEF Spans
<1>2. CASE Intersects(i, begin, end)
  <2>1. \A p \in Left(i, begin, end) : PieceOf(p, i)
    BY <1>1, <1>2 DEF Left, Remainder, Before, After, PieceOf, Intersects, Max2, Min2
  <2>2. \A p \in Took(i, begin, end) : PieceOf(p, i)
    BY <1>1, <1>2, RemovedOfOne DEF PieceOf, Intersects, Max2, Min2
  <2> QED BY <2>1, <2>2
<1>3. CASE ~Intersects(i, begin, end)
  BY <1>1, <1>3, RemovedOfOne DEF Left, PieceOf
<1> QED BY <1>2, <1>3

\* The pieces of an interval are as many bytes as it has been.
LEMMA PiecesAddUp ==
    ASSUME NEW i, Spans({i}), NEW begin \in Nat, NEW end \in Nat, begin < end
    PROVE  /\ Spans(Left(i, begin, end)) /\ Spans(Took(i, begin, end))
           /\ Remains(Took(i, begin, end))
           /\ TotalSize(Left(i, begin, end)) + TotalSize(Took(i, begin, end)) = Size(i)
           /\ Cardinality(Left(i, begin, end)) + Taken(Took(i, begin, end)) = 1
           /\ \A p, q \in Left(i, begin, end) : p # q => ~Intersects(p, q.begin, q.end)
<1>1. i.begin \in Nat /\ i.end \in Nat /\ i.begin < i.end
  BY DEF Spans
<1>2. CASE Intersects(i, begin, end)
  <2> DEFINE x == [begin |-> i.begin, end |-> begin, value |-> i.value]
             y == [begin |-> end, end |-> i.end, value |-> i.value]
             r == [begin |-> Max2(i.begin, begin), end |-> Min2(i.end, end), value |-> i.value,
                   remain |-> (IF i.begin < begin THEN 1 ELSE 0) + (IF end < i.end THEN 1 ELSE 0)]
             L == Left(i, begin, end)
  <2>1. Took(i, begin, end) = {r}
    BY <1>2, RemovedOfOne
  <2>2. L = (IF i.begin < begin THEN {x} ELSE {}) \cup (IF end < i.end THEN {y} ELSE {})
    BY <1>2 DEF Left, Remainder, Before, After
  <2>3. /\ r.begin \in Nat /\ r.end \in Nat /\ r.begin < r.end /\ r.remain \in 0..2
        /\ Size(r) = Min2(i.end, end) - Max2(i.begin, begin)
        /\ r.remain = (IF i.begin < begin THEN 1 ELSE 0) + (IF end < i.end THEN 1 ELSE 0)
    BY <1>1, <1>2 DEF Intersects, Max2, Min2, Size
  <2>4. /\ x.begin = i.begin /\ x.end = begin /\ y.begin = end /\ y.end = i.end
        /\ x # y /\ Size(x) = begin - i.begin /\ Size(y) = i.end - end
    BY <1>1 DEF Size
  <2> HIDE DEF x, y, r, L
  <2>5. Spans({r}) /\ Remains({r})
    BY <2>3, FS_Singleton DEF Spans, Remains
  <2>6. TotalSize({r}) = Size(r) /\ Taken({r}) = 1 - r.remain
    BY <2>5, TotalSizeOfOne, TakenOfOne
  <2>7. i.begin < begin => Spans({x}) /\ TotalSize({x}) = Size(x)
    BY <1>1, <2>4, FS_Singleton, TotalSizeOfOne DEF Spans
  <2>8. end < i.end => Spans({y}) /\ TotalSize({y}) = Size(y)
    BY <1>1, <2>4, FS_Singleton, TotalSizeOfOne DEF Spans
  <2>9. /\ Spans(L)
        /\ TotalSize(L) = (IF i.begin < begin THEN Size(x) ELSE 0)
                            + (IF end < i.end THEN Size(y) ELSE 0)
        /\ Cardinality(L) = r.remain
    <3>0. /\ Cardinality({}) = 0 /\ Cardinality({x}) = 1 /\ Cardinality({y}) = 1
          /\ Spans({}) /\ TotalSize({}) = 0
      BY FS_EmptySet, FS_Singleton, TotalSizeOfNone DEF Spans
    <3>1. CASE i.begin < begin /\ end < i.end
      <4>1. L = {x} \cup {y} /\ {x} \cap {y} = {} /\ x \notin {y} /\ L = {y} \cup {x}
        BY <2>2, <2>4, <3>1
      <4>2. Spans(L) /\ TotalSize(L) = Size(x) + Size(y)
        BY <2>7, <2>8, <3>1, <4>1, SpansUnion, TotalSizeOfUnion
      <4>3. Cardinality(L) = 2
        <5>1. IsFiniteSet({y}) /\ x \notin {y}
          BY <4>1, FS_Singleton
        <5>2. Cardinality({y} \cup {x}) = Cardinality({y}) + 1
          BY <5>1, FS_AddElement
        <5> QED BY <3>0, <4>1, <5>2
      <4> QED BY <2>3, <3>1, <4>2, <4>3
    <3>2. CASE i.begin < begin /\ ~(end < i.end)
      <4>1. L = {x}
        BY <2>2, <3>2
      <4> QED BY <1>1, <2>3, <2>4, <2>7, <3>0, <3>2, <4>1
    <3>3. CASE ~(i.begin < begin) /\ end < i.end
      <4>1. L = {y}
        BY <2>2, <3>3
      <4> QED BY <1>1, <2>3, <2>4, <2>8, <3>0, <3>3, <4>1
    <3>4. CASE ~(i.begin < begin) /\ ~(end < i.end)
      <4>1. L = {}
        BY <2>2, <3>4
      <4> QED BY <2>3, <3>0, <3>4, <4>1
    <3> QED BY <3>1, <3>2, <3>3, <3>4
  <2>10. TotalSize(L) + TotalSize({r}) = Size(i)
    BY <1>1, <1>2, <2>3, <2>4, <2>6, <2>9 DEF Intersects, Max2, Min2, Size
  <2>11. Cardinality(L) + Taken({r}) = 1
    BY <2>3, <2>6, <2>9
  <2>12. \A p, q \in L : p # q => ~Intersects(p, q.begin, q.end)
    <3> SUFFICES ASSUME NEW p \in L, NEW q \in L, p # q PROVE ~Intersects(p, q.begin, q.end)
      OBVIOUS
    <3>1. (p = x /\ q = y) \/ (p = y /\ q = x)
      BY <2>2
    <3>2. i.begin < begin /\ end < i.end
      BY <2>2, <3>1, <2>4
    <3> QED BY <1>1, <2>4, <3>1, <3>2 DEF Intersects, Max2, Min2
  <2> QED BY <2>1, <2>5, <2>9, <2>10, <2>11, <2>12 DEF L
<1>3. CASE ~Intersects(i, begin, end)
  <2>1. Left(i, begin, end) = {i} /\ Took(i, begin, end) = {}
    BY <1>3, RemovedOfOne DEF Left
  <2>2. /\ TotalSize({i}) = Size(i) /\ TotalSize({}) = 0 /\ Taken({}) = 0
        /\ Cardinality({i}) = 1 /\ Spans({}) /\ Remains({}) /\ Size(i) \in Int
    BY <1>1, TotalSizeOfOne, TotalSizeOfNone, TakenOfNone, FS_Singleton, FS_EmptySet
       DEF Spans, Remains, Size
  <2>3. Size(i) + 0 = Size(i) /\ 1 + 0 = 1
    BY <2>2
  <2> QED BY <2>1, <2>2, <2>3
<1> QED BY <1>2, <1>3

\* Intervals that do not overlap.
Apart(S) == \A i, j \in S : i # j => ~Intersects(i, j.begin, j.end)

\* Every p is a piece of one of some intervals.
PiecesOf(P, S) == \A p \in P : \E i \in S : PieceOf(p, i)

\* Pieces of intervals that do not overlap do not overlap, nor are they equal.
LEMMA PiecesApart ==
    ASSUME NEW i, NEW j, Spans({i}), Spans({j}), ~Intersects(i, j.begin, j.end),
           NEW p, PieceOf(p, i), NEW q, PieceOf(q, j)
    PROVE  p # q /\ ~Intersects(p, q.begin, q.end) /\ ~Intersects(q, p.begin, p.end)
<1>1. /\ i.begin \in Nat /\ i.end \in Nat /\ j.begin \in Nat /\ j.end \in Nat
      /\ i.end <= j.begin \/ j.end <= i.begin
  BY DEF Spans, Intersects, Max2, Min2
<1>2. /\ p.begin \in Nat /\ p.end \in Nat /\ i.begin <= p.begin /\ p.begin < p.end /\ p.end <= i.end
      /\ q.begin \in Nat /\ q.end \in Nat /\ j.begin <= q.begin /\ q.begin < q.end /\ q.end <= j.end
  BY DEF PieceOf
<1>3. p.end <= q.begin \/ q.end <= p.begin
  BY <1>1, <1>2
<1>4. p # q
  BY <1>2, <1>3
<1>5. ~Intersects(p, q.begin, q.end) /\ ~Intersects(q, p.begin, p.end)
  BY <1>2, <1>3 DEF Intersects, Max2, Min2
<1> QED BY <1>4, <1>5

\* munmap treats each interval on its own.
LEMMA MunmapOfOneMore ==
    ASSUME NEW S, NEW i, NEW begin, NEW end
    PROVE  /\ RemoveInterval(S \cup {i}, begin, end) = RemoveInterval(S, begin, end) \cup Left(i, begin, end)
           /\ Removed(S \cup {i}, begin, end) = Removed(S, begin, end) \cup Took(i, begin, end)
<1>1. RemoveInterval(S \cup {i}, begin, end) = RemoveInterval(S, begin, end) \cup Left(i, begin, end)
  BY DEF RemoveInterval, Left
<1>2. Removed(S \cup {i}, begin, end) = Removed(S, begin, end) \cup Took(i, begin, end)
  BY DEF Removed, Took
<1> QED BY <1>1, <1>2

\* What munmap leaves of some intervals and what it takes from them are pieces
\* of them, as many bytes as they were; and with what is taken goes the change
\* in their number.
MunmapTells(U, begin, end) ==
    LET left == RemoveInterval(U, begin, end)
        taken == Removed(U, begin, end)
    IN /\ Spans(left) /\ Apart(left) /\ Spans(taken) /\ Remains(taken)
       /\ PiecesOf(left, U) /\ PiecesOf(taken, U)
       /\ TotalSize(left) + TotalSize(taken) = TotalSize(U)
       /\ Cardinality(left) + Taken(taken) = Cardinality(U)

\* An interval more, apart from the others: munmap tells as much of them all.
LEMMA MunmapStep ==
    ASSUME NEW U, NEW i, i \notin U, Spans(U \cup {i}), Apart(U \cup {i}),
           NEW begin \in Nat, NEW end \in Nat, begin < end, MunmapTells(U, begin, end)
    PROVE  MunmapTells(U \cup {i}, begin, end)
<1> DEFINE left == RemoveInterval(U, begin, end)
           taken == Removed(U, begin, end)
           l == Left(i, begin, end)
           t == Took(i, begin, end)
<1>1. /\ Spans(left) /\ Apart(left) /\ Spans(taken) /\ Remains(taken)
      /\ PiecesOf(left, U) /\ PiecesOf(taken, U)
      /\ TotalSize(left) + TotalSize(taken) = TotalSize(U)
      /\ Cardinality(left) + Taken(taken) = Cardinality(U)
  BY DEF MunmapTells
<1>2. Spans({i}) /\ Spans(U) /\ \A j \in U : Spans({j})
  <2>1. {i} \in SUBSET (U \cup {i}) /\ U \in SUBSET (U \cup {i})
        /\ \A j \in U : {j} \in SUBSET (U \cup {i})
    OBVIOUS
  <2> QED BY <2>1, SpansPart
<1>3. /\ Spans(l) /\ Spans(t) /\ Remains(t) /\ TotalSize(l) + TotalSize(t) = Size(i)
      /\ Cardinality(l) + Taken(t) = 1 /\ Apart(l)
  BY <1>2, PiecesAddUp DEF Apart
<1>4. \A p \in l \cup t : PieceOf(p, i)
  BY <1>2, Pieces
<1>5. /\ RemoveInterval(U \cup {i}, begin, end) = left \cup l
      /\ Removed(U \cup {i}, begin, end) = taken \cup t
  BY MunmapOfOneMore
<1>6. \A p \in left \cup taken, q \in l \cup t :
         p # q /\ ~Intersects(p, q.begin, q.end) /\ ~Intersects(q, p.begin, p.end)
  <2> SUFFICES ASSUME NEW p \in left \cup taken, NEW q \in l \cup t
               PROVE p # q /\ ~Intersects(p, q.begin, q.end) /\ ~Intersects(q, p.begin, p.end)
    OBVIOUS
  <2> HIDE DEF left, taken, l, t
  <2>1. PICK j \in U : PieceOf(p, j)
    BY <1>1 DEF PiecesOf
  <2>2. PieceOf(q, i) /\ ~Intersects(j, i.begin, i.end)
    BY <1>4 DEF Apart
  <2> QED BY <1>2, <2>1, <2>2, PiecesApart
<1> HIDE DEF left, taken, l, t
<1>7. Apart(left \cup l)
  BY <1>1, <1>3, <1>6 DEF Apart
<1>8. Spans(left \cup l) /\ Spans(taken \cup t) /\ Remains(taken \cup t)
  BY <1>1, <1>3, SpansUnion, RemainsUnion
<1>9. PiecesOf(left \cup l, U \cup {i}) /\ PiecesOf(taken \cup t, U \cup {i})
  BY <1>1, <1>4 DEF PiecesOf
<1>10. left \cap l = {} /\ taken \cap t = {} /\ U \cap {i} = {}
  BY <1>6
<1>11. /\ TotalSize(left \cup l) = TotalSize(left) + TotalSize(l)
       /\ TotalSize(taken \cup t) = TotalSize(taken) + TotalSize(t)
       /\ TotalSize(U \cup {i}) = TotalSize(U) + Size(i)
       /\ Taken(taken \cup t) = Taken(taken) + Taken(t)
  BY <1>1, <1>2, <1>3, <1>10, TotalSizeOfUnion, TotalSizeOfOne, TakenOfUnion
<1>12. /\ Cardinality(left \cup l) = Cardinality(left) + Cardinality(l)
       /\ Cardinality(U \cup {i}) = Cardinality(U) + 1
  <2>1. IsFiniteSet(left) /\ IsFiniteSet(l) /\ IsFiniteSet(U)
    BY <1>1, <1>2, <1>3 DEF Spans
  <2>2. Cardinality(left \cap l) = 0
    BY <1>10, FS_EmptySet
  <2>3. Cardinality(left \cup l) = Cardinality(left) + Cardinality(l) - Cardinality(left \cap l)
    BY <2>1, FS_Union
  <2>4. Cardinality(left) \in Nat /\ Cardinality(l) \in Nat
    BY <2>1, FS_CardinalityType
  <2>5. Cardinality(U \cup {i}) = Cardinality(U) + 1
    BY <2>1, FS_AddElement
  <2> QED BY <2>2, <2>3, <2>4, <2>5
<1>13. /\ TotalSize(left) \in Nat /\ TotalSize(taken) \in Nat /\ TotalSize(l) \in Nat
       /\ TotalSize(t) \in Nat /\ Taken(taken) \in Int /\ Taken(t) \in Int
       /\ Cardinality(left) \in Nat /\ Cardinality(l) \in Nat
  BY <1>1, <1>3, TotalSizeType, TakenType, FS_CardinalityType DEF Spans
<1>14. TotalSize(left \cup l) + TotalSize(taken \cup t) = TotalSize(U \cup {i})
  BY <1>1, <1>3, <1>11, <1>13
<1>15. Cardinality(left \cup l) + Taken(taken \cup t) = Cardinality(U \cup {i})
  BY <1>1, <1>3, <1>11, <1>12, <1>13
<1> QED BY <1>5, <1>7, <1>8, <1>9, <1>14, <1>15 DEF MunmapTells

\* So it is for all the mappings of a process.
LEMMA Munmap ==
    ASSUME NEW S, Spans(S), Apart(S), NEW begin \in Nat, NEW end \in Nat, begin < end
    PROVE  MunmapTells(S, begin, end)
<1> DEFINE B == {U \in SUBSET S : MunmapTells(U, begin, end)}
<1>1. {} \in B
  <2>1. RemoveInterval({}, begin, end) = {} /\ Removed({}, begin, end) = {}
    BY DEF RemoveInterval, Removed
  <2>2. /\ Spans({}) /\ Remains({}) /\ TotalSize({}) = 0 /\ Taken({}) = 0 /\ Cardinality({}) = 0
        /\ 0 + 0 = 0 /\ Apart({}) /\ PiecesOf({}, {})
    BY FS_EmptySet, TotalSizeOfNone, TakenOfNone DEF Spans, Remains, Apart, PiecesOf
  <2>3. MunmapTells({}, begin, end)
    BY <2>1, <2>2 DEF MunmapTells
  <2> QED BY <2>3
<1>2. ASSUME NEW U \in B, NEW i \in S, i \notin U PROVE U \cup {i} \in B
  <2>1. U \cup {i} \in SUBSET S /\ MunmapTells(U, begin, end)
    OBVIOUS
  <2>2. Spans(U \cup {i}) /\ Apart(U \cup {i})
    BY <2>1, SpansPart DEF Apart
  <2>3. MunmapTells(U \cup {i}, begin, end)
    BY <1>2, <2>1, <2>2, MunmapStep
  <2> QED BY <2>1, <2>3
<1>3. B \in SUBSET (SUBSET S) /\ IsFiniteSet(S) /\ S \in SUBSET S
  BY DEF Spans
<1>4. \A U \in B, i \in S : i \notin U => U \cup {i} \in B
  BY <1>2
<1> HIDE DEF B
<1>5. S \in B
  BY <1>1, <1>3, <1>4, FiniteInduction
<1> QED BY <1>5 DEF B

-----------------------------------------------------------------------------
(* What a process has allocated, by location. *)

\* The intervals of a location.
OfKey(S, k) == {i \in S : i.value = k}

\* The simple allocations of some locations, and their bytes.
SimpleOf(ptr, K) == {a \in Addresses : ptr[a].key \in K}
SimpleBytes(ptr, K) == SumFunction([a \in SimpleOf(ptr, K) |-> ptr[a].size])

\* Finitely many addresses have a simple allocation.
AddressesOK(ptr) ==
    /\ ptr \in [Addresses -> [key : SimpleKeys, size : Sizes] \cup {NoAllocation}]
    /\ IsFiniteSet(SimpleOf(ptr, Keys))

\* An address has a size that counts, and no location has what is not allocated.
LEMMA AddressSizes ==
    ASSUME NEW ptr, AddressesOK(ptr), NEW a \in Addresses
    PROVE  /\ ptr[a].size \in Nat /\ Sizes \subseteq Int
           /\ ptr[a] = NoAllocation => ptr[a].key \notin Keys
           /\ ptr[a] # NoAllocation => ptr[a].key \in SimpleKeys /\ ptr[a].size \in Sizes
                                       /\ ptr[a] = [key |-> ptr[a].key, size |-> ptr[a].size]
<1>1. ptr[a] \in [key : SimpleKeys, size : Sizes] \/ ptr[a] = NoAllocation
  BY DEF AddressesOK
<1>2. Sizes \subseteq Nat
  BY NumbersAssumption
<1>3. NoAllocation.size = 0 /\ NoAllocation.key = "none" /\ "none" \notin Keys
  BY KeysAssumption DEF NoAllocation, Keys
<1>4. ptr[a].size \in Nat
  <2>1. ptr[a] \in [key : SimpleKeys, size : Sizes] => ptr[a].size \in Sizes
    OBVIOUS
  <2>2. ptr[a] = NoAllocation => ptr[a].size = 0
    BY <1>3
  <2>3. ptr[a].size \in Sizes \/ ptr[a].size = 0
    BY <1>1, <2>1, <2>2, Zenon
  <2>4. 0 \in Nat
    OBVIOUS
  <2> QED BY <1>2, <2>3, <2>4, Zenon
<1>5. ptr[a] = NoAllocation => ptr[a].key \notin Keys
  BY <1>3
<1>6. ptr[a] # NoAllocation => ptr[a].key \in SimpleKeys /\ ptr[a].size \in Sizes
                               /\ ptr[a] = [key |-> ptr[a].key, size |-> ptr[a].size]
  BY <1>1
<1> QED BY <1>2, <1>4, <1>5, <1>6

\* The sizes at any set of addresses can be added up.
LEMMA SimpleIs ==
    ASSUME NEW ptr, AddressesOK(ptr), NEW K \in SUBSET Keys
    PROVE  LET f == [a \in Addresses |-> ptr[a].size] IN
           /\ IsFiniteSet(SimpleOf(ptr, K)) /\ Cardinality(SimpleOf(ptr, K)) \in Nat
           /\ Adds(f, SimpleOf(ptr, K)) /\ SimpleBytes(ptr, K) = SumFunctionOnSet(f, SimpleOf(ptr, K))
           /\ SimpleBytes(ptr, K) \in Nat
<1> DEFINE f == [a \in Addresses |-> ptr[a].size]
           S == SimpleOf(ptr, K)
           g == [a \in S |-> ptr[a].size]
<1>1. IsFiniteSet(S)
  <2>1. IsFiniteSet(SimpleOf(ptr, Keys))
    BY DEF AddressesOK
  <2>2. S \subseteq SimpleOf(ptr, Keys)
    BY DEF SimpleOf
  <2> HIDE DEF S
  <2> QED BY <2>1, <2>2, FS_Subset
<1>2. \A a \in S : f[a] \in Nat
  BY AddressSizes DEF SimpleOf
<1>3. g = [a \in S |-> g[a]] /\ \A a \in S : g[a] = f[a]
  BY DEF SimpleOf
<1>4. SimpleBytes(ptr, K) = SumFunction(g)
  BY DEF SimpleBytes
<1> HIDE DEF f, g, S
<1>5. Adds(f, S) /\ SumFunctionOnSet(f, S) \in Nat
  BY <1>1, <1>2, SumOfNaturals
<1>6. SumFunction(g) = SumFunctionOnSet(f, S)
  BY <1>3, <1>5, SumOfAll
<1>7. Cardinality(S) \in Nat
  BY <1>1, FS_CardinalityType
<1> QED BY <1>1, <1>4, <1>5, <1>6, <1>7 DEF f, S

\* ptr2 has x at an address, and is otherwise as ptr.
Sets(ptr2, ptr, a, x) == ptr2 = [ptr EXCEPT ![a] = x]

\* malloc adds to its own location and to no other.
LEMMA SimpleAdded ==
    ASSUME NEW ptr, AddressesOK(ptr), NEW a \in Addresses, ptr[a] = NoAllocation,
           NEW k \in SimpleKeys, NEW n \in Sizes,
           NEW ptr2, Sets(ptr2, ptr, a, [key |-> k, size |-> n])
    PROVE  /\ AddressesOK(ptr2)
           /\ \A K \in SUBSET Keys : k \in K =>
                /\ Cardinality(SimpleOf(ptr2, K)) = Cardinality(SimpleOf(ptr, K)) + 1
                /\ SimpleBytes(ptr2, K) = SimpleBytes(ptr, K) + n
           /\ \A K \in SUBSET Keys : k \notin K =>
                /\ SimpleOf(ptr2, K) = SimpleOf(ptr, K)
                /\ SimpleBytes(ptr2, K) = SimpleBytes(ptr, K)
<1> DEFINE f == [b \in Addresses |-> ptr[b].size]
           f2 == [b \in Addresses |-> ptr2[b].size]
<1>1. ptr2 \in [Addresses -> [key : SimpleKeys, size : Sizes] \cup {NoAllocation}]
  BY DEF AddressesOK, Sets
<1>2. /\ ptr2[a].key = k /\ ptr2[a].size = n /\ \A b \in Addresses : b # a => ptr2[b] = ptr[b]
  BY DEF AddressesOK, Sets
<1>3. ptr[a].key \notin Keys /\ k \in Keys
  BY AddressSizes DEF Keys
<1>4. \A K \in SUBSET Keys : a \notin SimpleOf(ptr, K)
  BY <1>3 DEF SimpleOf
<1>5. \A K \in SUBSET Keys : k \in K => SimpleOf(ptr2, K) = SimpleOf(ptr, K) \cup {a}
  BY <1>2 DEF SimpleOf
<1>6. \A K \in SUBSET Keys : k \notin K => SimpleOf(ptr2, K) = SimpleOf(ptr, K)
  BY <1>2, <1>3 DEF SimpleOf
<1>7. AddressesOK(ptr2)
  <2>1. IsFiniteSet(SimpleOf(ptr, Keys)) /\ Keys \in SUBSET Keys
    BY DEF AddressesOK
  <2>2. IsFiniteSet(SimpleOf(ptr, Keys) \cup {a})
    BY <2>1, FS_AddElement
  <2> QED BY <1>1, <1>3, <1>5, <2>1, <2>2 DEF AddressesOK
<1>8. f[a] \in Nat /\ f2[a] = n /\ n \in Int /\ \A b \in Addresses : b # a => f2[b] = f[b]
  <2>1. ptr[a].size \in Nat /\ n \in Int
    BY AddressSizes
  <2>2. f[a] = ptr[a].size /\ f2[a] = ptr2[a].size
    OBVIOUS
  <2>3. \A b \in Addresses : b # a => f2[b] = f[b]
    BY <1>2
  <2> QED BY <1>2, <2>1, <2>2, <2>3
<1>9. \A K \in SUBSET Keys : SimpleOf(ptr, K) \subseteq Addresses
  BY DEF SimpleOf
<1> HIDE DEF f, f2
<1>10. ASSUME NEW K \in SUBSET Keys
       PROVE  /\ Adds(f, SimpleOf(ptr, K)) /\ SimpleBytes(ptr, K) = SumFunctionOnSet(f, SimpleOf(ptr, K))
              /\ Adds(f2, SimpleOf(ptr2, K)) /\ SimpleBytes(ptr2, K) = SumFunctionOnSet(f2, SimpleOf(ptr2, K))
              /\ SimpleBytes(ptr, K) \in Nat /\ IsFiniteSet(SimpleOf(ptr, K))
              /\ \A b \in SimpleOf(ptr, K) : f2[b] = f[b]
  <2>1. \A b \in SimpleOf(ptr, K) : f2[b] = f[b]
    BY <1>4, <1>8, <1>9
  <2>2. /\ Adds(f, SimpleOf(ptr, K)) /\ SimpleBytes(ptr, K) = SumFunctionOnSet(f, SimpleOf(ptr, K))
        /\ SimpleBytes(ptr, K) \in Nat /\ IsFiniteSet(SimpleOf(ptr, K))
    BY SimpleIs DEF f
  <2>3. Adds(f2, SimpleOf(ptr2, K)) /\ SimpleBytes(ptr2, K) = SumFunctionOnSet(f2, SimpleOf(ptr2, K))
    BY <1>7, SimpleIs DEF f2
  <2> QED BY <2>1, <2>2, <2>3
<1>11. ASSUME NEW K \in SUBSET Keys, k \in K
       PROVE  /\ Cardinality(SimpleOf(ptr2, K)) = Cardinality(SimpleOf(ptr, K)) + 1
              /\ SimpleBytes(ptr2, K) = SimpleBytes(ptr, K) + n
  <2> DEFINE S == SimpleOf(ptr, K)
  <2>1. /\ Adds(f, S) /\ SimpleBytes(ptr, K) = SumFunctionOnSet(f, S) /\ SimpleBytes(ptr, K) \in Nat
        /\ \A b \in S : f2[b] = f[b] /\ IsFiniteSet(S)
        /\ SimpleBytes(ptr2, K) = SumFunctionOnSet(f2, SimpleOf(ptr2, K))
    BY <1>10
  <2>2. a \notin S /\ SimpleOf(ptr2, K) = S \cup {a} /\ f2[a] \in Int /\ IsFiniteSet(S)
    BY <1>4, <1>5, <1>8, <1>10, <1>11
  <2> HIDE DEF S
  <2>3. Cardinality(S \cup {a}) = Cardinality(S) + 1
    BY <2>2, FS_AddElement
  <2>4. SumFunctionOnSet(f2, S) = SumFunctionOnSet(f, S)
    BY <2>1, SumSame
  <2>5. Adds(f2, S)
    BY <2>1 DEF Adds
  <2>6. SumFunctionOnSet(f2, S \cup {a}) = f2[a] + SumFunctionOnSet(f2, S)
    BY <2>2, <2>5, SumWith
  <2>7. SimpleBytes(ptr2, K) = n + SimpleBytes(ptr, K)
    BY <1>8, <2>1, <2>2, <2>4, <2>6
  <2>8. SimpleBytes(ptr2, K) = SimpleBytes(ptr, K) + n
    BY <1>8, <2>1, <2>7
  <2> QED BY <2>2, <2>3, <2>8 DEF S
<1>12. ASSUME NEW K \in SUBSET Keys, k \notin K
       PROVE  /\ SimpleOf(ptr2, K) = SimpleOf(ptr, K)
              /\ SimpleBytes(ptr2, K) = SimpleBytes(ptr, K)
  <2>1. SimpleOf(ptr2, K) = SimpleOf(ptr, K)
    BY <1>6, <1>12
  <2> DEFINE S == SimpleOf(ptr, K)
  <2>2. /\ Adds(f, S) /\ SimpleBytes(ptr, K) = SumFunctionOnSet(f, S)
        /\ SimpleBytes(ptr2, K) = SumFunctionOnSet(f2, S) /\ \A b \in S : f2[b] = f[b]
    BY <1>10, <2>1
  <2> HIDE DEF S
  <2>3. SumFunctionOnSet(f2, S) = SumFunctionOnSet(f, S)
    BY <2>2, SumSame
  <2> QED BY <2>1, <2>2, <2>3
<1> QED BY <1>7, <1>11, <1>12

\* free takes away what malloc has added.
LEMMA SimpleFreed ==
    ASSUME NEW ptr, AddressesOK(ptr), NEW a \in Addresses, ptr[a] # NoAllocation,
           NEW ptr2, Sets(ptr2, ptr, a, NoAllocation)
    PROVE  /\ AddressesOK(ptr2)
           /\ \A K \in SUBSET Keys : ptr[a].key \in K =>
                /\ Cardinality(SimpleOf(ptr, K)) = Cardinality(SimpleOf(ptr2, K)) + 1
                /\ SimpleBytes(ptr, K) = SimpleBytes(ptr2, K) + ptr[a].size
           /\ \A K \in SUBSET Keys : ptr[a].key \notin K =>
                /\ SimpleOf(ptr2, K) = SimpleOf(ptr, K)
                /\ SimpleBytes(ptr2, K) = SimpleBytes(ptr, K)
<1>1. /\ ptr[a].key \in SimpleKeys /\ ptr[a].size \in Sizes
      /\ ptr[a] = [key |-> ptr[a].key, size |-> ptr[a].size]
  BY AddressSizes
<1>2. AddressesOK(ptr2)
  <2>1. ptr2 \in [Addresses -> [key : SimpleKeys, size : Sizes] \cup {NoAllocation}]
    BY DEF AddressesOK, Sets
  <2>2. SimpleOf(ptr2, Keys) \subseteq SimpleOf(ptr, Keys)
    <3>1. NoAllocation.key \notin Keys
      BY KeysAssumption DEF NoAllocation, Keys
    <3> QED BY <3>1 DEF SimpleOf, AddressesOK, Sets
  <2> QED BY <2>1, <2>2, FS_Subset DEF AddressesOK
<1>3. ptr2[a] = NoAllocation
  BY DEF AddressesOK, Sets
<1>4. Sets(ptr, ptr2, a, ptr[a])
  <2>1. ptr = [b \in Addresses |-> ptr[b]] /\ ptr2 = [b \in Addresses |-> ptr2[b]]
    BY <1>2 DEF AddressesOK
  <2> QED BY <2>1 DEF Sets
<1>5. PICK k \in SimpleKeys, n \in Sizes : k = ptr[a].key /\ n = ptr[a].size
  BY <1>1
<1>6. Sets(ptr, ptr2, a, [key |-> k, size |-> n])
  BY <1>1, <1>4, <1>5
<1>7. /\ \A K \in SUBSET Keys : k \in K =>
           /\ Cardinality(SimpleOf(ptr, K)) = Cardinality(SimpleOf(ptr2, K)) + 1
           /\ SimpleBytes(ptr, K) = SimpleBytes(ptr2, K) + n
      /\ \A K \in SUBSET Keys : k \notin K =>
           /\ SimpleOf(ptr, K) = SimpleOf(ptr2, K)
           /\ SimpleBytes(ptr, K) = SimpleBytes(ptr2, K)
  <2> QED BY <1>2, <1>3, <1>6, SimpleAdded
<1> QED BY <1>2, <1>5, <1>7

\* Some mappings, no two of which overlap.
MappingsApart(S) == Spans(S) /\ Apart(S)

\* mmap adds to its own location and to no other.
LEMMA MappingAdded ==
    ASSUME NEW S, Spans(S), NEW i, i \notin S, Spans({i})
    PROVE  /\ Spans(S \cup {i}) /\ TotalSize(S \cup {i}) = TotalSize(S) + Size(i)
           /\ Cardinality(S \cup {i}) = Cardinality(S) + 1
           /\ \A k : k # i.value => OfKey(S \cup {i}, k) = OfKey(S, k)
           /\ LET own == OfKey(S, i.value) IN
              /\ OfKey(S \cup {i}, i.value) = own \cup {i}
              /\ TotalSize(own \cup {i}) = TotalSize(own) + Size(i)
              /\ Cardinality(own \cup {i}) = Cardinality(own) + 1
<1>1. ASSUME NEW T, Spans(T), i \notin T
      PROVE  /\ Spans(T \cup {i}) /\ TotalSize(T \cup {i}) = TotalSize(T) + Size(i)
             /\ Cardinality(T \cup {i}) = Cardinality(T) + 1
  <2>1. T \cap {i} = {} /\ IsFiniteSet(T)
    BY <1>1 DEF Spans
  <2>2. TotalSize(T \cup {i}) = TotalSize(T) + TotalSize({i})
    BY <1>1, <2>1, TotalSizeOfUnion
  <2> QED BY <1>1, <2>1, <2>2, SpansUnion, TotalSizeOfOne, FS_AddElement
<1>2. OfKey(S, i.value) \in SUBSET S /\ i \notin OfKey(S, i.value)
  BY DEF OfKey
<1>3. Spans(OfKey(S, i.value))
  BY <1>2, SpansPart
<1>4. \A k : k # i.value => OfKey(S \cup {i}, k) = OfKey(S, k)
  BY DEF OfKey
<1>5. OfKey(S \cup {i}, i.value) = OfKey(S, i.value) \cup {i}
  BY DEF OfKey
<1> QED BY <1>1, <1>2, <1>3, <1>4, <1>5

\* A piece that is recorded no longer counts, for its own location.
LEMMA PieceRecorded ==
    ASSUME NEW S, Spans(S), Remains(S), NEW i \in S
    PROVE  /\ TotalSize(S) = TotalSize(S \ {i}) + Size(i)
           /\ \A k : k # i.value => OfKey(S \ {i}, k) = OfKey(S, k)
           /\ LET own == OfKey(S \ {i}, i.value) IN
              /\ TotalSize(OfKey(S, i.value)) = TotalSize(own) + Size(i)
              /\ Taken(OfKey(S, i.value)) = Taken(own) + (1 - i.remain)
<1>1. ASSUME NEW T, Spans(T), Remains(T), i \in T
      PROVE  /\ TotalSize(T) = TotalSize(T \ {i}) + Size(i)
             /\ Taken(T) = Taken(T \ {i}) + (1 - i.remain)
  <2>1. (T \ {i}) \cap {i} = {} /\ T = (T \ {i}) \cup {i}
        /\ T \ {i} \in SUBSET T /\ {i} \in SUBSET T
    BY <1>1
  <2>2. Spans(T \ {i}) /\ Spans({i})
    BY <1>1, <2>1, SpansPart
  <2>3. Remains(T \ {i}) /\ Remains({i})
    BY <1>1, <2>1, FS_Subset DEF Remains
  <2>4. TotalSize((T \ {i}) \cup {i}) = TotalSize(T \ {i}) + TotalSize({i})
    BY <2>1, <2>2, TotalSizeOfUnion
  <2>5. Taken((T \ {i}) \cup {i}) = Taken(T \ {i}) + Taken({i})
    BY <2>1, <2>3, TakenOfUnion
  <2>6. TotalSize({i}) = Size(i) /\ Taken({i}) = 1 - i.remain
    BY <2>2, <2>3, TotalSizeOfOne, TakenOfOne
  <2> QED BY <2>1, <2>4, <2>5, <2>6
<1>2. OfKey(S, i.value) \in SUBSET S /\ i \in OfKey(S, i.value)
  BY DEF OfKey
<1>3. Spans(OfKey(S, i.value)) /\ Remains(OfKey(S, i.value))
  BY <1>2, SpansPart, FS_Subset DEF Remains
<1>4. \A k : k # i.value => OfKey(S \ {i}, k) = OfKey(S, k)
  BY DEF OfKey
<1>5. OfKey(S, i.value) \ {i} = OfKey(S \ {i}, i.value)
  BY DEF OfKey
<1> QED BY <1>1, <1>2, <1>3, <1>4, <1>5

\* munmap takes from each location what it takes of its own mappings.
LEMMA MunmapOfKey ==
    ASSUME NEW S, MappingsApart(S), NEW begin \in Nat, NEW end \in Nat, begin < end, NEW k
    PROVE  LET left == OfKey(RemoveInterval(S, begin, end), k)
               taken == OfKey(Removed(S, begin, end), k)
           IN /\ TotalSize(left) + TotalSize(taken) = TotalSize(OfKey(S, k))
              /\ Cardinality(left) + Taken(taken) = Cardinality(OfKey(S, k))
<1>1. \A i \in S : \A p \in Remainder(i, begin, end) : p.value = i.value
  BY DEF Remainder, Before, After
<1>2. OfKey(RemoveInterval(S, begin, end), k) = RemoveInterval(OfKey(S, k), begin, end)
  BY <1>1 DEF RemoveInterval, OfKey
<1>3. OfKey(Removed(S, begin, end), k) = Removed(OfKey(S, k), begin, end)
  BY DEF Removed, OfKey
<1>4. OfKey(S, k) \in SUBSET S
  BY DEF OfKey
<1>5. Spans(OfKey(S, k)) /\ Apart(OfKey(S, k))
  BY <1>4, SpansPart DEF MappingsApart, Apart
<1>6. MunmapTells(OfKey(S, k), begin, end)
  BY <1>5, Munmap
<1> QED BY <1>2, <1>3, <1>6 DEF MunmapTells

\* HighWatermarkFinder's intervals add up to as much, before and after munmap.
LEMMA FinderAddsUp ==
    ASSUME NEW S, MappingsApart(S)
    PROVE  LET M == {Mapping(i) : i \in S} IN
           MappingsApart(M) /\ TotalSize(M) = TotalSize(S)
<1> DEFINE m == [i \in S |-> Mapping(i)]
           M == {m[i] : i \in S}
           f == [i \in S |-> Size(i)]
           e == [i \in M |-> Size(i)]
<1>1. \A i \in S : /\ m[i].begin = i.begin /\ m[i].end = i.end /\ Size(m[i]) = Size(i)
                   /\ i.begin \in Nat /\ i.end \in Nat /\ i.begin < i.end
  BY DEF MappingsApart, Spans, Mapping, Size
<1>2. \A i, j \in S : m[i] = m[j] => i = j
  <2> SUFFICES ASSUME NEW i \in S, NEW j \in S, m[i] = m[j], i # j PROVE FALSE
    OBVIOUS
  <2>1. ~Intersects(i, j.begin, j.end)
    BY DEF MappingsApart, Apart
  <2>2. i.begin = j.begin /\ i.end = j.end
    BY <1>1
  <2> QED BY <1>1, <2>1, <2>2 DEF Intersects, Max2, Min2
<1>3. M = {Mapping(i) : i \in S}
  OBVIOUS
<1>4. IsFiniteSet(S)
  BY DEF MappingsApart, Spans
<1>5. IsFiniteSet(M)
  <2>1. m \in Surjection(S, M)
    BY DEF Surjection
  <2> HIDE DEF m
  <2> QED BY <1>4, <2>1, FS_Surjection
<1>6. \A i \in S : e[m[i]] = f[i] /\ f[i] \in Int
  BY <1>1 DEF Size
<1>7. Spans(M)
  BY <1>1, <1>5 DEF Spans
<1>8. Apart(M)
  <2> SUFFICES ASSUME NEW i \in S, NEW j \in S, m[i] # m[j]
               PROVE  ~Intersects(m[i], m[j].begin, m[j].end)
    BY DEF Apart
  <2>1. ~Intersects(i, j.begin, j.end)
    BY DEF MappingsApart, Apart
  <2> QED BY <1>1, <2>1 DEF Intersects
<1>9. /\ Adds(f, S) /\ TotalSize(S) = SumFunctionOnSet(f, S)
      /\ TotalSize(M) = SumFunctionOnSet(e, M)
  <2>1. Spans(S) /\ S \in SUBSET S /\ M \in SUBSET M
    BY DEF MappingsApart
  <2> HIDE DEF M
  <2> QED BY <1>7, <2>1, TotalSizeIs
<1> HIDE DEF e, f, m
<1>10. SumFunctionOnSet(e, M) = SumFunctionOnSet(f, S)
  BY <1>2, <1>6, <1>9, SumOfImage
<1> QED BY <1>3, <1>7, <1>8, <1>9, <1>10 DEF MappingsApart

\* munmap removes from the high water mark's own tree, which forgets whose the
\* mappings are, the images of what it removes from the aggregator's tree.
LEMMA FinderMunmap ==
    ASSUME NEW S, MappingsApart(S), NEW begin \in Nat, NEW end \in Nat, begin < end
    PROVE  LET M == {Mapping(i) : i \in S} IN
           /\ RemoveInterval(M, begin, end) = {Mapping(i) : i \in RemoveInterval(S, begin, end)}
           /\ TotalSize(Removed(M, begin, end)) = TotalSize(Removed(S, begin, end))
<1> DEFINE M == {Mapping(i) : i \in S}
           left == RemoveInterval(S, begin, end)
<1>1. RemoveInterval(M, begin, end) = {Mapping(i) : i \in left}
  <2>1. ASSUME NEW i \in S
        PROVE  Left(Mapping(i), begin, end) = {Mapping(p) : p \in Left(i, begin, end)}
    <3>1. Mapping(i).begin = i.begin /\ Mapping(i).end = i.end /\ Mapping(i).value = "mapping"
      BY DEF Mapping
    <3>2. Intersects(Mapping(i), begin, end) <=> Intersects(i, begin, end)
      BY <3>1 DEF Intersects
    <3>3. Before(Mapping(i), begin) = {Mapping(p) : p \in Before(i, begin)}
      <4>1. CASE i.begin < begin
        BY <3>1, <4>1 DEF Before, Mapping
      <4>2. CASE ~(i.begin < begin)
        BY <3>1, <4>2 DEF Before
      <4> QED BY <4>1, <4>2
    <3>4. After(Mapping(i), end) = {Mapping(p) : p \in After(i, end)}
      <4>1. CASE end < i.end
        BY <3>1, <4>1 DEF After, Mapping
      <4>2. CASE ~(end < i.end)
        BY <3>1, <4>2 DEF After
      <4> QED BY <4>1, <4>2
    <3> QED BY <3>2, <3>3, <3>4 DEF Left, Remainder
  <2>2. RemoveInterval(M, begin, end) = UNION {Left(j, begin, end) : j \in M}
    BY DEF RemoveInterval, Left
  <2>3. left = UNION {Left(i, begin, end) : i \in S}
    BY DEF RemoveInterval, Left
  <2>4. RemoveInterval(M, begin, end) = UNION {Left(Mapping(i), begin, end) : i \in S}
    BY <2>2
  <2>5. UNION {Left(Mapping(i), begin, end) : i \in S}
          = {Mapping(p) : p \in UNION {Left(i, begin, end) : i \in S}}
    BY <2>1
  <2> QED BY <2>3, <2>4, <2>5
<1>2. MappingsApart(M) /\ TotalSize(M) = TotalSize(S)
  BY FinderAddsUp
<1> HIDE DEF M
<1>3. MunmapTells(S, begin, end) /\ MunmapTells(M, begin, end)
  BY <1>2, Munmap DEF MappingsApart
<1>4. MappingsApart(left)
  BY <1>3 DEF MunmapTells, MappingsApart
<1>5. TotalSize({Mapping(i) : i \in left}) = TotalSize(left)
  BY <1>4, FinderAddsUp
<1>6. /\ TotalSize(left) + TotalSize(Removed(S, begin, end)) = TotalSize(S)
      /\ TotalSize(left) + TotalSize(Removed(M, begin, end)) = TotalSize(S)
  BY <1>1, <1>2, <1>3, <1>5 DEF MunmapTells
<1>7. /\ TotalSize(left) \in Nat /\ TotalSize(Removed(S, begin, end)) \in Nat
      /\ TotalSize(Removed(M, begin, end)) \in Nat
  BY <1>3, TotalSizeType DEF MunmapTells
<1>8. TotalSize(Removed(M, begin, end)) = TotalSize(Removed(S, begin, end))
  <2> DEFINE x == TotalSize(left)
             y == TotalSize(Removed(S, begin, end))
             z == TotalSize(Removed(M, begin, end))
             w == TotalSize(S)
  <2>1. x + y = w /\ x + z = w /\ x \in Nat /\ y \in Nat /\ z \in Nat
    BY <1>6, <1>7
  <2> HIDE DEF x, y, z, w
  <2>2. y = z
    BY <2>1
  <2> QED BY <2>2 DEF y, z
<1> QED BY <1>1, <1>8 DEF M

-----------------------------------------------------------------------------
(* The invariant of a reader, in terms of these sums. *)

\* A contribution is what its location has allocated, and what munmap has
\* taken from it and not recorded yet.
Accounts(c, k, ptr, tree, pieces) ==
    /\ c.bytes = SimpleBytes(ptr, {k}) + TotalSize(OfKey(tree, k)) + TotalSize(OfKey(pieces, k))
    /\ c.allocations = Cardinality(SimpleOf(ptr, {k})) + Cardinality(OfKey(tree, k))
                         + Taken(OfKey(pieces, k))

Shape ==
    /\ AddressesOK(ptr_to_allocation) /\ MappingsApart(mmap_intervals)
    /\ Spans(removed) /\ Remains(removed)

HeapAccounted ==
    /\ \A k \in Keys : Accounts(heap[k], k, ptr_to_allocation, mmap_intervals, removed)
    /\ current_heap_size = HeapSize(heap)

FinderAccounted ==
    /\ current_heap_size = current_memory + TotalSize(removed)
    /\ current_memory = SimpleBytes(ptr_to_allocation, Keys) + TotalSize(mmap_intervals)
    /\ ptr_to_allocation_size =
         [a \in Addresses |-> IF ptr_to_allocation[a] = NoAllocation THEN NoSize
                              ELSE ptr_to_allocation[a].size]
    /\ intervals = {Mapping(i) : i \in mmap_intervals}

Accounted == Shape /\ HeapAccounted /\ FinderAccounted /\ MarkAgrees

\* The addresses with an allocation are those with a location.
LEMMA AllocatedIs ==
    ASSUME NEW ptr \in [Addresses -> [key : SimpleKeys, size : Sizes] \cup {NoAllocation}]
    PROVE  {a \in Addresses : ptr[a] # NoAllocation} = SimpleOf(ptr, Keys)
<1>1. NoAllocation.key \notin Keys
  BY KeysAssumption DEF NoAllocation, Keys
<1>2. \A a \in Addresses : ptr[a] # NoAllocation => ptr[a].key \in Keys
  BY DEF Keys
<1>3. \A a \in Addresses : ptr[a] = NoAllocation => ptr[a].key \notin Keys
  BY <1>1
<1> QED BY <1>2, <1>3 DEF SimpleOf

\* In a typed state, what is checked of the mappings is the shape the proof uses.
LEMMA ShapeIs ==
    ASSUME AllocationsOK
    PROVE  MappingsOK <=> Shape
<1>1. {a \in Addresses : ptr_to_allocation[a] # NoAllocation} = SimpleOf(ptr_to_allocation, Keys)
  BY AllocatedIs DEF AllocationsOK
<1>2. /\ \A i \in mmap_intervals : i.begin \in Nat /\ i.end \in Nat
      /\ \A i \in removed : i.begin \in Nat /\ i.end \in Nat /\ i.remain \in 0..2
  BY DEF AllocationsOK
<1>3. ptr_to_allocation \in [Addresses -> [key : SimpleKeys, size : Sizes] \cup {NoAllocation}]
  BY DEF AllocationsOK
<1> QED BY <1>1, <1>2, <1>3
    DEF MappingsOK, Shape, AddressesOK, MappingsApart, Spans, Apart, Remains

\* Of one location.
LEMMA AccountsIs ==
    ASSUME Shape, NEW c \in Contributions, NEW k \in Keys
    PROVE  /\ (c = Plus(SnapshotAllocations(k), Pending(k)))
                <=> Accounts(c, k, ptr_to_allocation, mmap_intervals, removed)
           /\ SnapshotAllocations(k).bytes \in Nat /\ SnapshotAllocations(k).allocations \in Nat
<1> DEFINE simple == SimpleOf(ptr_to_allocation, {k})
           bytes == SimpleBytes(ptr_to_allocation, {k})
           ranged == OfKey(mmap_intervals, k)
           pieces == OfKey(removed, k)
<1>1. /\ SnapshotAllocations(k).bytes = bytes + TotalSize(ranged)
      /\ SnapshotAllocations(k).allocations = Cardinality(simple) + Cardinality(ranged)
  BY DEF SnapshotAllocations, Contribution, SimpleOf, SimpleBytes, OfKey
<1>2. Pending(k).bytes = TotalSize(pieces) /\ Pending(k).allocations = Taken(pieces)
  BY DEF Pending, Contribution, OfKey, Taken
<1>3. c.bytes \in Int /\ c.allocations \in Int /\ c = [bytes |-> c.bytes, allocations |-> c.allocations]
  BY DEF Contributions
<1>4. bytes \in Nat /\ Cardinality(simple) \in Nat
  BY SimpleIs DEF Shape
<1>5. Spans(ranged) /\ Spans(pieces) /\ Remains(pieces)
  <2>1. ranged \in SUBSET mmap_intervals /\ pieces \in SUBSET removed
    BY DEF OfKey
  <2> HIDE DEF ranged, pieces
  <2> QED BY <2>1, SpansPart, FS_Subset DEF Shape, MappingsApart, Remains
<1>6. TotalSize(ranged) \in Nat /\ TotalSize(pieces) \in Nat /\ Taken(pieces) \in Int
      /\ Cardinality(ranged) \in Nat
  BY <1>5, TotalSizeType, TakenType, FS_CardinalityType DEF Spans
<1>7. Plus(SnapshotAllocations(k), Pending(k))
        = [bytes |-> bytes + TotalSize(ranged) + TotalSize(pieces),
           allocations |-> Cardinality(simple) + Cardinality(ranged) + Taken(pieces)]
  BY <1>1, <1>2, Zenon DEF Plus, Contribution
<1>8. Accounts(c, k, ptr_to_allocation, mmap_intervals, removed)
        <=> /\ c.bytes = bytes + TotalSize(ranged) + TotalSize(pieces)
            /\ c.allocations = Cardinality(simple) + Cardinality(ranged) + Taken(pieces)
  BY DEF Accounts
<1> HIDE DEF simple, bytes, ranged, pieces
<1>9. c = Plus(SnapshotAllocations(k), Pending(k))
        <=> Accounts(c, k, ptr_to_allocation, mmap_intervals, removed)
  BY <1>3, <1>7, <1>8
<1>10. SnapshotAllocations(k).bytes \in Nat /\ SnapshotAllocations(k).allocations \in Nat
  BY <1>1, <1>4, <1>6
<1> QED BY <1>9, <1>10

\* In a typed state, what is checked of the reader is the account the proof uses.
LEMMA AccountedIs ==
    ASSUME AllocationsOK, PeaksOK
    PROVE  ReaderInv <=> Accounted
<1>1. MappingsOK <=> Shape
  BY ShapeIs
<1> SUFFICES ASSUME Shape PROVE ReaderInv <=> Accounted
  BY <1>1 DEF ReaderInv, Accounted
<1>2. \A k \in Keys : heap[k] \in Contributions
  BY DEF PeaksOK
<1>3. \A k \in Keys : heap[k] = Plus(SnapshotAllocations(k), Pending(k))
                        <=> Accounts(heap[k], k, ptr_to_allocation, mmap_intervals, removed)
  BY <1>2, AccountsIs
<1>4. LiveMemory = SimpleBytes(ptr_to_allocation, Keys) + TotalSize(mmap_intervals)
  <2>1. {a \in Addresses : ptr_to_allocation[a] # NoAllocation} = SimpleOf(ptr_to_allocation, Keys)
    BY AllocatedIs DEF AllocationsOK
  <2> QED BY <2>1 DEF LiveMemory, SimpleBytes
<1> QED BY <1>1, <1>3, <1>4
    DEF ReaderInv, HeapsAgree, FinderAgrees, Accounted, HeapAccounted, FinderAccounted

\* What the heap of the whole is when a contribution changes.
LEMMA HeapDelta ==
    ASSUME PeaksOK, current_heap_size = HeapSize(heap), NEW key \in Keys, NEW c \in Int, NEW b \in Int,
           RecordUsageDelta(key, c, b)
    PROVE  /\ current_heap_size' = current_heap_size + b
           /\ current_heap_size' = HeapSize(heap)'
           /\ heap'[key].bytes = heap[key].bytes + b
           /\ heap'[key].allocations = heap[key].allocations + c
           /\ \A k \in Keys : k # key => heap'[k] = heap[k]
<1> DEFINE f == [k \in Keys |-> heap[k].bytes]
           g == [k \in Keys |-> heap'[k].bytes]
<1>1. heap \in [Keys -> Contributions] /\ current_heap_size \in Int
  BY DEF PeaksOK
<1>2. current_heap_size' = current_heap_size + b
  BY DEF RecordUsageDelta
<1>3. heap' = [heap EXCEPT ![key] = Plus(heap[key], Contribution(b, c))]
  BY DEF RecordUsageDelta
<1>4. heap'[key] = Plus(heap[key], Contribution(b, c)) /\ \A k \in Keys : k # key => heap'[k] = heap[k]
  BY <1>1, <1>3
<1>5. heap'[key].bytes = heap[key].bytes + b /\ heap'[key].allocations = heap[key].allocations + c
  BY <1>4 DEF Plus, Contribution
<1>6. \A k \in Keys : heap[k].bytes \in Int /\ heap'[k].bytes \in Int
  BY <1>1, <1>4, <1>5 DEF Contributions
<1>7. IsFiniteSet(Keys)
  BY KeysAssumption, FS_Union DEF Keys
<1>8. /\ \A k \in Keys : f[k] \in Int /\ g[k] \in Int
      /\ f[key] = heap[key].bytes /\ g[key] = heap[key].bytes + b /\ heap[key].bytes \in Int
      /\ \A k \in Keys : k # key => g[k] = f[k]
      /\ f = [k \in Keys |-> f[k]] /\ g = [k \in Keys |-> g[k]]
  BY <1>4, <1>5, <1>6
<1>9. HeapSize(heap) = SumFunction(f) /\ HeapSize(heap)' = SumFunction(g)
  BY DEF HeapSize
<1> HIDE DEF f, g
<1>10. Adds(f, Keys) /\ Adds(g, Keys)
  BY <1>7, <1>8 DEF Adds
<1>11. SumFunction(f) = SumFunctionOnSet(f, Keys) /\ SumFunction(g) = SumFunctionOnSet(g, Keys)
  BY <1>8, <1>10, SumOfAll
<1>12. SumFunctionOnSet(g, Keys) = SumFunctionOnSet(f, Keys) + (g[key] - f[key])
  BY <1>8, <1>10, SumChanged
<1>13. SumFunctionOnSet(f, Keys) \in Int
  BY <1>10, SumType
<1>14. HeapSize(heap)' = HeapSize(heap) + b
  <2> DEFINE x == SumFunctionOnSet(f, Keys)
             y == heap[key].bytes
  <2>1. HeapSize(heap)' = x + ((y + b) - y) /\ HeapSize(heap) = x /\ x \in Int /\ y \in Int
    BY <1>8, <1>9, <1>11, <1>12, <1>13
  <2> HIDE DEF x, y
  <2> QED BY <2>1
<1> QED BY <1>2, <1>4, <1>5, <1>14

-----------------------------------------------------------------------------
(* Steps of a reader. *)

\* The heap is never higher than the last peak, and as high only at it.
LEMMA LastPeak ==
    ASSUME HistoriesInv
    PROVE  LET n == CurrentSnapshot IN
           /\ n \in Nat /\ Len(peaks) = n + 1 /\ \A s \in 1..n + 1 : peaks[s].bytes \in Int
           /\ current_heap_size \in Int /\ current_heap_size <= peaks[n + 1].bytes
           /\ current_heap_size = peaks[n + 1].bytes
                => peaks[n + 1] = [bytes |-> current_heap_size, heap |-> heap]
<1> DEFINE n == CurrentSnapshot
<1>1. PeaksOK /\ HighestOfCurrent
  BY DEF HistoriesInv, TypeOK
<1>2. n \in Nat /\ Len(peaks) = n + 1 /\ current_heap_size \in Int /\ heap_size_at_last_peak \in Int
  BY <1>1 DEF PeaksOK, CurrentSnapshot
<1>4. IF Rising THEN peaks[n + 1] = [bytes |-> current_heap_size, heap |-> heap]
      ELSE peaks[n + 1].bytes = heap_size_at_last_peak
  BY <1>1 DEF HighestOfCurrent
<1> HIDE DEF n
<1>3. /\ \A s \in 1..n + 1 : peaks[s].bytes \in Int
      /\ peaks[n + 1].bytes \in Int
  <2> DEFINE T == [bytes : Int, heap : [Keys -> Contributions]]
  <2>1. peaks \in Seq(T) /\ \A t \in T : t.bytes \in Int
    BY <1>1 DEF PeaksOK
  <2> HIDE DEF T
  <2>2. \A s \in 1..n + 1 : peaks[s] \in T
    BY <1>2, <2>1
  <2>3. n + 1 \in 1..n + 1
    BY <1>2
  <2> QED BY <2>1, <2>2, <2>3
<1>5. CASE Rising
  <2>1. peaks[n + 1] = [bytes |-> current_heap_size, heap |-> heap]
    BY <1>4, <1>5
  <2>2. peaks[n + 1].bytes = current_heap_size
    BY <2>1
  <2> QED BY <1>2, <1>3, <2>1, <2>2 DEF n
<1>6. CASE ~Rising
  <2>1. peaks[n + 1].bytes = heap_size_at_last_peak
    BY <1>4, <1>6
  <2>2. current_heap_size < heap_size_at_last_peak
    BY <1>2, <1>6 DEF Rising
  <2>3. current_heap_size < peaks[n + 1].bytes
    BY <2>1, <2>2
  <2> QED BY <1>2, <1>3, <2>3 DEF n
<1> QED BY <1>5, <1>6

\* After a record that leaves the heap at some height, the finder has found
\* the height of the highest peak again.
LEMMA MarkStep ==
    ASSUME HistoriesInv, MarkAgrees, NEW m \in Nat, UpdatePeak(m), SecondPass,
           UNCHANGED index_by_snapshot,
           peaks' = [peaks EXCEPT ![Len(peaks)] = Highest(peaks[Len(peaks)], m, heap')]
    PROVE  MarkAgrees'
<1> DEFINE n == CurrentSnapshot
           mark == last_high_water_mark
           last == peaks[n + 1]
<1>1. /\ n \in Nat /\ Len(peaks) = n + 1 /\ \A s \in 1..n + 1 : peaks[s].bytes \in Int
      /\ CurrentSnapshot' = n /\ PeaksOK
  BY LastPeak DEF CurrentSnapshot, HistoriesInv, TypeOK
<1>2. /\ \A s \in 0..n : peaks'[s + 1] = IF s = n THEN Highest(last, m, heap') ELSE peaks[s + 1]
  BY <1>1 DEF PeaksOK
<1>3. /\ allocations_seen \in Nat /\ mark \in [index : Nat, peak_memory : Nat]
      /\ mark.index < allocations_seen \/ mark = [index |-> 0, peak_memory |-> 0]
      /\ \A s \in 0..n : peaks[s + 1].bytes <= mark.peak_memory
      /\ \E s \in 0..n : peaks[s + 1].bytes = mark.peak_memory
      /\ n = 0 => at_mark = peaks[1].heap
  BY DEF MarkAgrees
<1>4. /\ allocations_seen' = allocations_seen + 1
      /\ mark' = IF m >= mark.peak_memory THEN [index |-> allocations_seen, peak_memory |-> m] ELSE mark
      /\ at_mark' = IF mark'.index + 1 = allocations_seen' THEN heap' ELSE at_mark
  BY DEF UpdatePeak, SecondPass
<1> SUFFICES /\ allocations_seen' \in Nat /\ mark' \in [index : Nat, peak_memory : Nat]
             /\ mark'.index < allocations_seen' \/ mark' = [index |-> 0, peak_memory |-> 0]
             /\ \A s \in 0..n : peaks'[s + 1].bytes <= mark'.peak_memory
             /\ \E s \in 0..n : peaks'[s + 1].bytes = mark'.peak_memory
             /\ n = 0 => at_mark' = peaks'[1].heap
  BY <1>1 DEF MarkAgrees
<1> HIDE DEF n, mark, last
<1>5. CASE m >= mark.peak_memory
  <2>1. /\ mark' = [index |-> allocations_seen, peak_memory |-> m]
        /\ at_mark' = heap' /\ n \in 0..n
    BY <1>1, <1>3, <1>4, <1>5
  <2>2. last.bytes <= m
    <3>1. last.bytes <= mark.peak_memory /\ last.bytes \in Int
      BY <1>1, <1>3, <2>1 DEF last
    <3> QED BY <1>3, <1>5, <3>1
  <2>3. Highest(last, m, heap') = [bytes |-> m, heap |-> heap']
    BY <2>2 DEF Highest
  <2>4. peaks'[n + 1] = [bytes |-> m, heap |-> heap']
    BY <1>2, <2>1, <2>3
  <2>5. \A s \in 0..n : peaks'[s + 1].bytes <= m
    BY <1>1, <1>2, <1>3, <1>5, <2>4
  <2>6. n = 0 => at_mark' = peaks'[1].heap
    BY <2>1, <2>4
  <2>7. /\ allocations_seen' \in Nat /\ mark' \in [index : Nat, peak_memory : Nat]
        /\ mark'.index < allocations_seen' /\ mark'.peak_memory = m
    BY <1>3, <1>4, <2>1
  <2>8. \E s \in 0..n : peaks'[s + 1].bytes = m
    BY <2>1, <2>4
  <2> QED BY <2>5, <2>6, <2>7, <2>8
<1>6. CASE ~(m >= mark.peak_memory)
  <2>1. mark' = mark /\ mark.peak_memory \in Nat /\ mark.index \in Nat /\ m < mark.peak_memory
    BY <1>3, <1>4, <1>6
  <2>2. mark.index < allocations_seen
    BY <1>3, <2>1
  <2>3. at_mark' = at_mark
    BY <1>3, <1>4, <2>1, <2>2
  <2>4. n \in 0..n /\ last.bytes \in Int /\ last.bytes <= mark.peak_memory
    BY <1>1, <1>3 DEF last
  <2>5. ASSUME NEW s \in 0..n PROVE peaks'[s + 1].bytes <= mark.peak_memory
    <3>1. CASE s = n
      <4>1. Highest(last, m, heap').bytes \in {m, last.bytes}
        BY DEF Highest
      <4>2. peaks'[s + 1] = Highest(last, m, heap')
        BY <1>2, <2>4, <3>1
      <4> QED BY <2>1, <2>4, <4>1, <4>2
    <3>2. CASE s # n
      BY <1>2, <1>3, <3>2
    <3> QED BY <3>1, <3>2
  <2>6. last.bytes = mark.peak_memory => peaks'[n + 1] = last
    BY <1>2, <2>1, <2>4 DEF Highest
  <2>7. PICK s \in 0..n : peaks[s + 1].bytes = mark.peak_memory
    BY <1>3
  <2>8. peaks'[s + 1] = peaks[s + 1]
    <3>1. CASE s = n
      BY <2>6, <2>7, <3>1 DEF last
    <3>2. CASE s # n
      BY <1>2, <3>2
    <3> QED BY <3>1, <3>2
  <2>9. n = 0 => at_mark' = peaks'[1].heap
    <3>1. n = 0 => s = 0 /\ s + 1 = 1
      OBVIOUS
    <3> QED BY <1>3, <2>3, <2>8, <3>1
  <2>10. /\ allocations_seen' \in Nat /\ mark' \in [index : Nat, peak_memory : Nat]
         /\ mark'.index < allocations_seen'
    BY <1>3, <1>4, <2>1, <2>2
  <2> QED BY <2>1, <2>5, <2>7, <2>8, <2>9, <2>10
<1> QED BY <1>5, <1>6

\* Of a record that does not change the heap, or lowers it before the deltas
\* of what munmap takes are recorded, the peaks are as after any record.
LEMMA NoHigher ==
    ASSUME HistoriesInv, NEW m \in Int, m <= current_heap_size
    PROVE  LET last == peaks[Len(peaks)] IN
           peaks = [peaks EXCEPT ![Len(peaks)] = Highest(last, m, heap)]
<1> DEFINE n == CurrentSnapshot
           last == peaks[Len(peaks)]
<1>1. /\ n \in Nat /\ Len(peaks) = n + 1 /\ last.bytes \in Int
      /\ current_heap_size \in Int /\ current_heap_size <= last.bytes
      /\ current_heap_size = last.bytes => last = [bytes |-> current_heap_size, heap |-> heap]
  BY LastPeak
<1>2. peaks \in Seq([bytes : Int, heap : [Keys -> Contributions]])
  BY DEF HistoriesInv, TypeOK, PeaksOK
<1>3. Highest(last, m, heap) = last
  <2>1. CASE m = current_heap_size /\ current_heap_size = last.bytes
    BY <1>1, <2>1 DEF Highest
  <2>2. CASE m < last.bytes
    BY <1>1, <2>2 DEF Highest
  <2> QED BY <1>1, <2>1, <2>2
<1>4. peaks = [peaks EXCEPT ![Len(peaks)] = last]
  BY <1>2
<1> QED BY <1>3, <1>4

\* The numbers that a contribution is made of.
LEMMA AccountsTypes ==
    ASSUME Shape, PeaksOK, NEW k \in Keys
    PROVE  /\ heap[k].bytes \in Int /\ heap[k].allocations \in Int
           /\ SimpleBytes(ptr_to_allocation, {k}) \in Nat
           /\ Cardinality(SimpleOf(ptr_to_allocation, {k})) \in Nat
           /\ Spans(OfKey(mmap_intervals, k)) /\ TotalSize(OfKey(mmap_intervals, k)) \in Nat
           /\ Cardinality(OfKey(mmap_intervals, k)) \in Nat
           /\ TotalSize(OfKey(removed, k)) \in Nat /\ Taken(OfKey(removed, k)) \in Int
<1>1. heap[k].bytes \in Int /\ heap[k].allocations \in Int
  BY DEF PeaksOK, Contributions
<1>2. OfKey(mmap_intervals, k) \in SUBSET mmap_intervals /\ OfKey(removed, k) \in SUBSET removed
  BY DEF OfKey
<1>3. Spans(OfKey(mmap_intervals, k)) /\ Spans(OfKey(removed, k)) /\ Remains(OfKey(removed, k))
  BY <1>2, SpansPart, FS_Subset DEF Shape, MappingsApart, Remains
<1>4. {k} \in SUBSET Keys
  OBVIOUS
<1>5. SimpleBytes(ptr_to_allocation, {k}) \in Nat
      /\ Cardinality(SimpleOf(ptr_to_allocation, {k})) \in Nat
  BY <1>4, SimpleIs DEF Shape
<1> QED BY <1>1, <1>3, <1>5, TotalSizeType, TakenType, FS_CardinalityType DEF Spans

\* All that is live.
LEMMA MemoryTypes ==
    ASSUME Shape
    PROVE  /\ SimpleBytes(ptr_to_allocation, Keys) \in Nat /\ TotalSize(mmap_intervals) \in Nat
           /\ TotalSize(removed) \in Nat /\ (Quiet => TotalSize(removed) = 0)
<1>1. SimpleBytes(ptr_to_allocation, Keys) \in Nat
  <2>1. Keys \in SUBSET Keys
    OBVIOUS
  <2> QED BY <2>1, SimpleIs DEF Shape
<1>2. TotalSize(mmap_intervals) \in Nat /\ TotalSize(removed) \in Nat
  BY TotalSizeType DEF Shape, MappingsApart
<1>3. Quiet => TotalSize(removed) = 0
  BY TotalSizeOfNone DEF Quiet
<1> QED BY <1>1, <1>2, <1>3

\* malloc and the like.
LEMMA ReadSimpleStep ==
    ASSUME HistoriesInv, Accounted, NEW a \in Addresses, NEW k \in SimpleKeys, NEW n \in Sizes,
           ReadSimple(a, k, n)
    PROVE  Accounted'
<1>1. /\ Shape /\ HeapAccounted /\ FinderAccounted /\ MarkAgrees /\ PeaksOK /\ AllocationsOK
      /\ k \in Keys /\ n \in Nat /\ n \in Int /\ 1 \in Int
  BY NumbersAssumption DEF Accounted, HistoriesInv, TypeOK, Keys
<1>2. /\ Quiet /\ ptr_to_allocation[a] = NoAllocation /\ RecordUsageDelta(k, 1, n)
      /\ ptr_to_allocation' = [ptr_to_allocation EXCEPT ![a] = [key |-> k, size |-> n]]
      /\ mmap_intervals' = mmap_intervals /\ removed' = removed
      /\ UpdatePeak(current_memory + n)
      /\ ptr_to_allocation_size' = [ptr_to_allocation_size EXCEPT ![a] = n]
      /\ intervals' = intervals /\ SecondPass
  BY DEF ReadSimple, AddSimple, ProcessSimple
<1>3. /\ current_heap_size' = current_heap_size + n
      /\ current_heap_size' = HeapSize(heap)'
      /\ heap'[k].bytes = heap[k].bytes + n /\ heap'[k].allocations = heap[k].allocations + 1
      /\ \A j \in Keys : j # k => heap'[j] = heap[j]
  BY <1>1, <1>2, HeapDelta DEF HeapAccounted
<1>4. /\ AddressesOK(ptr_to_allocation')
      /\ \A K \in SUBSET Keys : k \in K =>
           /\ Cardinality(SimpleOf(ptr_to_allocation', K)) = Cardinality(SimpleOf(ptr_to_allocation, K)) + 1
           /\ SimpleBytes(ptr_to_allocation', K) = SimpleBytes(ptr_to_allocation, K) + n
      /\ \A K \in SUBSET Keys : k \notin K =>
           /\ SimpleOf(ptr_to_allocation', K) = SimpleOf(ptr_to_allocation, K)
           /\ SimpleBytes(ptr_to_allocation', K) = SimpleBytes(ptr_to_allocation, K)
  <2>1. Sets(ptr_to_allocation', ptr_to_allocation, a, [key |-> k, size |-> n])
    BY <1>2 DEF Sets
  <2>2. AddressesOK(ptr_to_allocation) /\ ptr_to_allocation[a] = NoAllocation
    BY <1>1, <1>2 DEF Shape
  <2> QED BY <2>1, <2>2, SimpleAdded
<1>5. Shape'
  BY <1>1, <1>2, <1>4 DEF Shape
<1>6. HeapAccounted'
  <2>1. ASSUME NEW j \in Keys
        PROVE  Accounts(heap'[j], j, ptr_to_allocation', mmap_intervals, removed)
    <3>1. {j} \in SUBSET Keys
      OBVIOUS
    <3>2. Accounts(heap[j], j, ptr_to_allocation, mmap_intervals, removed)
      BY <1>1 DEF HeapAccounted
    <3>3. CASE j = k
      <4>1. /\ Cardinality(SimpleOf(ptr_to_allocation', {j}))
                 = Cardinality(SimpleOf(ptr_to_allocation, {j})) + 1
            /\ SimpleBytes(ptr_to_allocation', {j}) = SimpleBytes(ptr_to_allocation, {j}) + n
        BY <1>4, <3>1, <3>3
      <4> QED BY <1>1, <1>3, <3>2, <3>3, <4>1, AccountsTypes DEF Accounts
    <3>4. CASE j # k
      <4>1. /\ SimpleOf(ptr_to_allocation', {j}) = SimpleOf(ptr_to_allocation, {j})
            /\ SimpleBytes(ptr_to_allocation', {j}) = SimpleBytes(ptr_to_allocation, {j})
        BY <1>4, <3>1, <3>4
      <4> QED BY <1>3, <3>2, <3>4, <4>1 DEF Accounts
    <3> QED BY <3>3, <3>4
  <2> QED BY <1>2, <1>3, <2>1 DEF HeapAccounted
<1>7. FinderAccounted' /\ current_memory + n \in Nat /\ current_heap_size' = current_memory + n
  <2>1. SimpleBytes(ptr_to_allocation', Keys) = SimpleBytes(ptr_to_allocation, Keys) + n
    <3>1. Keys \in SUBSET Keys
      OBVIOUS
    <3> QED BY <1>1, <1>4, <3>1
  <2>2. current_memory' = current_memory + n
    BY <1>2 DEF UpdatePeak
  <2>3. /\ current_heap_size = current_memory + TotalSize(removed)
        /\ current_memory = SimpleBytes(ptr_to_allocation, Keys) + TotalSize(mmap_intervals)
        /\ SimpleBytes(ptr_to_allocation, Keys) \in Nat /\ TotalSize(mmap_intervals) \in Nat
        /\ TotalSize(removed) = 0
    BY <1>1, <1>2, MemoryTypes DEF FinderAccounted
  <2>4. ptr_to_allocation_size' =
          [b \in Addresses |-> IF ptr_to_allocation'[b] = NoAllocation THEN NoSize
                               ELSE ptr_to_allocation'[b].size]
    <3>1. ptr_to_allocation'[a] # NoAllocation /\ ptr_to_allocation'[a].size = n
      BY <1>1, <1>2, KeysAssumption DEF NoAllocation, AllocationsOK
    <3>2. \A b \in Addresses : b # a => ptr_to_allocation'[b] = ptr_to_allocation[b]
      BY <1>1, <1>2 DEF AllocationsOK
    <3> QED BY <1>1, <1>2, <3>1, <3>2 DEF FinderAccounted
  <2>5. intervals' = {Mapping(i) : i \in mmap_intervals'}
    BY <1>1, <1>2 DEF FinderAccounted
  <2>6. current_memory + n \in Nat /\ current_heap_size' = current_memory + n
    BY <1>1, <1>3, <2>3
  <2>7. /\ current_heap_size' = current_memory' + TotalSize(removed)'
        /\ current_memory' = SimpleBytes(ptr_to_allocation', Keys) + TotalSize(mmap_intervals)'
    BY <1>1, <1>2, <2>1, <2>2, <2>3, <2>6
  <2> QED BY <2>4, <2>5, <2>6, <2>7 DEF FinderAccounted
<1>8. MarkAgrees'
  <2>1. /\ index_by_snapshot' = index_by_snapshot
        /\ peaks' = [peaks EXCEPT ![Len(peaks)] =
                       Highest(peaks[Len(peaks)], current_heap_size', heap')]
    BY <1>2 DEF RecordUsageDelta
  <2> QED BY <1>1, <1>2, <1>7, <2>1, MarkStep
<1> QED BY <1>5, <1>6, <1>7, <1>8 DEF Accounted

\* free.
LEMMA ReadSimpleFreeStep ==
    ASSUME HistoriesInv, Accounted, NEW a \in Addresses, ReadSimpleFree(a)
    PROVE  Accounted'
<1>1. /\ Shape /\ HeapAccounted /\ FinderAccounted /\ MarkAgrees /\ PeaksOK /\ AllocationsOK
      /\ AddressesOK(ptr_to_allocation)
  BY DEF Accounted, HistoriesInv, TypeOK, Shape
<1>2. PICK k, n : k = ptr_to_allocation[a].key /\ n = ptr_to_allocation[a].size
  OBVIOUS
<1>3. /\ Quiet /\ ptr_to_allocation[a] # NoAllocation
      /\ RecordUsageDelta(k, -1, -n)
      /\ ptr_to_allocation' = [ptr_to_allocation EXCEPT ![a] = NoAllocation]
      /\ mmap_intervals' = mmap_intervals /\ removed' = removed
      /\ ptr_to_allocation_size' = [ptr_to_allocation_size EXCEPT ![a] = NoSize]
      /\ UpdatePeak(IF ptr_to_allocation_size[a] = NoSize THEN current_memory
                    ELSE current_memory - ptr_to_allocation_size[a])
      /\ intervals' = intervals /\ SecondPass
  BY <1>2 DEF ReadSimpleFree, FreeSimple, ProcessSimpleFree
<1>4. k \in SimpleKeys /\ k \in Keys /\ n \in Nat /\ -n \in Int /\ -1 \in Int
  <2>1. ptr_to_allocation[a].key \in SimpleKeys /\ ptr_to_allocation[a].size \in Nat
    BY <1>1, <1>3, AddressSizes
  <2> QED BY <1>2, <2>1 DEF Keys
<1>5. ptr_to_allocation_size[a] = n /\ n # NoSize
  BY <1>1, <1>2, <1>3, <1>4 DEF FinderAccounted, NoSize
<1>6. /\ current_heap_size' = current_heap_size + (-n)
      /\ current_heap_size' = HeapSize(heap)'
      /\ heap'[k].bytes = heap[k].bytes + (-n) /\ heap'[k].allocations = heap[k].allocations + (-1)
      /\ \A j \in Keys : j # k => heap'[j] = heap[j]
  <2>1. PeaksOK /\ current_heap_size = HeapSize(heap) /\ k \in Keys
    BY <1>1, <1>4 DEF HeapAccounted
  <2> QED BY <1>3, <1>4, <2>1, HeapDelta
<1>7. /\ AddressesOK(ptr_to_allocation')
      /\ \A K \in SUBSET Keys : k \in K =>
           /\ Cardinality(SimpleOf(ptr_to_allocation, K)) = Cardinality(SimpleOf(ptr_to_allocation', K)) + 1
           /\ SimpleBytes(ptr_to_allocation, K) = SimpleBytes(ptr_to_allocation', K) + n
      /\ \A K \in SUBSET Keys : k \notin K =>
           /\ SimpleOf(ptr_to_allocation', K) = SimpleOf(ptr_to_allocation, K)
           /\ SimpleBytes(ptr_to_allocation', K) = SimpleBytes(ptr_to_allocation, K)
  <2>1. Sets(ptr_to_allocation', ptr_to_allocation, a, NoAllocation)
    BY <1>3 DEF Sets
  <2>2. ptr_to_allocation[a] # NoAllocation
    BY <1>3
  <2>3. /\ AddressesOK(ptr_to_allocation')
        /\ \A K \in SUBSET Keys : ptr_to_allocation[a].key \in K =>
             /\ Cardinality(SimpleOf(ptr_to_allocation, K)) = Cardinality(SimpleOf(ptr_to_allocation', K)) + 1
             /\ SimpleBytes(ptr_to_allocation, K)
                  = SimpleBytes(ptr_to_allocation', K) + ptr_to_allocation[a].size
        /\ \A K \in SUBSET Keys : ptr_to_allocation[a].key \notin K =>
             /\ SimpleOf(ptr_to_allocation', K) = SimpleOf(ptr_to_allocation, K)
             /\ SimpleBytes(ptr_to_allocation', K) = SimpleBytes(ptr_to_allocation, K)
    BY <1>1, <2>1, <2>2, SimpleFreed
  <2> QED BY <1>2, <2>3
<1>8. Shape'
  BY <1>1, <1>3, <1>7 DEF Shape
<1>9. \A K \in SUBSET Keys : /\ SimpleBytes(ptr_to_allocation', K) \in Nat
                             /\ Cardinality(SimpleOf(ptr_to_allocation', K)) \in Nat
  BY <1>7, SimpleIs
<1>10. HeapAccounted'
  <2>1. ASSUME NEW j \in Keys
        PROVE  Accounts(heap'[j], j, ptr_to_allocation', mmap_intervals, removed)
    <3>1. {j} \in SUBSET Keys
      OBVIOUS
    <3>2. Accounts(heap[j], j, ptr_to_allocation, mmap_intervals, removed)
      BY <1>1 DEF HeapAccounted
    <3>3. CASE j = k
      <4>1. /\ Cardinality(SimpleOf(ptr_to_allocation, {j}))
                 = Cardinality(SimpleOf(ptr_to_allocation', {j})) + 1
            /\ SimpleBytes(ptr_to_allocation, {j}) = SimpleBytes(ptr_to_allocation', {j}) + n
            /\ Cardinality(SimpleOf(ptr_to_allocation', {j})) \in Nat
            /\ SimpleBytes(ptr_to_allocation', {j}) \in Nat
        BY <1>7, <1>9, <3>1, <3>3
      <4>2. /\ heap[j].bytes \in Int /\ heap[j].allocations \in Int
            /\ TotalSize(OfKey(mmap_intervals, j)) \in Nat /\ TotalSize(OfKey(removed, j)) \in Nat
            /\ Cardinality(OfKey(mmap_intervals, j)) \in Nat /\ Taken(OfKey(removed, j)) \in Int
        BY <1>1, AccountsTypes
      <4>3. heap'[j].bytes = SimpleBytes(ptr_to_allocation', {j}) + TotalSize(OfKey(mmap_intervals, j))
                               + TotalSize(OfKey(removed, j))
        BY <1>4, <1>6, <3>2, <3>3, <4>1, <4>2 DEF Accounts
      <4>4. heap'[j].allocations =
              Cardinality(SimpleOf(ptr_to_allocation', {j})) + Cardinality(OfKey(mmap_intervals, j))
                + Taken(OfKey(removed, j))
        BY <1>6, <3>2, <3>3, <4>1, <4>2 DEF Accounts
      <4> QED BY <4>3, <4>4 DEF Accounts
    <3>4. CASE j # k
      <4>1. /\ SimpleOf(ptr_to_allocation', {j}) = SimpleOf(ptr_to_allocation, {j})
            /\ SimpleBytes(ptr_to_allocation', {j}) = SimpleBytes(ptr_to_allocation, {j})
        BY <1>7, <3>1, <3>4
      <4> QED BY <1>6, <3>2, <3>4, <4>1 DEF Accounts
    <3> QED BY <3>3, <3>4
  <2> QED BY <1>3, <1>6, <2>1 DEF HeapAccounted
<1>11. /\ FinderAccounted' /\ current_memory - n \in Nat /\ current_heap_size' = current_memory - n
       /\ UpdatePeak(current_memory - n)
  <2>1. /\ SimpleBytes(ptr_to_allocation, Keys) = SimpleBytes(ptr_to_allocation', Keys) + n
        /\ SimpleBytes(ptr_to_allocation', Keys) \in Nat
    <3>1. Keys \in SUBSET Keys
      OBVIOUS
    <3> QED BY <1>4, <1>7, <1>9, <3>1
  <2>2. UpdatePeak(current_memory - n)
    BY <1>3, <1>5
  <2>3. current_memory' = current_memory - n
    BY <2>2 DEF UpdatePeak
  <2>4. /\ current_heap_size = current_memory + TotalSize(removed)
        /\ current_memory = SimpleBytes(ptr_to_allocation, Keys) + TotalSize(mmap_intervals)
        /\ TotalSize(mmap_intervals) \in Nat /\ TotalSize(removed) = 0
    BY <1>1, <1>3, MemoryTypes DEF FinderAccounted
  <2>5. ptr_to_allocation_size' =
          [b \in Addresses |-> IF ptr_to_allocation'[b] = NoAllocation THEN NoSize
                               ELSE ptr_to_allocation'[b].size]
    <3>1. ptr_to_allocation'[a] = NoAllocation
      BY <1>1, <1>3 DEF AllocationsOK
    <3>2. \A b \in Addresses : b # a => ptr_to_allocation'[b] = ptr_to_allocation[b]
      BY <1>1, <1>3 DEF AllocationsOK
    <3> QED BY <1>1, <1>3, <3>1, <3>2 DEF FinderAccounted
  <2>6. intervals' = {Mapping(i) : i \in mmap_intervals'}
    BY <1>1, <1>3 DEF FinderAccounted
  <2>7. current_memory - n \in Nat /\ current_heap_size' = current_memory - n
    BY <1>4, <1>6, <2>1, <2>4
  <2>8. /\ current_heap_size' = current_memory' + TotalSize(removed)'
        /\ current_memory' = SimpleBytes(ptr_to_allocation', Keys) + TotalSize(mmap_intervals)'
    BY <1>3, <1>4, <2>1, <2>3, <2>4, <2>7
  <2> QED BY <2>2, <2>5, <2>6, <2>7, <2>8 DEF FinderAccounted
<1>12. MarkAgrees'
  <2>1. /\ index_by_snapshot' = index_by_snapshot
        /\ peaks' = [peaks EXCEPT ![Len(peaks)] =
                       Highest(peaks[Len(peaks)], current_heap_size', heap')]
    BY <1>3 DEF RecordUsageDelta
  <2> QED BY <1>1, <1>3, <1>11, <2>1, MarkStep
<1> QED BY <1>8, <1>10, <1>11, <1>12 DEF Accounted

\* mmap.
LEMMA ReadRangedStep ==
    ASSUME HistoriesInv, Accounted, NEW b \in Pages, NEW e \in Pages, NEW k \in RangedKeys,
           ReadRanged(b, e, k)
    PROVE  Accounted'
<1> DEFINE i == [begin |-> b, end |-> e, value |-> k]
           n == e - b
<1>1. /\ Shape /\ HeapAccounted /\ FinderAccounted /\ MarkAgrees /\ PeaksOK /\ AllocationsOK
      /\ MappingsApart(mmap_intervals) /\ k \in Keys /\ b \in Nat /\ e \in Nat
  BY NumbersAssumption DEF Accounted, HistoriesInv, TypeOK, Shape, Keys
<1>2. /\ Quiet /\ b < e /\ \A j \in mmap_intervals : ~Intersects(j, b, e)
      /\ RecordUsageDelta(k, 1, n)
      /\ mmap_intervals' = AddInterval(mmap_intervals, b, e, k)
      /\ ptr_to_allocation' = ptr_to_allocation /\ removed' = removed
      /\ ptr_to_allocation_size' = ptr_to_allocation_size
      /\ UpdatePeak(current_memory + n)
      /\ intervals' = AddInterval(intervals, b, e, "mapping") /\ SecondPass
  BY DEF ReadRanged, AddRanged, ProcessRanged
<1>3. /\ mmap_intervals' = mmap_intervals \cup {i} /\ intervals' = intervals \cup {Mapping(i)}
      /\ n \in Nat /\ n \in Int /\ 1 \in Int
      /\ i.begin = b /\ i.end = e /\ i.value = k /\ Size(i) = n
  BY <1>1, <1>2 DEF AddInterval, Mapping, Size
<1> HIDE DEF i, n
<1>4. \A j \in mmap_intervals : j.begin \in Nat /\ j.end \in Nat /\ j.begin < j.end
  BY <1>1 DEF MappingsApart, Spans
<1>5. i \notin mmap_intervals /\ Spans({i})
  <2>1. Intersects(i, b, e)
    BY <1>1, <1>2, <1>3 DEF Intersects, Max2, Min2
  <2>2. Spans({i})
    BY <1>1, <1>2, <1>3, FS_Singleton DEF Spans
  <2> QED BY <1>2, <2>1, <2>2
<1>6. /\ TotalSize(mmap_intervals \cup {i}) = TotalSize(mmap_intervals) + n
      /\ Spans(mmap_intervals \cup {i})
      /\ \A j : j # k => OfKey(mmap_intervals \cup {i}, j) = OfKey(mmap_intervals, j)
      /\ TotalSize(OfKey(mmap_intervals \cup {i}, k)) = TotalSize(OfKey(mmap_intervals, k)) + n
      /\ Cardinality(OfKey(mmap_intervals \cup {i}, k)) = Cardinality(OfKey(mmap_intervals, k)) + 1
  <2>1. Spans(mmap_intervals)
    BY <1>1 DEF MappingsApart
  <2> DEFINE own == OfKey(mmap_intervals, i.value)
  <2>2. /\ TotalSize(mmap_intervals \cup {i}) = TotalSize(mmap_intervals) + Size(i)
        /\ Spans(mmap_intervals \cup {i})
        /\ \A j : j # i.value => OfKey(mmap_intervals \cup {i}, j) = OfKey(mmap_intervals, j)
        /\ OfKey(mmap_intervals \cup {i}, i.value) = own \cup {i}
        /\ TotalSize(own \cup {i}) = TotalSize(own) + Size(i)
        /\ Cardinality(own \cup {i}) = Cardinality(own) + 1
    BY <1>5, <2>1, MappingAdded
  <2> QED BY <1>3, <2>2
<1>7. /\ current_heap_size' = current_heap_size + n
      /\ current_heap_size' = HeapSize(heap)'
      /\ heap'[k].bytes = heap[k].bytes + n /\ heap'[k].allocations = heap[k].allocations + 1
      /\ \A j \in Keys : j # k => heap'[j] = heap[j]
  <2>1. PeaksOK /\ current_heap_size = HeapSize(heap)
    BY <1>1 DEF HeapAccounted
  <2> QED BY <1>1, <1>2, <1>3, <2>1, HeapDelta
<1>8. Shape'
  <2>1. Apart(mmap_intervals \cup {i})
    <3>1. \A j \in mmap_intervals : ~Intersects(j, i.begin, i.end) /\ ~Intersects(i, j.begin, j.end)
      BY <1>1, <1>2, <1>3, <1>4 DEF Intersects, Max2, Min2
    <3> QED BY <1>1, <3>1 DEF MappingsApart, Apart
  <2> QED BY <1>1, <1>2, <1>3, <1>6, <2>1 DEF Shape, MappingsApart
<1>9. HeapAccounted'
  <2>1. ASSUME NEW j \in Keys
        PROVE  Accounts(heap'[j], j, ptr_to_allocation, mmap_intervals \cup {i}, removed)
    <3>1. Accounts(heap[j], j, ptr_to_allocation, mmap_intervals, removed)
      BY <1>1 DEF HeapAccounted
    <3>2. CASE j = k
      BY <1>1, <1>3, <1>6, <1>7, <3>1, <3>2, AccountsTypes DEF Accounts
    <3>3. CASE j # k
      BY <1>6, <1>7, <3>1, <3>3 DEF Accounts
    <3> QED BY <3>2, <3>3
  <2> QED BY <1>2, <1>3, <1>7, <2>1 DEF HeapAccounted
<1>10. FinderAccounted' /\ current_memory + n \in Nat /\ current_heap_size' = current_memory + n
  <2>1. current_memory' = current_memory + n
    BY <1>2 DEF UpdatePeak
  <2>2. /\ current_heap_size = current_memory + TotalSize(removed)
        /\ current_memory = SimpleBytes(ptr_to_allocation, Keys) + TotalSize(mmap_intervals)
        /\ SimpleBytes(ptr_to_allocation, Keys) \in Nat /\ TotalSize(mmap_intervals) \in Nat
        /\ TotalSize(removed) = 0
    BY <1>1, <1>2, MemoryTypes DEF FinderAccounted
  <2>3. intervals' = {Mapping(j) : j \in mmap_intervals \cup {i}}
    BY <1>1, <1>3 DEF FinderAccounted
  <2>4. current_memory + n \in Nat /\ current_heap_size' = current_memory + n
    BY <1>3, <1>7, <2>2
  <2>5. /\ current_heap_size' = current_memory' + TotalSize(removed)
        /\ current_memory' = SimpleBytes(ptr_to_allocation, Keys) + TotalSize(mmap_intervals \cup {i})
    BY <1>3, <1>6, <2>1, <2>2, <2>4
  <2> QED BY <1>1, <1>2, <1>3, <2>3, <2>4, <2>5 DEF FinderAccounted
<1>11. MarkAgrees'
  <2>1. /\ index_by_snapshot' = index_by_snapshot
        /\ peaks' = [peaks EXCEPT ![Len(peaks)] =
                       Highest(peaks[Len(peaks)], current_heap_size', heap')]
    BY <1>2 DEF RecordUsageDelta
  <2> QED BY <1>1, <1>2, <1>10, <2>1, MarkStep
<1> QED BY <1>8, <1>9, <1>10, <1>11 DEF Accounted

\* munmap: the finder takes it all at once, of the peaks none is higher.
LEMMA ReadRangedFreeStep ==
    ASSUME HistoriesInv, Accounted, NEW b \in Pages, NEW e \in Pages, ReadRangedFree(b, e)
    PROVE  Accounted'
<1> DEFINE left == RemoveInterval(mmap_intervals, b, e)
           taken == Removed(mmap_intervals, b, e)
<1>1. /\ Shape /\ HeapAccounted /\ FinderAccounted /\ MarkAgrees /\ PeaksOK /\ AllocationsOK
      /\ MappingsApart(mmap_intervals) /\ b \in Nat /\ e \in Nat
  BY NumbersAssumption DEF Accounted, HistoriesInv, TypeOK, Shape
<1>2. /\ Quiet /\ b < e /\ removed' = taken /\ mmap_intervals' = left
      /\ ptr_to_allocation' = ptr_to_allocation
      /\ current_heap_size' = current_heap_size /\ heap' = heap /\ peaks' = peaks
      /\ index_by_snapshot' = index_by_snapshot
      /\ ptr_to_allocation_size' = ptr_to_allocation_size
      /\ UpdatePeak(current_memory - TotalSize(Removed(intervals, b, e)))
      /\ intervals' = RemoveInterval(intervals, b, e) /\ SecondPass
  BY DEF ReadRangedFree, FreeRanged, ProcessRangedFree, peak_vars, history_vars
<1>3. /\ Spans(left) /\ Apart(left) /\ Spans(taken) /\ Remains(taken)
      /\ TotalSize(left) + TotalSize(taken) = TotalSize(mmap_intervals)
  <2>1. MunmapTells(mmap_intervals, b, e)
    BY <1>1, <1>2, Munmap DEF MappingsApart
  <2> QED BY <2>1 DEF MunmapTells
<1>4. /\ intervals' = {Mapping(i) : i \in left}
      /\ UpdatePeak(current_memory - TotalSize(taken))
  <2>1. intervals = {Mapping(i) : i \in mmap_intervals}
    BY <1>1 DEF FinderAccounted
  <2>2. /\ RemoveInterval(intervals, b, e) = {Mapping(i) : i \in left}
        /\ TotalSize(Removed(intervals, b, e)) = TotalSize(taken)
    BY <1>1, <1>2, <2>1, FinderMunmap
  <2> QED BY <1>2, <2>2
<1>5. ASSUME NEW j \in Keys
      PROVE  /\ TotalSize(OfKey(left, j)) + TotalSize(OfKey(taken, j)) = TotalSize(OfKey(mmap_intervals, j))
             /\ Cardinality(OfKey(left, j)) + Taken(OfKey(taken, j)) = Cardinality(OfKey(mmap_intervals, j))
             /\ TotalSize(OfKey(left, j)) \in Nat /\ TotalSize(OfKey(taken, j)) \in Nat
             /\ Cardinality(OfKey(left, j)) \in Nat /\ Taken(OfKey(taken, j)) \in Int
  <2>1. OfKey(left, j) \in SUBSET left /\ OfKey(taken, j) \in SUBSET taken
    BY DEF OfKey
  <2>2. Spans(OfKey(left, j)) /\ Spans(OfKey(taken, j)) /\ Remains(OfKey(taken, j))
    BY <1>3, <2>1, SpansPart, FS_Subset DEF Remains
  <2>3. /\ TotalSize(OfKey(left, j)) \in Nat /\ TotalSize(OfKey(taken, j)) \in Nat
        /\ Cardinality(OfKey(left, j)) \in Nat /\ Taken(OfKey(taken, j)) \in Int
    BY <2>2, TotalSizeType, TakenType, FS_CardinalityType DEF Spans
  <2>4. /\ TotalSize(OfKey(left, j)) + TotalSize(OfKey(taken, j)) = TotalSize(OfKey(mmap_intervals, j))
        /\ Cardinality(OfKey(left, j)) + Taken(OfKey(taken, j)) = Cardinality(OfKey(mmap_intervals, j))
    BY <1>1, <1>2, MunmapOfKey
  <2> QED BY <2>3, <2>4
<1> HIDE DEF left, taken
<1>6. Shape'
  BY <1>1, <1>2, <1>3 DEF Shape, MappingsApart
<1>7. HeapAccounted'
  <2>1. ASSUME NEW j \in Keys
        PROVE  Accounts(heap[j], j, ptr_to_allocation, left, taken)
    <3>1. Accounts(heap[j], j, ptr_to_allocation, mmap_intervals, {})
      BY <1>1, <1>2 DEF HeapAccounted, Quiet
    <3>2. TotalSize(OfKey({}, j)) = 0 /\ Taken(OfKey({}, j)) = 0
      <4>1. OfKey({}, j) = {}
        BY DEF OfKey
      <4> QED BY <4>1, TotalSizeOfNone, TakenOfNone
    <3> DEFINE x == SimpleBytes(ptr_to_allocation, {j})
               y == Cardinality(SimpleOf(ptr_to_allocation, {j}))
    <3>3. x \in Nat /\ y \in Nat
      BY <1>1, AccountsTypes
    <3>4. heap[j].bytes = x + TotalSize(OfKey(mmap_intervals, j)) + 0
          /\ heap[j].allocations = y + Cardinality(OfKey(mmap_intervals, j)) + 0
      BY <3>1, <3>2 DEF Accounts
    <3> HIDE DEF x, y
    <3>5. heap[j].bytes = x + TotalSize(OfKey(left, j)) + TotalSize(OfKey(taken, j))
      BY <1>5, <3>3, <3>4
    <3>6. heap[j].allocations = y + Cardinality(OfKey(left, j)) + Taken(OfKey(taken, j))
      BY <1>5, <3>3, <3>4
    <3> QED BY <3>5, <3>6 DEF Accounts, x, y
  <2>2. current_heap_size = HeapSize(heap)
    BY <1>1 DEF HeapAccounted
  <2>3. HeapSize(heap)' = HeapSize(heap)
    BY <1>2 DEF HeapSize
  <2> QED BY <1>2, <2>1, <2>2, <2>3 DEF HeapAccounted
<1>8. /\ FinderAccounted' /\ current_memory - TotalSize(taken) \in Nat
      /\ current_memory - TotalSize(taken) <= current_heap_size
  <2>1. current_memory' = current_memory - TotalSize(taken)
    BY <1>4 DEF UpdatePeak
  <2>2. TotalSize(left) \in Nat /\ TotalSize(taken) \in Nat
    BY <1>3, TotalSizeType
  <2>3. /\ current_heap_size = current_memory + TotalSize(removed)
        /\ current_memory = SimpleBytes(ptr_to_allocation, Keys) + TotalSize(mmap_intervals)
        /\ SimpleBytes(ptr_to_allocation, Keys) \in Nat /\ TotalSize(mmap_intervals) \in Nat
        /\ TotalSize(removed) = 0
    BY <1>1, <1>2, MemoryTypes DEF FinderAccounted
  <2>4. /\ current_memory - TotalSize(taken) \in Nat
        /\ current_memory - TotalSize(taken) <= current_heap_size
    BY <1>3, <2>2, <2>3
  <2>5. /\ current_heap_size' = current_memory' + TotalSize(taken)
        /\ current_memory' = SimpleBytes(ptr_to_allocation, Keys) + TotalSize(left)
    BY <1>2, <1>3, <2>1, <2>2, <2>3
  <2> QED BY <1>1, <1>2, <1>4, <2>4, <2>5 DEF FinderAccounted
<1>9. MarkAgrees'
  <2> DEFINE m == current_memory - TotalSize(taken)
  <2>1. m \in Nat /\ m \in Int /\ m <= current_heap_size /\ UpdatePeak(m)
    BY <1>4, <1>8
  <2> HIDE DEF m
  <2>2. peaks = [peaks EXCEPT ![Len(peaks)] = Highest(peaks[Len(peaks)], m, heap)]
    BY <2>1, NoHigher
  <2>3. peaks' = [peaks EXCEPT ![Len(peaks)] = Highest(peaks[Len(peaks)], m, heap')]
    BY <1>2, <2>2
  <2> QED BY <1>1, <1>2, <2>1, <2>3, MarkStep
<1> QED BY <1>6, <1>7, <1>8, <1>9 DEF Accounted

\* free of an address that is not known.
LEMMA ReadUnknownFreeStep ==
    ASSUME HistoriesInv, Accounted, ReadUnknownFree
    PROVE  Accounted'
<1>1. /\ Shape /\ HeapAccounted /\ FinderAccounted /\ MarkAgrees
      /\ UpdatePeak(current_memory) /\ SecondPass /\ Quiet
      /\ UNCHANGED <<ptr_to_allocation, mmap_intervals, removed, heap, current_heap_size, peaks,
                     index_by_snapshot, ptr_to_allocation_size, intervals>>
  BY DEF Accounted, ReadUnknownFree, Processes, vars, peak_vars, history_vars
<1>2. Shape'
  BY <1>1 DEF Shape
<1>3. HeapAccounted'
  BY <1>1 DEF HeapAccounted, HeapSize
<1>4. current_memory' = current_memory
  BY <1>1 DEF UpdatePeak
<1>5. FinderAccounted'
  BY <1>1, <1>4 DEF FinderAccounted
<1>6. current_memory \in Nat /\ current_memory \in Int /\ current_memory <= current_heap_size
  BY <1>1, MemoryTypes DEF FinderAccounted
<1>7. peaks = [peaks EXCEPT ![Len(peaks)] = Highest(peaks[Len(peaks)], current_memory, heap)]
  BY <1>6, NoHigher
<1>8. peaks' = [peaks EXCEPT ![Len(peaks)] = Highest(peaks[Len(peaks)], current_memory, heap')]
  BY <1>1, <1>7
<1>9. MarkAgrees'
  BY <1>1, <1>6, <1>8, MarkStep
<1> QED BY <1>2, <1>3, <1>5, <1>9 DEF Accounted

\* A delta of what munmap took.
LEMMA ReadRemovedStep ==
    ASSUME HistoriesInv, Accounted, ReadRemoved
    PROVE  Accounted'
<1>1. /\ Shape /\ HeapAccounted /\ FinderAccounted /\ MarkAgrees /\ PeaksOK /\ AllocationsOK
  BY DEF Accounted, HistoriesInv, TypeOK
<1>2. PICK i \in removed : /\ RecordUsageDelta(i.value, i.remain - 1, -Size(i))
                           /\ removed' = removed \ {i}
                           /\ UNCHANGED <<ptr_to_allocation, mmap_intervals>>
  BY DEF ReadRemoved, RecordRemoved
<1>3. UNCHANGED <<finder_vars, at_mark>>
  BY DEF ReadRemoved
<1>4. PICK k, c, n : k = i.value /\ c = i.remain - 1 /\ n = Size(i)
  OBVIOUS
<1>5. k \in Keys /\ c \in Int /\ i.remain \in 0..2 /\ n \in Nat /\ n > 0 /\ -n \in Int
  <2>1. i.begin \in Nat /\ i.end \in Nat /\ i.begin < i.end /\ i.remain \in 0..2
    BY <1>1 DEF Shape, Spans, Remains
  <2>2. i.value \in RangedKeys
    BY <1>1 DEF AllocationsOK
  <2> QED BY <1>4, <2>1, <2>2 DEF Keys, Size
<1>6. /\ current_heap_size' = current_heap_size + (-n)
      /\ current_heap_size' = HeapSize(heap)'
      /\ heap'[k].bytes = heap[k].bytes + (-n) /\ heap'[k].allocations = heap[k].allocations + c
      /\ \A j \in Keys : j # k => heap'[j] = heap[j]
  <2>1. RecordUsageDelta(k, c, -n) /\ current_heap_size = HeapSize(heap)
    BY <1>1, <1>2, <1>4 DEF HeapAccounted
  <2> QED BY <1>1, <1>5, <2>1, HeapDelta
<1>7. /\ TotalSize(removed) = TotalSize(removed \ {i}) + n
      /\ \A j : j # k => OfKey(removed \ {i}, j) = OfKey(removed, j)
      /\ TotalSize(OfKey(removed, k)) = TotalSize(OfKey(removed \ {i}, k)) + n
      /\ Taken(OfKey(removed, k)) = Taken(OfKey(removed \ {i}, k)) + (1 - i.remain)
  <2>1. Spans(removed) /\ Remains(removed)
    BY <1>1 DEF Shape
  <2> DEFINE own == OfKey(removed \ {i}, i.value)
  <2>2. /\ TotalSize(removed) = TotalSize(removed \ {i}) + Size(i)
        /\ \A j : j # i.value => OfKey(removed \ {i}, j) = OfKey(removed, j)
        /\ TotalSize(OfKey(removed, i.value)) = TotalSize(own) + Size(i)
        /\ Taken(OfKey(removed, i.value)) = Taken(own) + (1 - i.remain)
    BY <2>1, PieceRecorded
  <2> QED BY <1>4, <2>2
<1>8. Spans(removed \ {i}) /\ Remains(removed \ {i})
  <2>1. removed \ {i} \in SUBSET removed
    OBVIOUS
  <2> QED BY <1>1, <2>1, SpansPart, FS_Subset DEF Shape, Remains
<1>9. Shape'
  BY <1>1, <1>2, <1>8 DEF Shape
<1>10. HeapAccounted'
  <2>1. ASSUME NEW j \in Keys
        PROVE  Accounts(heap'[j], j, ptr_to_allocation, mmap_intervals, removed \ {i})
    <3>1. Accounts(heap[j], j, ptr_to_allocation, mmap_intervals, removed)
      BY <1>1 DEF HeapAccounted
    <3>2. CASE j = k
      <4> DEFINE x == SimpleBytes(ptr_to_allocation, {j})
                 y == Cardinality(SimpleOf(ptr_to_allocation, {j}))
                 u == TotalSize(OfKey(mmap_intervals, j))
                 v == Cardinality(OfKey(mmap_intervals, j))
                 w == TotalSize(OfKey(removed \ {i}, j))
                 z == Taken(OfKey(removed \ {i}, j))
      <4>1. x \in Nat /\ y \in Nat /\ u \in Nat /\ v \in Nat
            /\ heap[j].bytes \in Int /\ heap[j].allocations \in Int
        BY <1>1, AccountsTypes
      <4>2. w \in Nat /\ z \in Int
        <5>1. OfKey(removed \ {i}, j) \in SUBSET (removed \ {i})
          BY DEF OfKey
        <5>2. Spans(OfKey(removed \ {i}, j)) /\ Remains(OfKey(removed \ {i}, j))
          BY <1>8, <5>1, SpansPart, FS_Subset DEF Remains
        <5> QED BY <5>2, TotalSizeType, TakenType
      <4>3. heap[j].bytes = x + u + (w + n) /\ heap[j].allocations = y + v + (z + (1 - i.remain))
        BY <1>7, <3>1, <3>2 DEF Accounts
      <4>4. heap'[j].bytes = heap[j].bytes + (-n) /\ heap'[j].allocations = heap[j].allocations + c
        BY <1>6, <3>2
      <4> HIDE DEF x, y, u, v, w, z
      <4>5. heap'[j].bytes = x + u + w
        BY <1>5, <4>1, <4>2, <4>3, <4>4
      <4>6. heap'[j].allocations = y + v + z
        BY <1>4, <1>5, <4>1, <4>2, <4>3, <4>4
      <4> QED BY <4>5, <4>6 DEF Accounts, x, y, u, v, w, z
    <3>3. CASE j # k
      BY <1>6, <1>7, <3>1, <3>3 DEF Accounts
    <3> QED BY <3>2, <3>3
  <2> QED BY <1>2, <1>6, <2>1 DEF HeapAccounted
<1>11. FinderAccounted'
  <2>1. TotalSize(removed \ {i}) \in Nat
    BY <1>8, TotalSizeType
  <2>2. /\ current_heap_size = current_memory + TotalSize(removed)
        /\ current_memory = SimpleBytes(ptr_to_allocation, Keys) + TotalSize(mmap_intervals)
        /\ SimpleBytes(ptr_to_allocation, Keys) \in Nat /\ TotalSize(mmap_intervals) \in Nat
    BY <1>1, MemoryTypes DEF FinderAccounted
  <2>3. current_heap_size' = current_memory + TotalSize(removed \ {i})
    BY <1>5, <1>6, <1>7, <2>1, <2>2
  <2> QED BY <1>1, <1>2, <1>3, <2>2, <2>3 DEF FinderAccounted, finder_vars
<1>12. MarkAgrees'
  <2> DEFINE m == current_heap_size + (-n)
  <2>1. m \in Int /\ m <= current_heap_size
    <3>1. current_heap_size \in Int
      BY <1>1 DEF PeaksOK
    <3> QED BY <1>5, <3>1
  <2> HIDE DEF m
  <2>2. /\ peaks' = [peaks EXCEPT ![Len(peaks)] = Highest(peaks[Len(peaks)], m, heap')]
        /\ index_by_snapshot' = index_by_snapshot
    BY <1>2, <1>4 DEF RecordUsageDelta, m
  <2>3. peaks' = peaks
    <3>1. LET last == peaks[Len(peaks)] IN m < last.bytes /\ last.bytes \in Int
      BY <1>5, LastPeak DEF m
    <3>2. Highest(peaks[Len(peaks)], m, heap') = peaks[Len(peaks)]
      BY <2>1, <3>1 DEF Highest
    <3>3. peaks \in Seq([bytes : Int, heap : [Keys -> Contributions]])
      BY <1>1 DEF PeaksOK
    <3> QED BY <2>2, <3>2, <3>3
  <2> QED BY <1>1, <1>3, <2>2, <2>3 DEF MarkAgrees, CurrentSnapshot, finder_vars
<1> QED BY <1>9, <1>10, <1>11, <1>12 DEF Accounted

\* A memory record.
LEMMA ReadMemoryRecordStep ==
    ASSUME HistoriesInv, Accounted, ReadMemoryRecord
    PROVE  Accounted'
<1> DEFINE n == CurrentSnapshot
           now == [bytes |-> current_heap_size, heap |-> heap]
<1>1. /\ Shape /\ HeapAccounted /\ FinderAccounted /\ MarkAgrees /\ PeaksOK
  BY DEF Accounted, HistoriesInv, TypeOK
<1>2. /\ UNCHANGED <<ptr_to_allocation, mmap_intervals, current_heap_size, removed, heap>>
      /\ UNCHANGED <<last_high_water_mark, current_memory, allocations_seen,
                     ptr_to_allocation_size, intervals, at_mark>>
      /\ peaks' = Append(peaks, now)
      /\ \E x : index_by_snapshot' = Append(index_by_snapshot, x)
  BY DEF ReadMemoryRecord, CaptureSnapshot, finder_vars
<1>3. Shape' /\ FinderAccounted'
  BY <1>1, <1>2 DEF Shape, FinderAccounted
<1>4. HeapAccounted'
  BY <1>1, <1>2 DEF HeapAccounted, HeapSize
<1>5. /\ n \in Nat /\ Len(peaks) = n + 1 /\ \A s \in 1..n + 1 : peaks[s].bytes \in Int
      /\ current_heap_size \in Int /\ current_heap_size <= peaks[n + 1].bytes
  BY LastPeak
<1>6. CurrentSnapshot' = n + 1
  BY <1>1, <1>2 DEF CurrentSnapshot, PeaksOK
<1> HIDE DEF n
<1>7. /\ peaks'[n + 2] = now /\ \A s \in 0..n : peaks'[s + 1] = peaks[s + 1]
  BY <1>1, <1>2, <1>5 DEF PeaksOK
<1>8. /\ allocations_seen \in Nat /\ last_high_water_mark \in [index : Nat, peak_memory : Nat]
      /\ \/ last_high_water_mark.index < allocations_seen
         \/ last_high_water_mark = [index |-> 0, peak_memory |-> 0]
      /\ \A s \in 0..n : peaks[s + 1].bytes <= last_high_water_mark.peak_memory
      /\ \E s \in 0..n : peaks[s + 1].bytes = last_high_water_mark.peak_memory
  BY <1>1 DEF MarkAgrees, n
<1>9. \A s \in 0..n + 1 : peaks'[s + 1].bytes <= last_high_water_mark.peak_memory
  <2>1. current_heap_size <= last_high_water_mark.peak_memory
    <3>1. n \in 0..n /\ n + 1 \in 1..n + 1
      BY <1>5
    <3>2. peaks[n + 1].bytes <= last_high_water_mark.peak_memory /\ peaks[n + 1].bytes \in Int
      BY <1>5, <1>8, <3>1
    <3> QED BY <1>5, <1>8, <3>2
  <2>2. \A s \in 0..n + 1 : s \in 0..n \/ s + 1 = n + 2
    BY <1>5
  <2>3. peaks'[n + 2].bytes = current_heap_size
    BY <1>7
  <2> QED BY <1>7, <1>8, <2>1, <2>2, <2>3
<1>10. \E s \in 0..n + 1 : peaks'[s + 1].bytes = last_high_water_mark.peak_memory
  BY <1>5, <1>7, <1>8
<1>11. MarkAgrees'
  BY <1>2, <1>5, <1>6, <1>8, <1>9, <1>10 DEF MarkAgrees
<1> QED BY <1>3, <1>4, <1>11 DEF Accounted

\* At first there is nothing to account for.
LEMMA InitAccounted ==
    ASSUME ReaderInit
    PROVE  Accounted
<1>1. /\ ptr_to_allocation = [a \in Addresses |-> NoAllocation]
      /\ mmap_intervals = {} /\ removed = {} /\ index_by_snapshot = <<>> /\ current_heap_size = 0
      /\ heap = [k \in Keys |-> None]
      /\ peaks = <<[bytes |-> 0, heap |-> [k \in Keys |-> None]]>>
      /\ last_high_water_mark = [index |-> 0, peak_memory |-> 0]
      /\ current_memory = 0 /\ allocations_seen = 0
      /\ ptr_to_allocation_size = [a \in Addresses |-> NoSize] /\ intervals = {}
      /\ at_mark = [k \in Keys |-> None]
  BY DEF ReaderInit, Init, FinderInit
<1>2. NoAllocation.key \notin Keys
  BY KeysAssumption DEF NoAllocation, Keys
<1>3. ASSUME NEW K \in SUBSET Keys
      PROVE  /\ SimpleOf(ptr_to_allocation, K) = {} /\ SimpleBytes(ptr_to_allocation, K) = 0
  <2>1. SimpleOf(ptr_to_allocation, K) = {}
    BY <1>1, <1>2 DEF SimpleOf
  <2> DEFINE f == [a \in {} |-> ptr_to_allocation[a].size]
  <2>2. SimpleBytes(ptr_to_allocation, K) = SumFunction(f)
    BY <2>1 DEF SimpleBytes
  <2>3. DOMAIN f = {}
    OBVIOUS
  <2> HIDE DEF f
  <2>4. SumFunction(f) = 0
    BY <2>3, SumOfNothing DEF SumFunction
  <2> QED BY <2>1, <2>2, <2>4
<1>4. /\ IsFiniteSet({}) /\ Cardinality({}) = 0 /\ Spans({}) /\ Apart({}) /\ Remains({})
      /\ TotalSize({}) = 0 /\ Taken({}) = 0 /\ \A k : OfKey({}, k) = {}
  BY FS_EmptySet, TotalSizeOfNone, TakenOfNone DEF Spans, Apart, Remains, OfKey
<1>5. Keys \in SUBSET Keys /\ \A k \in Keys : {k} \in SUBSET Keys
  OBVIOUS
<1>6. Shape
  <2>1. ptr_to_allocation \in [Addresses -> [key : SimpleKeys, size : Sizes] \cup {NoAllocation}]
    BY <1>1
  <2>2. IsFiniteSet(SimpleOf(ptr_to_allocation, Keys))
    BY <1>3, <1>4, <1>5
  <2> QED BY <1>1, <1>4, <2>1, <2>2 DEF Shape, AddressesOK, MappingsApart
<1>7. HeapAccounted
  <2>1. ASSUME NEW k \in Keys PROVE Accounts(heap[k], k, ptr_to_allocation, mmap_intervals, removed)
    <3>1. heap[k].bytes = 0 /\ heap[k].allocations = 0
      BY <1>1 DEF None, Contribution
    <3>2. SimpleOf(ptr_to_allocation, {k}) = {} /\ SimpleBytes(ptr_to_allocation, {k}) = 0
      BY <1>3, <1>5
    <3>3. 0 = 0 + 0 + 0
      OBVIOUS
    <3> QED BY <1>1, <1>4, <3>1, <3>2, <3>3 DEF Accounts
  <2>2. HeapSize(heap) = 0
    <3> DEFINE f == [k \in Keys |-> heap[k].bytes]
               g == [k \in {} |-> 0]
    <3>1. \A k \in Keys : f[k] = 0
      BY <1>1 DEF None, Contribution
    <3>2. f = [k \in Keys |-> f[k]] /\ HeapSize(heap) = SumFunction(f)
      BY DEF HeapSize
    <3> HIDE DEF f
    <3>3. IsFiniteSet(Keys)
      BY KeysAssumption, FS_Union DEF Keys
    <3>4. Adds(f, Keys)
      BY <3>1, <3>3 DEF Adds
    <3>5. SumFunction(f) = SumFunctionOnSet(f, Keys)
      BY <3>2, <3>4, SumOfAll
    <3>6. SumFunctionOnSet(f, Keys) = 0
      BY <3>1, <3>3, SumOfZeros
    <3> QED BY <3>2, <3>5, <3>6
  <2> QED BY <1>1, <2>1, <2>2 DEF HeapAccounted
<1>8. FinderAccounted
  <2>1. SimpleBytes(ptr_to_allocation, Keys) = 0
    BY <1>3, <1>5
  <2>2. ptr_to_allocation_size =
          [a \in Addresses |-> IF ptr_to_allocation[a] = NoAllocation THEN NoSize
                               ELSE ptr_to_allocation[a].size]
    BY <1>1
  <2>3. 0 = 0 + 0
    OBVIOUS
  <2> QED BY <1>1, <1>4, <2>1, <2>2, <2>3 DEF FinderAccounted
<1>9. MarkAgrees
  <2>1. CurrentSnapshot = 0 /\ \A s \in 0..CurrentSnapshot : s + 1 = 1
    BY <1>1 DEF CurrentSnapshot
  <2>2. peaks[1].bytes = 0 /\ peaks[1].heap = at_mark
    BY <1>1
  <2>3. 0 \in 0..CurrentSnapshot /\ 0 <= 0
    BY <2>1
  <2>4. last_high_water_mark.peak_memory = 0 /\ last_high_water_mark \in [index : Nat, peak_memory : Nat]
    BY <1>1
  <2> QED BY <1>1, <2>1, <2>2, <2>3, <2>4 DEF MarkAgrees
<1> QED BY <1>6, <1>7, <1>8, <1>9 DEF Accounted

\* What the aggregators of a reader know of the heap, of one another and of
\* the highest heap fits together after every record, and after every delta of
\* what munmap took.
THEOREM ReaderInvariant == ReaderSpec => [](HistoriesInv /\ ReaderInv)
<1>1. HistoriesInv /\ ReaderInv => Accounted
  BY AccountedIs DEF HistoriesInv, TypeOK
<1>2. HistoriesInv' /\ Accounted' => ReaderInv'
  <2>1. HistoriesInv /\ Accounted => ReaderInv
    BY AccountedIs DEF HistoriesInv, TypeOK
  <2> QED BY <2>1, PTL
<1>3. ReaderInit => HistoriesInv /\ ReaderInv
  <2> SUFFICES ASSUME ReaderInit PROVE HistoriesInv /\ ReaderInv
    OBVIOUS
  <2>1. HistoriesInv
    BY InitInvariant DEF ReaderInit
  <2> QED BY <2>1, InitAccounted, AccountedIs DEF HistoriesInv, TypeOK
<1>4. HistoriesInv /\ HistoriesInv' /\ ReaderInv /\ [ReadNext]_all_vars => ReaderInv'
  <2> SUFFICES ASSUME HistoriesInv, HistoriesInv', ReaderInv, [ReadNext]_all_vars PROVE Accounted'
    BY <1>2
  <2>1. Accounted
    BY <1>1
  <2>2. ASSUME NEW a \in Addresses, NEW k \in SimpleKeys, NEW n \in Sizes, ReadSimple(a, k, n)
        PROVE  Accounted'
    BY <2>1, <2>2, ReadSimpleStep
  <2>3. ASSUME NEW a \in Addresses, ReadSimpleFree(a) PROVE Accounted'
    BY <2>1, <2>3, ReadSimpleFreeStep
  <2>4. ASSUME NEW b \in Pages, NEW e \in Pages, NEW k \in RangedKeys, ReadRanged(b, e, k)
        PROVE  Accounted'
    BY <2>1, <2>4, ReadRangedStep
  <2>5. ASSUME NEW b \in Pages, NEW e \in Pages, ReadRangedFree(b, e) PROVE Accounted'
    BY <2>1, <2>5, ReadRangedFreeStep
  <2>6. ASSUME ReadUnknownFree PROVE Accounted'
    BY <2>1, <2>6, ReadUnknownFreeStep
  <2>7. ASSUME ReadRemoved PROVE Accounted'
    BY <2>1, <2>7, ReadRemovedStep
  <2>8. ASSUME ReadMemoryRecord PROVE Accounted'
    BY <2>1, <2>8, ReadMemoryRecordStep
  <2>9. ASSUME UNCHANGED all_vars PROVE Accounted'
    BY <2>1, <2>9
       DEF Accounted, Shape, HeapAccounted, HeapSize, FinderAccounted, MarkAgrees, CurrentSnapshot,
           all_vars, vars, peak_vars, history_vars, finder_vars
  <2> QED BY <2>2, <2>3, <2>4, <2>5, <2>6, <2>7, <2>8, <2>9 DEF ReadNext
<1> QED BY <1>3, <1>4, ReaderImplementsHighWaterMark, Invariant, PTL DEF ReaderSpec

\* The deltas add up, for every location and for the heap as a whole, whatever
\* munmap cuts up and in whatever order.
THEOREM DeltasAreRight == ReaderSpec => []DeltasAddUp
<1>1. ASSUME HistoriesInv, ReaderInv PROVE DeltasAddUp
  <2> SUFFICES ASSUME Quiet
               PROVE  /\ \A k \in Keys : heap[k] = SnapshotAllocations(k)
                      /\ current_heap_size = HeapSize(heap)
                      /\ current_heap_size = current_memory
    BY DEF DeltasAddUp
  <2>1. Accounted
    BY <1>1, AccountedIs DEF HistoriesInv, TypeOK
  <2>2. Shape /\ HeapAccounted /\ FinderAccounted
    BY <2>1 DEF Accounted
  <2>3. current_heap_size = HeapSize(heap) /\ current_heap_size = current_memory
    BY <2>2, MemoryTypes DEF HeapAccounted, FinderAccounted
  <2>4. ASSUME NEW k \in Keys PROVE heap[k] = SnapshotAllocations(k)
    <3>1. heap[k] = Plus(SnapshotAllocations(k), Pending(k))
      BY <1>1 DEF ReaderInv, HeapsAgree
    <3>2. Pending(k).bytes = 0 /\ Pending(k).allocations = 0
      <4>1. OfKey(removed, k) = {}
        BY DEF Quiet, OfKey
      <4>2. Pending(k) = Contribution(TotalSize(OfKey(removed, k)), Taken(OfKey(removed, k)))
        BY DEF Pending, OfKey, Taken
      <4> QED BY <4>1, <4>2, TotalSizeOfNone, TakenOfNone DEF Contribution
    <3>3. SnapshotAllocations(k).bytes \in Nat /\ SnapshotAllocations(k).allocations \in Nat
      <4>1. heap[k] \in Contributions
        BY <1>1 DEF HistoriesInv, TypeOK, PeaksOK
      <4> QED BY <2>2, <4>1, AccountsIs
    <3>4. heap[k] = [bytes |-> SnapshotAllocations(k).bytes,
                     allocations |-> SnapshotAllocations(k).allocations]
      BY <3>1, <3>2, <3>3 DEF Plus, Contribution
    <3> QED BY <3>4 DEF SnapshotAllocations, Contribution
  <2> QED BY <2>3, <2>4
<1> QED BY <1>1, ReaderInvariant, PTL

-----------------------------------------------------------------------------
(* The highest peak of all. *)

\* Whatever peak a location is asked for, it tells what it had on the heap
\* then, except if it has ended a snapshot with as many allocations as at its
\* peak, but other bytes.
LEMMA ContributionAtPeak ==
    ASSUME HistoriesInv, NEW k \in Keys, NEW s \in 0..CurrentSnapshot,
           k \notin cancelled \/ s = usage_history[k].last_known_snapshot
    PROVE  HighWaterMarkContribution(usage_history[k], PeakIndex(s)) = peaks[s + 1].heap[k]
<1>1. PICK h \in Histories : h = usage_history[k] /\ HistoryOK(k, h)
  BY DEF HistoriesInv, TypeOK, PeaksOK
<1> DEFINE n == CurrentSnapshot
           known == h.last_known_snapshot
           p == PeakIndex(s)
<1>2. /\ n \in Nat /\ \A t \in 0..n : PeakIndex(t) \in Nat
      /\ \A t, u \in 0..n : t < u => PeakIndex(t) < PeakIndex(u)
  BY PeakIndexType DEF HistoriesInv, TypeOK, PeaksInOrder
<1>3. /\ known \in 0..n /\ h.last_known_peak \in Nat /\ h.last_known_peak <= PeakIndex(known)
      /\ h.recorded \in Seq(HistoricalContributions)
  BY <1>1 DEF HistoryOK, UpToDate, Histories
<1>4. /\ LeaksContribution(h) = heap[k]
      /\ Rebase(h, PeakIndex(known)).contributed = peaks[known + 1].heap[k]
      /\ \A t \in known + 1..n : peaks[t + 1].heap[k] = heap[k]
  BY <1>1 DEF HistoryOK, UpToDate
<1>5. /\ \A i \in 1..Len(h.recorded) : h.recorded[i].as_of_snapshot < known
      /\ k \notin cancelled => \A t \in 0..known - 1 : AsOf(h.recorded, t) = peaks[t + 1].heap[k]
  BY <1>1 DEF HistoryOK, Recorded
<1>6. /\ \A i \in 1..Len(h.recorded) :
            h.recorded[i].peak_index = PeakIndex(h.recorded[i].as_of_snapshot)
      /\ k \notin cancelled =>
            \A t \in 0..known - 1 : h.last_known_peak <= PeakIndex(t) =>
               Rebase(h, PeakIndex(t)).contributed = peaks[t + 1].heap[k]
  BY <1>1 DEF HistoryOK, KnowsPeaks
<1>7. p \in Nat /\ s \in Nat
  BY <1>2
<1> HIDE DEF n, known, p
<1> SUFFICES HighWaterMarkContribution(h, p) = peaks[s + 1].heap[k]
  BY <1>1 DEF p
<1>8. CASE s = known
  <2>1. ~(p < h.last_known_peak)
    BY <1>3, <1>7, <1>8 DEF p
  <2>2. HighWaterMarkContribution(h, p) = Rebase(h, p).contributed
    BY <2>1 DEF HighWaterMarkContribution
  <2> QED BY <1>4, <1>8, <2>2 DEF p
<1>9. CASE known < s
  <2>1. s \in known + 1..n /\ PeakIndex(known) < p /\ PeakIndex(known) \in Nat
    BY <1>2, <1>3, <1>7, <1>9 DEF n, p
  <2>2. h.last_known_peak < p
    BY <1>3, <1>7, <2>1
  <2>3. ~(p < h.last_known_peak) /\ h.last_known_peak # p
    BY <1>3, <1>7, <2>2
  <2>4. HighWaterMarkContribution(h, p) = Plus(h.contributed, h.since)
    BY <2>3 DEF HighWaterMarkContribution, Rebase, UsageHistory
  <2> QED BY <1>4, <2>1, <2>4 DEF LeaksContribution
<1>10. CASE s < known
  <2>1. s \in 0..known - 1 /\ k \notin cancelled
    BY <1>1, <1>3, <1>7, <1>10 DEF known
  <2>2. CASE h.last_known_peak <= p
    <3>1. ~(p < h.last_known_peak)
      BY <1>3, <1>7, <2>2
    <3>2. HighWaterMarkContribution(h, p) = Rebase(h, p).contributed
      BY <3>1 DEF HighWaterMarkContribution
    <3> QED BY <1>6, <2>1, <2>2, <3>2 DEF p
  <2>3. CASE p < h.last_known_peak
    <3>1. ASSUME NEW i \in 1..Len(h.recorded)
          PROVE  h.recorded[i].peak_index <= p <=> h.recorded[i].as_of_snapshot <= s
      <4> DEFINE t == h.recorded[i].as_of_snapshot
      <4>1. t \in Nat
        <5>1. h.recorded[i] \in HistoricalContributions
          BY <1>3
        <5> QED BY <5>1 DEF HistoricalContributions
      <4>2. t \in 0..n /\ s \in 0..n /\ h.recorded[i].peak_index = PeakIndex(t)
        BY <1>3, <1>5, <1>6, <2>1, <4>1, <1>2 DEF n
      <4> HIDE DEF t
      <4>3. (t < s => PeakIndex(t) < p) /\ (s < t => p < PeakIndex(t)) /\ (s = t => PeakIndex(t) = p)
            /\ PeakIndex(t) \in Nat
        BY <1>2, <4>2 DEF p
      <4> QED BY <1>7, <4>1, <4>2, <4>3 DEF t
    <3>2. {i \in 1..Len(h.recorded) : h.recorded[i].peak_index <= p}
            = {i \in 1..Len(h.recorded) : h.recorded[i].as_of_snapshot <= s}
      BY <3>1
    <3>3. HighWaterMarkContribution(h, p) = AsOf(h.recorded, s)
      <4> DEFINE U == {i \in 1..Len(h.recorded) : h.recorded[i].peak_index <= p}
                 V == {i \in 1..Len(h.recorded) : h.recorded[i].as_of_snapshot <= s}
                 At(W) == IF W = {} THEN None
                          ELSE h.recorded[CHOOSE i \in W : \A j \in W : j <= i].contrib
      <4>1. HighWaterMarkContribution(h, p) = At(U)
        BY <2>3 DEF HighWaterMarkContribution
      <4>2. AsOf(h.recorded, s) = At(V)
        BY DEF AsOf
      <4>3. U = V
        BY <3>2
      <4> HIDE DEF U, V, At
      <4> QED BY <4>1, <4>2, <4>3
    <3> QED BY <1>5, <2>1, <3>3
  <2> QED BY <1>3, <1>7, <2>2, <2>3
<1> QED BY <1>3, <1>7, <1>8, <1>9, <1>10

\* Of the snapshots, the first with the greatest height is found, if any has
\* a height at all.
LEMMA HighestSnapshot ==
    ASSUME HistoriesInv
    PROVE  LET best == HighestOfSnapshots
               n == CurrentSnapshot
           IN /\ best.bytes \in Nat
              /\ \A s \in 1..n : bytes_by_snapshot[s] <= best.bytes
              /\ best.bytes > 0 =>
                   \E s \in 1..n : /\ best.index = index_by_snapshot[s]
                                   /\ best.bytes = bytes_by_snapshot[s]
<1> DEFINE n == CurrentSnapshot
           high == {s \in 1..n : bytes_by_snapshot[s] > 0}
           First(s) == \A t \in high : \/ bytes_by_snapshot[t] < bytes_by_snapshot[s]
                                       \/ bytes_by_snapshot[t] = bytes_by_snapshot[s] /\ s <= t
<1>1. n \in Nat /\ \A s \in 1..n : bytes_by_snapshot[s] \in Int
  BY DEF HistoriesInv, TypeOK, PeaksOK, CurrentSnapshot
<1>2. CASE high = {}
  <2>1. HighestOfSnapshots = [index |-> 0, bytes |-> 0]
    BY <1>2 DEF HighestOfSnapshots
  <2>2. \A s \in 1..n : bytes_by_snapshot[s] <= 0
    BY <1>1, <1>2
  <2> QED BY <2>1, <2>2
<1>3. CASE high # {}
  <2>1. IsFiniteSet(high)
    <3>1. IsFiniteSet(1..n) /\ high \subseteq 1..n
      BY <1>1, FS_Interval
    <3> QED BY <3>1, FS_Subset
  <2>2. PICK a \in high : \A t \in high : bytes_by_snapshot[t] <= bytes_by_snapshot[a]
    <3>1. \A t \in high : bytes_by_snapshot[t] \in Int
      BY <1>1
    <3> HIDE DEF high
    <3> QED BY <1>3, <2>1, <3>1, Greatest
  <2> DEFINE tops == {t \in high : bytes_by_snapshot[t] = bytes_by_snapshot[a]}
  <2>3. PICK c \in tops : \A t \in tops : c <= t
    <3>1. tops \in SUBSET Nat /\ tops # {}
      BY <1>1
    <3> HIDE DEF tops
    <3> QED BY <3>1, LeastNumber
  <2>4. First(c)
    <3> SUFFICES ASSUME NEW t \in high
                 PROVE  \/ bytes_by_snapshot[t] < bytes_by_snapshot[c]
                        \/ bytes_by_snapshot[t] = bytes_by_snapshot[c] /\ c <= t
      OBVIOUS
    <3>1. /\ bytes_by_snapshot[c] = bytes_by_snapshot[a] /\ bytes_by_snapshot[t] <= bytes_by_snapshot[a]
          /\ bytes_by_snapshot[t] \in Int /\ bytes_by_snapshot[a] \in Int
      BY <1>1, <2>2
    <3>2. CASE bytes_by_snapshot[t] = bytes_by_snapshot[a]
      <4>1. t \in tops
        BY <3>2
      <4> QED BY <2>3, <3>1, <3>2, <4>1
    <3> QED BY <3>1, <3>2
  <2> DEFINE s == CHOOSE s \in high : First(s)
  <2>5. s \in high /\ First(s)
    <3>1. c \in high
      OBVIOUS
    <3> HIDE DEF First, high
    <3> QED BY <2>4, <3>1
  <2>6. HighestOfSnapshots = [index |-> index_by_snapshot[s], bytes |-> bytes_by_snapshot[s]]
    BY <1>3, Zenon DEF HighestOfSnapshots
  <2> HIDE DEF s
  <2>7. s \in 1..n /\ bytes_by_snapshot[s] > 0 /\ bytes_by_snapshot[s] \in Nat
    BY <1>1, <2>5
  <2>8. \A t \in 1..n : bytes_by_snapshot[t] <= bytes_by_snapshot[s]
    <3> SUFFICES ASSUME NEW t \in 1..n PROVE bytes_by_snapshot[t] <= bytes_by_snapshot[s]
      OBVIOUS
    <3>1. bytes_by_snapshot[t] \in Int
      BY <1>1
    <3>2. CASE t \in high
      <4>1. bytes_by_snapshot[t] < bytes_by_snapshot[s] \/ bytes_by_snapshot[t] = bytes_by_snapshot[s]
        BY <2>5, <3>2
      <4> QED BY <2>7, <3>1, <4>1
    <3>3. CASE t \notin high
      BY <2>7, <3>1, <3>3
    <3> QED BY <3>2, <3>3
  <2> QED BY <2>6, <2>7, <2>8
<1> QED BY <1>2, <1>3

\* The peak that visitAllocations finds is the highest of all.
LEMMA HighestIsOfSnapshot ==
    ASSUME HistoriesInv, current_heap_size \in Nat
    PROVE  \E s \in 0..CurrentSnapshot :
             /\ HighestPeak = [index |-> PeakIndex(s), bytes |-> peaks[s + 1].bytes]
             /\ \A t \in 0..CurrentSnapshot : peaks[t + 1].bytes <= peaks[s + 1].bytes
<1> DEFINE n == CurrentSnapshot
           best == HighestOfSnapshots
           high == heap_size_at_last_peak
           size == current_heap_size
           last == IF high > best.bytes THEN [index |-> peak_count, bytes |-> high] ELSE best
<1>1. /\ n \in Nat /\ high \in Int /\ size \in Nat /\ peaks[n + 1].bytes \in Int
      /\ \A s \in 0..n : peaks[s + 1].bytes \in Int
  <2>1. /\ n \in Nat /\ high \in Int /\ \A s \in 1..n + 1 : peaks[s].bytes \in Int
    BY LastPeak DEF HistoriesInv, TypeOK, PeaksOK
  <2>2. n + 1 \in 1..n + 1 /\ \A s \in 0..n : s + 1 \in 1..n + 1
    BY <2>1
  <2> QED BY <2>1, <2>2
<1>2. IF Rising THEN peaks[n + 1] = [bytes |-> size, heap |-> heap] ELSE peaks[n + 1].bytes = high
  BY DEF HistoriesInv, HighestOfCurrent
<1>3. /\ best.bytes \in Nat
      /\ \A s \in 1..n : bytes_by_snapshot[s] <= best.bytes
      /\ best.bytes > 0 => \E s \in 1..n : /\ best.index = index_by_snapshot[s]
                                           /\ best.bytes = bytes_by_snapshot[s]
  BY HighestSnapshot
<1>4. \A s \in 0..n - 1 : bytes_by_snapshot[s + 1] = peaks[s + 1].bytes
  BY DEF HistoriesInv, HeightsRecorded
<1>5. \A s \in 0..n - 1 : peaks[s + 1].bytes <= best.bytes
  <2>1. \A s \in 0..n - 1 : s + 1 \in 1..n
    BY <1>1
  <2> QED BY <1>3, <1>4, <2>1
<1>6. HighestPeak = IF size >= last.bytes THEN [index |-> peak_count + 1, bytes |-> size] ELSE last
  BY DEF HighestPeak
<1>7. PeakIndex(n) = IF Rising THEN peak_count + 1 ELSE peak_count
  BY <1>1 DEF PeakIndex, FinalPeakCount
<1>8. Rising <=> size >= high
  BY DEF Rising
<1>9. \A s \in 0..n - 1 : PeakIndex(s) = index_by_snapshot[s + 1]
  BY <1>1 DEF PeakIndex
<1>10. best = [index |-> best.index, bytes |-> best.bytes]
  BY DEF HighestOfSnapshots
<1>11. \A s \in 0..n : s \in 0..n - 1 \/ s = n
  BY <1>1
<1> HIDE DEF n, best, high, size
<1>12. CASE size >= last.bytes
  <2>1. size >= high /\ size >= best.bytes
    <3>1. CASE high > best.bytes
      BY <1>1, <1>3, <1>12, <3>1
    <3>2. CASE ~(high > best.bytes)
      BY <1>1, <1>3, <1>12, <3>2
    <3> QED BY <3>1, <3>2
  <2>2. peaks[n + 1].bytes = size /\ PeakIndex(n) = peak_count + 1 /\ n \in 0..n
    BY <1>1, <1>2, <1>7, <1>8, <2>1
  <2>3. HighestPeak = [index |-> PeakIndex(n), bytes |-> peaks[n + 1].bytes]
    BY <1>6, <1>12, <2>2
  <2>4. \A t \in 0..n : peaks[t + 1].bytes <= peaks[n + 1].bytes
    BY <1>1, <1>3, <1>5, <1>11, <2>1, <2>2
  <2> QED BY <2>2, <2>3, <2>4 DEF n
<1>13. CASE ~(size >= last.bytes) /\ high > best.bytes
  <2>1. last = [index |-> peak_count, bytes |-> high] /\ last.bytes = high /\ ~(size >= high)
    BY <1>13
  <2>2. peaks[n + 1].bytes = high /\ PeakIndex(n) = peak_count /\ n \in 0..n
    BY <1>1, <1>2, <1>7, <1>8, <2>1
  <2>3. HighestPeak = [index |-> PeakIndex(n), bytes |-> peaks[n + 1].bytes]
    BY <1>6, <1>13, <2>1, <2>2
  <2>4. \A t \in 0..n : peaks[t + 1].bytes <= peaks[n + 1].bytes
    BY <1>1, <1>3, <1>5, <1>11, <1>13, <2>2
  <2> QED BY <2>2, <2>3, <2>4 DEF n
<1>14. CASE ~(size >= last.bytes) /\ ~(high > best.bytes)
  <2>1. last = best /\ size < best.bytes /\ high <= best.bytes /\ best.bytes > 0
    BY <1>1, <1>3, <1>14
  <2>2. PICK u \in 1..n : best.index = index_by_snapshot[u] /\ best.bytes = bytes_by_snapshot[u]
    BY <1>3, <2>1
  <2>3. PICK s \in 0..n - 1 : s + 1 = u
    <3>1. u - 1 \in 0..n - 1 /\ (u - 1) + 1 = u
      BY <1>1
    <3> QED BY <3>1
  <2>4. best.bytes = peaks[s + 1].bytes /\ best.index = PeakIndex(s) /\ s \in 0..n
    BY <1>1, <1>4, <1>9, <2>2, <2>3
  <2>5. HighestPeak = [index |-> PeakIndex(s), bytes |-> peaks[s + 1].bytes]
    BY <1>6, <1>10, <1>14, <2>1, <2>4
  <2>6. peaks[n + 1].bytes <= best.bytes
    <3>1. CASE Rising
      <4>1. peaks[n + 1].bytes = size
        BY <1>2, <3>1
      <4> QED BY <1>1, <1>3, <2>1, <4>1
    <3>2. CASE ~Rising
      <4>1. peaks[n + 1].bytes = high
        BY <1>2, <3>2
      <4> QED BY <2>1, <4>1
    <3> QED BY <3>1, <3>2
  <2>7. \A t \in 0..n : peaks[t + 1].bytes <= peaks[s + 1].bytes
    BY <1>5, <1>11, <2>4, <2>6
  <2> QED BY <2>4, <2>5, <2>7 DEF n
<1> QED BY <1>12, <1>13, <1>14

\* Once munmap is through, the heap has as many bytes as what is live.
LEMMA HeapIsNatural ==
    ASSUME HistoriesInv, ReaderInv, Quiet
    PROVE  current_heap_size \in Nat
<1>1. Shape /\ FinderAccounted
  BY AccountedIs DEF HistoriesInv, TypeOK, Accounted
<1> QED BY <1>1, MemoryTypes DEF FinderAccounted

\* What visitAllocations reports is a high water mark: the heap, location by
\* location, at one of the highest peaks of all, as high as the first pass
\* over a file finds it.
THEOREM HighestIsRight == ReaderSpec => []HighestIsHeapAtPeak
<1>1. ASSUME HistoriesInv, ReaderInv PROVE HighestIsHeapAtPeak
  <2> SUFFICES ASSUME Quiet
               PROVE  \E s \in 0..CurrentSnapshot :
                        /\ \A t \in 0..CurrentSnapshot : peaks[t + 1].bytes <= peaks[s + 1].bytes
                        /\ last_high_water_mark.peak_memory = peaks[s + 1].bytes
                        /\ HighestPeak.bytes = peaks[s + 1].bytes
                        /\ \A k \in Keys \ cancelled :
                             HighWaterMarkContribution(usage_history[k], HighestPeak.index)
                               = peaks[s + 1].heap[k]
    BY DEF HighestIsHeapAtPeak
  <2>1. PICK s \in 0..CurrentSnapshot :
             /\ HighestPeak = [index |-> PeakIndex(s), bytes |-> peaks[s + 1].bytes]
             /\ \A t \in 0..CurrentSnapshot : peaks[t + 1].bytes <= peaks[s + 1].bytes
    BY <1>1, HeapIsNatural, HighestIsOfSnapshot
  <2>2. HighestPeak.index = PeakIndex(s) /\ HighestPeak.bytes = peaks[s + 1].bytes
    BY <2>1
  <2>3. last_high_water_mark.peak_memory = peaks[s + 1].bytes
    <3>1. /\ last_high_water_mark.peak_memory \in Nat
          /\ \A t \in 0..CurrentSnapshot : peaks[t + 1].bytes <= last_high_water_mark.peak_memory
      BY <1>1 DEF ReaderInv, MarkAgrees
    <3>2. PICK u \in 0..CurrentSnapshot : peaks[u + 1].bytes = last_high_water_mark.peak_memory
      BY <1>1 DEF ReaderInv, MarkAgrees
    <3>3. last_high_water_mark.peak_memory <= peaks[s + 1].bytes
      BY <2>1, <3>2
    <3>4. peaks[s + 1].bytes <= last_high_water_mark.peak_memory
      BY <3>1
    <3>5. peaks[s + 1].bytes \in Int
      <4>0. CurrentSnapshot \in Nat
        BY <1>1, LastPeak
      <4>1. s + 1 \in 1..CurrentSnapshot + 1
        BY <4>0
      <4> QED BY <1>1, <4>1, LastPeak
    <3> QED BY <3>1, <3>3, <3>4, <3>5
  <2>4. \A k \in Keys \ cancelled :
           HighWaterMarkContribution(usage_history[k], HighestPeak.index) = peaks[s + 1].heap[k]
    BY <1>1, <2>2, ContributionAtPeak
  <2> QED BY <2>1, <2>2, <2>3, <2>4
<1> QED BY <1>1, ReaderInvariant, PTL

\* Both formats of capture file give the same high water mark.
THEOREM FormatsAreEqual == ReaderSpec => []FormatsAgree
<1>1. ASSUME HistoriesInv, ReaderInv PROVE FormatsAgree
  <2> SUFFICES ASSUME Quiet, CurrentSnapshot = 0, NEW k \in Keys
               PROVE  HighWaterMarkContribution(usage_history[k], HighestPeak.index) = at_mark[k]
    BY DEF FormatsAgree
  <2>1. HighestPeak.index = PeakIndex(0) /\ 0 \in 0..CurrentSnapshot
    <3>1. PICK s \in 0..CurrentSnapshot :
             /\ HighestPeak = [index |-> PeakIndex(s), bytes |-> peaks[s + 1].bytes]
             /\ \A t \in 0..CurrentSnapshot : peaks[t + 1].bytes <= peaks[s + 1].bytes
      BY <1>1, HeapIsNatural, HighestIsOfSnapshot
    <3>2. s = 0
      OBVIOUS
    <3> QED BY <3>1, <3>2
  <2>2. usage_history[k].last_known_snapshot = 0
    <3>1. HistoryOK(k, usage_history[k])
      BY <1>1 DEF HistoriesInv
    <3> QED BY <3>1 DEF HistoryOK, UpToDate
  <2>3. HighWaterMarkContribution(usage_history[k], PeakIndex(0)) = peaks[0 + 1].heap[k]
    BY <1>1, <2>1, <2>2, ContributionAtPeak
  <2>4. at_mark = peaks[1].heap /\ 0 + 1 = 1
    BY <1>1 DEF ReaderInv, MarkAgrees
  <2> QED BY <2>1, <2>3, <2>4
<1> QED BY <1>1, ReaderInvariant, PTL

-----------------------------------------------------------------------------
(* AllocationLifetimeAggregator. *)

\* Some simple allocations and their bytes.
SizesAt(p, S) == SumFunction([a \in S |-> p[a].size])

\* What was allocated by a key before a snapshot and is live.
SimpleBefore(p, k, s) == {a \in Addresses : p[a] # Nothing /\ p[a].key = k /\ p[a].generation < s}
RangedBefore(t, k, s) == {m \in t : m.value.key = k /\ m.value.generation < s}
IdsOf(t) == {m.value.id : m \in t}

BytesBefore(p, t, k, s) == SizesAt(p, SimpleBefore(p, k, s)) + TotalSize(RangedBefore(t, k, s))
CountBefore(p, t, k, s) ==
    Cardinality(SimpleBefore(p, k, s)) + Cardinality(IdsOf(RangedBefore(t, k, s)))

\* What was allocated by a key before a snapshot and freed after it.
FreedAcross(h, k, s) == {x \in DOMAIN h : x[3] = k /\ x[1] < s /\ s <= x[2]}
FreedBytes(h, k, s) == SumFunction([x \in FreedAcross(h, k, s) |-> h[x].bytes])
FreedCount(h, k, s) == SumFunction([x \in FreedAcross(h, k, s) |-> h[x].allocations])

\* The tables, after n snapshots.
FreedOK(h, n) ==
    /\ IsFiniteSet(DOMAIN h) /\ h \in [DOMAIN h -> Contributions]
    /\ \A x \in DOMAIN h : x[2] \in Nat /\ x[2] <= n
AllocatedOK(p, n) ==
    /\ p \in [Addresses -> [key : SimpleKeys, size : Sizes, generation : 0..n] \cup {Nothing}]
    /\ IsFiniteSet({a \in Addresses : p[a] # Nothing})
MappedOK(t, n) ==
    /\ MappingsApart(t)
    /\ \A m \in t : m.value.key \in RangedKeys /\ m.value.generation \in 0..n
    /\ \A m, o \in t : m.value.id = o.value.id => m.value = o.value

\* This aggregator has nothing that HighWaterMarkAggregator has not.
SameBlocks ==
    /\ \A a \in Addresses : allocated[a] # Nothing => ptr_to_allocation[a] # NoAllocation
    /\ \A m \in mapped : \E i \in mmap_intervals : i.begin = m.begin /\ i.end = m.end

\* Of each snapshot, what has been freed since and what is live add up.
Balanced(h, p, t, k, s, c, counts) ==
    /\ FreedBytes(h, k, s) + BytesBefore(p, t, k, s) = c.bytes
    /\ counts => FreedCount(h, k, s) + CountBefore(p, t, k, s) = c.allocations

LifetimeOK(n, h, p, t, live, none) ==
    /\ n \in Nat /\ live \in Seq([Keys -> Contributions]) /\ Len(live) = n
    /\ FreedOK(h, n) /\ AllocatedOK(p, n) /\ MappedOK(t, n)
    /\ \A s \in 1..n, k \in Keys : Balanced(h, p, t, k, s, live[s][k], k \notin none)

\* The invariant of the aggregator.
LifetimeInv ==
    /\ LifetimeOK(num_snapshots, allocation_history, allocated, mapped, live_at, uncounted)
    /\ SameBlocks

\* A block has a location, a size and a generation.
LEMMA BlockIs ==
    ASSUME NEW n \in Nat, NEW p, AllocatedOK(p, n), NEW a \in Addresses, p[a] # Nothing
    PROVE  /\ p[a].key \in SimpleKeys /\ p[a].key \in Keys /\ p[a].size \in Nat
           /\ p[a].generation \in 0..n
<1>1. p[a] \in [key : SimpleKeys, size : Sizes, generation : 0..n]
  BY DEF AllocatedOK
<1>2. p[a].key \in SimpleKeys /\ p[a].size \in Sizes /\ p[a].generation \in 0..n
  BY <1>1
<1> QED BY <1>2, NumbersAssumption DEF Keys

\* The bytes of some blocks can be added up.
LEMMA SizesAtIs ==
    ASSUME NEW n \in Nat, NEW p, AllocatedOK(p, n), NEW S \in SUBSET Addresses,
           \A a \in S : p[a] # Nothing
    PROVE  LET f == [a \in Addresses |-> p[a].size] IN
           /\ IsFiniteSet(S) /\ Adds(f, S) /\ SizesAt(p, S) = SumFunctionOnSet(f, S)
           /\ SizesAt(p, S) \in Nat
<1> DEFINE f == [a \in Addresses |-> p[a].size]
           g == [a \in S |-> p[a].size]
<1>1. IsFiniteSet(S)
  <2>1. S \subseteq {a \in Addresses : p[a] # Nothing}
    OBVIOUS
  <2> QED BY <2>1, FS_Subset DEF AllocatedOK
<1>2. \A a \in S : f[a] \in Nat
  BY BlockIs
<1>3. g = [a \in S |-> g[a]] /\ \A a \in S : g[a] = f[a]
  OBVIOUS
<1>4. SizesAt(p, S) = SumFunction(g)
  BY DEF SizesAt
<1> HIDE DEF f, g
<1>5. Adds(f, S) /\ SumFunctionOnSet(f, S) \in Nat
  BY <1>1, <1>2, SumOfNaturals
<1>6. SumFunction(g) = SumFunctionOnSet(f, S)
  BY <1>3, <1>5, SumOfAll
<1> QED BY <1>1, <1>4, <1>5, <1>6 DEF f

\* Blocks that are the same in two tables are as many bytes.
Agree(q, p, S) == S \in SUBSET Addresses /\ \A a \in S : p[a] # Nothing /\ q[a] = p[a]

\* Two heaps that agree on some addresses have as many bytes there.
LEMMA SizesSame ==
    ASSUME NEW n \in Nat, NEW p, AllocatedOK(p, n), NEW q, AllocatedOK(q, n),
           NEW S, Agree(q, p, S)
    PROVE  SizesAt(q, S) = SizesAt(p, S)
<1>0. /\ S \in SUBSET Addresses /\ \A a \in S : p[a] # Nothing
      /\ \A a \in S : q[a] # Nothing /\ q[a] = p[a]
  BY DEF Agree
<1> DEFINE f == [a \in Addresses |-> p[a].size]
           g == [a \in Addresses |-> q[a].size]
<1>1. Adds(f, S) /\ SizesAt(p, S) = SumFunctionOnSet(f, S)
  BY <1>0, SizesAtIs
<1>2. SizesAt(q, S) = SumFunctionOnSet(g, S)
  BY <1>0, SizesAtIs
<1>3. \A a \in S : g[a] = f[a]
  BY <1>0
<1> HIDE DEF f, g
<1> QED BY <1>1, <1>2, <1>3, SumSame

\* What was allocated before a snapshot are blocks.
LEMMA BeforeAreBlocks ==
    ASSUME NEW p, NEW k, NEW s
    PROVE  /\ SimpleBefore(p, k, s) \in SUBSET Addresses
           /\ \A a \in SimpleBefore(p, k, s) : p[a] # Nothing
BY DEF SimpleBefore

Block(key, size, generation) == [key |-> key, size |-> size, generation |-> generation]

\* malloc is none of what was allocated before the last snapshot.
LEMMA BlockAdded ==
    ASSUME NEW n \in Nat, NEW p, AllocatedOK(p, n), NEW a \in Addresses, p[a] = Nothing,
           NEW key \in SimpleKeys, NEW size \in Sizes,
           NEW q, Sets(q, p, a, Block(key, size, n))
    PROVE  /\ AllocatedOK(q, n)
           /\ \A k, s : s <= n /\ s \in Nat =>
                /\ SimpleBefore(q, k, s) = SimpleBefore(p, k, s)
                /\ SizesAt(q, SimpleBefore(q, k, s)) = SizesAt(p, SimpleBefore(p, k, s))
<1> DEFINE x == Block(key, size, n)
           Blocks(r) == {b \in Addresses : r[b] # Nothing}
<1>1. /\ q \in [Addresses -> [key : SimpleKeys, size : Sizes, generation : 0..n] \cup {Nothing}]
      /\ q[a] = x /\ \A b \in Addresses : b # a => q[b] = p[b]
  BY DEF AllocatedOK, Sets, Block
<1>2. x # Nothing /\ x.generation = n
  <2>1. x.key = key /\ x.generation = n /\ Nothing.key = "none" /\ key # "none"
    BY KeysAssumption DEF Nothing, Block
  <2> QED BY <2>1
<1> HIDE DEF x
<1>3. Blocks(q) = Blocks(p) \cup {a}
  BY <1>1, <1>2
<1>4. AllocatedOK(q, n)
  <2> DEFINE B == Blocks(p)
  <2>1. IsFiniteSet(B)
    BY DEF AllocatedOK
  <2> HIDE DEF B
  <2>2. IsFiniteSet(B \cup {a})
    BY <2>1, FS_AddElement
  <2>3. IsFiniteSet(Blocks(q))
    BY <1>3, <2>2 DEF B
  <2> QED BY <1>1, <2>3 DEF AllocatedOK
<1>5. ASSUME NEW k, NEW s \in Nat, s <= n
      PROVE  /\ SimpleBefore(q, k, s) = SimpleBefore(p, k, s)
             /\ SizesAt(q, SimpleBefore(q, k, s)) = SizesAt(p, SimpleBefore(p, k, s))
  <2>1. ~(n < s)
    BY <1>5
  <2>2. SimpleBefore(q, k, s) = SimpleBefore(p, k, s)
    BY <1>1, <1>2, <2>1 DEF SimpleBefore
  <2> DEFINE S == SimpleBefore(p, k, s)
  <2>3. S \in SUBSET Addresses /\ \A b \in S : p[b] # Nothing
    BY BeforeAreBlocks
  <2> HIDE DEF S
  <2>4. Agree(q, p, S)
    BY <1>1, <2>3 DEF Agree
  <2>5. SizesAt(q, S) = SizesAt(p, S)
    BY <1>4, <2>4, SizesSame
  <2> QED BY <2>2, <2>5 DEF S
<1> QED BY <1>4, <1>5

\* free takes away what malloc has added.
LEMMA BlockFreed ==
    ASSUME NEW n \in Nat, NEW p, AllocatedOK(p, n), NEW a \in Addresses, p[a] # Nothing,
           NEW q, Sets(q, p, a, Nothing)
    PROVE  /\ AllocatedOK(q, n)
           /\ \A k, s : p[a].key = k /\ p[a].generation < s =>
                /\ Cardinality(SimpleBefore(p, k, s)) = Cardinality(SimpleBefore(q, k, s)) + 1
                /\ SizesAt(p, SimpleBefore(p, k, s))
                     = SizesAt(q, SimpleBefore(q, k, s)) + p[a].size
           /\ \A k, s : ~(p[a].key = k /\ p[a].generation < s) =>
                /\ SimpleBefore(q, k, s) = SimpleBefore(p, k, s)
                /\ SizesAt(q, SimpleBefore(q, k, s)) = SizesAt(p, SimpleBefore(p, k, s))
<1> DEFINE Blocks(r) == {b \in Addresses : r[b] # Nothing}
<1>1. /\ q \in [Addresses -> [key : SimpleKeys, size : Sizes, generation : 0..n] \cup {Nothing}]
      /\ q[a] = Nothing /\ \A b \in Addresses : b # a => q[b] = p[b]
  BY DEF AllocatedOK, Sets
<1>2. Blocks(q) \subseteq Blocks(p)
  BY <1>1
<1>3. AllocatedOK(q, n)
  <2>1. IsFiniteSet(Blocks(p))
    BY DEF AllocatedOK
  <2> HIDE DEF Blocks
  <2>2. IsFiniteSet(Blocks(q))
    BY <1>2, <2>1, FS_Subset
  <2> QED BY <1>1, <2>2 DEF Blocks, AllocatedOK
<1>4. ASSUME NEW k, NEW s
      PROVE  /\ SimpleBefore(q, k, s) = SimpleBefore(p, k, s) \ {a}
             /\ SizesAt(q, SimpleBefore(q, k, s)) = SizesAt(p, SimpleBefore(q, k, s))
  <2>1. SimpleBefore(q, k, s) = SimpleBefore(p, k, s) \ {a}
    BY <1>1 DEF SimpleBefore
  <2> DEFINE S == SimpleBefore(q, k, s)
  <2>2. Agree(q, p, S)
    <3>1. S \in SUBSET Addresses /\ a \notin S /\ \A b \in S : q[b] # Nothing
      BY <1>1 DEF SimpleBefore
    <3> HIDE DEF S
    <3> QED BY <1>1, <3>1 DEF Agree
  <2> HIDE DEF S
  <2>3. SizesAt(q, S) = SizesAt(p, S)
    BY <1>3, <2>2, SizesSame
  <2> QED BY <2>1, <2>3 DEF S
<1>5. ASSUME NEW k, NEW s, p[a].key = k /\ p[a].generation < s
      PROVE  /\ Cardinality(SimpleBefore(p, k, s)) = Cardinality(SimpleBefore(q, k, s)) + 1
             /\ SizesAt(p, SimpleBefore(p, k, s)) = SizesAt(q, SimpleBefore(q, k, s)) + p[a].size
  <2> DEFINE S == SimpleBefore(p, k, s)
             f == [b \in Addresses |-> p[b].size]
  <2>1. a \in S
    BY <1>5 DEF SimpleBefore
  <2>2. S \in SUBSET Addresses /\ \A b \in S : p[b] # Nothing
    BY BeforeAreBlocks
  <2>3. SimpleBefore(q, k, s) = S \ {a}
    BY <1>4
  <2>4. SizesAt(q, SimpleBefore(q, k, s)) = SizesAt(p, S \ {a})
    BY <1>4, <2>3
  <2> HIDE DEF S
  <2>5. /\ IsFiniteSet(S) /\ Adds(f, S) /\ SizesAt(p, S) = SumFunctionOnSet(f, S)
    BY <2>2, SizesAtIs
  <2>6. SizesAt(p, S \ {a}) = SumFunctionOnSet(f, S \ {a}) /\ SizesAt(p, S \ {a}) \in Nat
    <3>1. S \ {a} \in SUBSET Addresses /\ \A b \in S \ {a} : p[b] # Nothing
      BY <2>2
    <3> QED BY <3>1, SizesAtIs
  <2>7. f[a] = p[a].size /\ p[a].size \in Nat
    BY BlockIs
  <2> HIDE DEF f
  <2>8. SumFunctionOnSet(f, S) = f[a] + SumFunctionOnSet(f, S \ {a})
    BY <2>1, <2>5, SumWithout
  <2>9. Cardinality(S \ {a}) = Cardinality(S) - 1 /\ Cardinality(S) \in Nat
    BY <2>1, <2>5, FS_RemoveElement, FS_CardinalityType
  <2>10. Cardinality(S) = Cardinality(S \ {a}) + 1
    BY <2>9
  <2>11. SizesAt(p, S) = SizesAt(p, S \ {a}) + p[a].size
    BY <2>5, <2>6, <2>7, <2>8
  <2> QED BY <2>3, <2>4, <2>10, <2>11 DEF S
<1>6. ASSUME NEW k, NEW s, ~(p[a].key = k /\ p[a].generation < s)
      PROVE  /\ SimpleBefore(q, k, s) = SimpleBefore(p, k, s)
             /\ SizesAt(q, SimpleBefore(q, k, s)) = SizesAt(p, SimpleBefore(p, k, s))
  <2>1. a \notin SimpleBefore(p, k, s)
    BY <1>6 DEF SimpleBefore
  <2>2. SimpleBefore(p, k, s) \ {a} = SimpleBefore(p, k, s)
    BY <2>1
  <2> QED BY <1>4, <2>2
<1> QED BY <1>3, <1>5, <1>6

\* What a finite set is mapped to is finite.
LEMMA ImageIsFinite ==
    ASSUME NEW S, IsFiniteSet(S), NEW f
    PROVE  IsFiniteSet({f[x] : x \in S})
<1> DEFINE g == [x \in S |-> f[x]]
           T == {f[x] : x \in S}
<1>1. g \in Surjection(S, T)
  BY DEF Surjection
<1> HIDE DEF g, T
<1>2. IsFiniteSet(T)
  BY <1>1, FS_Surjection
<1> QED BY <1>2 DEF T

\* The fields of what was freed can be added up.
LEMMA FreedIs ==
    ASSUME NEW n \in Nat, NEW h, FreedOK(h, n), NEW k, NEW s
    PROVE  LET F == FreedAcross(h, k, s)
               b == [x \in DOMAIN h |-> h[x].bytes]
               c == [x \in DOMAIN h |-> h[x].allocations]
           IN /\ F \in SUBSET DOMAIN h
              /\ \A x \in DOMAIN h : h[x].bytes \in Int /\ h[x].allocations \in Int
              /\ Adds(b, F) /\ FreedBytes(h, k, s) = SumFunctionOnSet(b, F)
              /\ Adds(c, F) /\ FreedCount(h, k, s) = SumFunctionOnSet(c, F)
              /\ FreedBytes(h, k, s) \in Int /\ FreedCount(h, k, s) \in Int
<1> DEFINE F == FreedAcross(h, k, s)
           b == [x \in DOMAIN h |-> h[x].bytes]
           c == [x \in DOMAIN h |-> h[x].allocations]
           fb == [x \in F |-> h[x].bytes]
           fc == [x \in F |-> h[x].allocations]
<1>1. F \in SUBSET DOMAIN h
  BY DEF FreedAcross
<1>2. \A x \in DOMAIN h : h[x].bytes \in Int /\ h[x].allocations \in Int
  <2> SUFFICES ASSUME NEW x \in DOMAIN h PROVE h[x].bytes \in Int /\ h[x].allocations \in Int
    OBVIOUS
  <2>1. h[x] \in [bytes : Int, allocations : Int]
    BY DEF FreedOK, Contributions
  <2> QED BY <2>1
<1>3. FreedBytes(h, k, s) = SumFunction(fb) /\ FreedCount(h, k, s) = SumFunction(fc)
  BY DEF FreedBytes, FreedCount
<1> HIDE DEF F
<1>4. /\ fb = [x \in F |-> fb[x]] /\ fc = [x \in F |-> fc[x]]
      /\ \A x \in F : fb[x] = b[x] /\ fc[x] = c[x]
  BY <1>1
<1>5. IsFiniteSet(F) /\ \A x \in F : b[x] \in Int /\ c[x] \in Int
  BY <1>1, <1>2, FS_Subset DEF FreedOK
<1> HIDE DEF b, c, fb, fc
<1>6. Adds(b, F) /\ Adds(c, F)
  BY <1>5 DEF Adds
<1>7. SumFunction(fb) = SumFunctionOnSet(b, F) /\ SumFunction(fc) = SumFunctionOnSet(c, F)
  BY <1>4, <1>6, SumOfAll
<1>8. SumFunctionOnSet(b, F) \in Int /\ SumFunctionOnSet(c, F) \in Int
  BY <1>6, SumType
<1> QED BY <1>1, <1>2, <1>3, <1>6, <1>7, <1>8 DEF F, b, c

\* Deallocations since the last snapshot, and those of a key that was allocated
\* before another one.
AreDeallocations(D) ==
    /\ IsFiniteSet(D)
    /\ \A d \in D : /\ d.bytes \in Int /\ d.count \in Int
                    /\ d.where[1] \in Nat /\ d.where[1] <= num_snapshots
                    /\ d.where[2] = num_snapshots
OfBefore(D, k, s) == {d \in D : d.where[3] = k /\ d.where[1] < s}
Spanning(D) == {d \in D : d.where[1] # num_snapshots}
WheresOf(D) == {d.where : d \in D}

\* The numbers u that were recorded, with those of f for some deallocations, are v.
Recording(u, f, v, D) ==
    \A x \in DOMAIN allocation_history' :
        v[x] = (IF x \in DOMAIN allocation_history THEN u[x] ELSE 0)
                 + SumFunctionOnSet(f, {d \in Spanning(D) : d.where = x})

\* What is recorded across a snapshot is what was and what the deallocations are.
LEMMA RecordingAddsUp ==
    ASSUME num_snapshots \in Nat, FreedOK(allocation_history, num_snapshots),
           FreedOK(allocation_history', num_snapshots),
           NEW D, AreDeallocations(D),
           DOMAIN allocation_history' = DOMAIN allocation_history \cup WheresOf(Spanning(D)),
           NEW k, NEW s \in 1..num_snapshots,
           NEW u, Adds(u, FreedAcross(allocation_history, k, s)), NEW f, Adds(f, D),
           NEW v, Recording(u, f, v, D)
    PROVE  SumFunctionOnSet(v, FreedAcross(allocation_history', k, s))
             = SumFunctionOnSet(u, FreedAcross(allocation_history, k, s))
                 + SumFunctionOnSet(f, OfBefore(D, k, s))
<1> DEFINE K == FreedAcross(allocation_history', k, s)
           L == FreedAcross(allocation_history, k, s)
           R == OfBefore(D, k, s)
           m == [d \in D |-> d.where]
<1>1. /\ IsFiniteSet(DOMAIN allocation_history')
      /\ K \in SUBSET DOMAIN allocation_history'
  BY DEF FreedOK, FreedAcross
<1>2. L \in SUBSET K /\ \A x \in K : x \in DOMAIN allocation_history <=> x \in L
  BY DEF FreedAcross
<1>3. R \subseteq Spanning(D) /\ R \in SUBSET D
  <2>1. \A d \in R : d.where[1] # num_snapshots
    BY DEF OfBefore, AreDeallocations
  <2> QED BY <2>1 DEF OfBefore, Spanning
<1>4. \A d \in R : m[d] \in K
  <2> SUFFICES ASSUME NEW d \in R PROVE d.where \in K
    BY <1>3
  <2>1. d.where \in DOMAIN allocation_history'
    BY <1>3 DEF WheresOf
  <2>2. d.where[3] = k /\ d.where[1] < s /\ d.where[2] = num_snapshots /\ s <= num_snapshots
    BY DEF OfBefore, AreDeallocations
  <2> QED BY <2>1, <2>2 DEF FreedAcross
<1>5. \A x \in K : {d \in Spanning(D) : d.where = x} = {d \in R : m[d] = x}
  <2> SUFFICES ASSUME NEW x \in K, NEW d \in D, d.where = x PROVE d \in R
    BY <1>3 DEF Spanning
  <2>1. x[3] = k /\ x[1] < s
    BY DEF FreedAcross
  <2> QED BY <2>1 DEF OfBefore
<1>6. IsFiniteSet(K)
  BY <1>1, FS_Subset
<1>7. Adds(f, R)
  BY <1>3, AddsPart
<1> HIDE DEF m, K, L, R
<1>8. \A x \in K : v[x] = (IF x \in L THEN u[x] ELSE 0) + SumFunctionOnSet(f, {d \in R : m[d] = x})
  <2> SUFFICES ASSUME NEW x \in K
               PROVE v[x] = (IF x \in L THEN u[x] ELSE 0) + SumFunctionOnSet(f, {d \in R : m[d] = x})
    OBVIOUS
  <2>1. v[x] = (IF x \in DOMAIN allocation_history THEN u[x] ELSE 0)
                 + SumFunctionOnSet(f, {d \in Spanning(D) : d.where = x})
    BY <1>1 DEF Recording
  <2>2. x \in DOMAIN allocation_history <=> x \in L
    BY <1>2
  <2>3. {d \in Spanning(D) : d.where = x} = {d \in R : m[d] = x}
    BY <1>5
  <2> QED BY <2>1, <2>2, <2>3
<1>9. Adds(u, L)
  BY DEF L
<1>10. AtPlaces(v, K, u, L, f, R, m)
  BY <1>4, <1>8 DEF AtPlaces
<1>11. SumFunctionOnSet(v, K) = SumFunctionOnSet(u, L) + SumFunctionOnSet(f, R)
  BY <1>2, <1>6, <1>7, <1>9, <1>10, SumOfPlaces
<1> QED BY <1>11 DEF K, L, R

\* recordDeallocation records each of them under its snapshots and key.
LEMMA DeallocationsRecorded ==
    ASSUME num_snapshots \in Nat, FreedOK(allocation_history, num_snapshots),
           NEW D, AreDeallocations(D), RecordDeallocations(D)
    PROVE  /\ FreedOK(allocation_history', num_snapshots)
           /\ \A k, s : s \in 1..num_snapshots =>
                LET fb == [d \in D |-> d.bytes]
                    fc == [d \in D |-> d.count]
                IN /\ FreedBytes(allocation_history', k, s)
                        = FreedBytes(allocation_history, k, s) + SumFunctionOnSet(fb, OfBefore(D, k, s))
                   /\ FreedCount(allocation_history', k, s)
                        = FreedCount(allocation_history, k, s) + SumFunctionOnSet(fc, OfBefore(D, k, s))
<1> DEFINE h == allocation_history
           h2 == allocation_history'
           S == Spanning(D)
           At(x) == {d \in S : d.where = x}
           known(x) == IF x \in DOMAIN h THEN h[x] ELSE None
           fb == [d \in D |-> d.bytes]
           fc == [d \in D |-> d.count]
           ub == [x \in DOMAIN h |-> h[x].bytes]
           uc == [x \in DOMAIN h |-> h[x].allocations]
           vb == [x \in DOMAIN h2 |-> h2[x].bytes]
           vc == [x \in DOMAIN h2 |-> h2[x].allocations]
<1>1. h2 = [x \in DOMAIN h \cup WheresOf(S) |->
              [bytes |-> known(x).bytes + SumFunction([d \in At(x) |-> d.bytes]),
               allocations |-> known(x).allocations + SumFunction([d \in At(x) |-> d.count])]]
  BY DEF RecordDeallocations, WheresOf, Spanning
<1>2. DOMAIN h2 = DOMAIN h \cup WheresOf(S)
  BY <1>1
<1>3. Adds(fb, D) /\ Adds(fc, D) /\ S \in SUBSET D
  BY DEF AreDeallocations, Adds, Spanning
<1>4. ASSUME NEW x
      PROVE  /\ SumFunction([d \in At(x) |-> d.bytes]) = SumFunctionOnSet(fb, At(x))
             /\ SumFunction([d \in At(x) |-> d.count]) = SumFunctionOnSet(fc, At(x))
             /\ SumFunctionOnSet(fb, At(x)) \in Int /\ SumFunctionOnSet(fc, At(x)) \in Int
  <2> DEFINE A == At(x)
             gb == [d \in A |-> d.bytes]
             gc == [d \in A |-> d.count]
  <2>1. A \in SUBSET D
    BY <1>3
  <2> HIDE DEF A
  <2>2. /\ gb = [d \in A |-> gb[d]] /\ gc = [d \in A |-> gc[d]]
        /\ \A d \in A : gb[d] = fb[d] /\ gc[d] = fc[d]
    BY <2>1
  <2> HIDE DEF gb, gc, fb, fc
  <2>3. Adds(fb, A) /\ Adds(fc, A)
    BY <1>3, <2>1, AddsPart
  <2>4. SumFunction(gb) = SumFunctionOnSet(fb, A) /\ SumFunction(gc) = SumFunctionOnSet(fc, A)
    BY <2>2, <2>3, SumOfAll
  <2>5. SumFunctionOnSet(fb, A) \in Int /\ SumFunctionOnSet(fc, A) \in Int
    BY <2>3, SumType
  <2> QED BY <2>4, <2>5 DEF gb, gc, A
<1>5. \A x \in DOMAIN h : h[x].bytes \in Int /\ h[x].allocations \in Int
  BY FreedIs
<1>6. ASSUME NEW x \in DOMAIN h2
      PROVE  /\ h2[x] \in Contributions
             /\ h2[x].bytes = (IF x \in DOMAIN h THEN h[x].bytes ELSE 0) + SumFunctionOnSet(fb, At(x))
             /\ h2[x].allocations
                  = (IF x \in DOMAIN h THEN h[x].allocations ELSE 0) + SumFunctionOnSet(fc, At(x))
  <2> DEFINE b == SumFunctionOnSet(fb, At(x))
             c == SumFunctionOnSet(fc, At(x))
  <2>1. h2[x] = [bytes |-> known(x).bytes + SumFunction([d \in At(x) |-> d.bytes]),
                 allocations |-> known(x).allocations + SumFunction([d \in At(x) |-> d.count])]
    BY <1>1, <1>2
  <2>2. /\ b \in Int /\ c \in Int
        /\ SumFunction([d \in At(x) |-> d.bytes]) = b /\ SumFunction([d \in At(x) |-> d.count]) = c
    BY <1>4
  <2> HIDE DEF b, c
  <2>3. h2[x] = [bytes |-> known(x).bytes + b, allocations |-> known(x).allocations + c]
    BY <2>1, <2>2
  <2>4. /\ known(x).bytes = IF x \in DOMAIN h THEN h[x].bytes ELSE 0
        /\ known(x).allocations = IF x \in DOMAIN h THEN h[x].allocations ELSE 0
    BY NoneType
  <2>5. known(x).bytes \in Int /\ known(x).allocations \in Int
    BY <1>5, <2>4
  <2> HIDE DEF known
  <2>6. h2[x] \in Contributions
    BY <2>2, <2>3, <2>5 DEF Contributions
  <2>7. h2[x].bytes = known(x).bytes + b /\ h2[x].allocations = known(x).allocations + c
    BY <2>3
  <2> QED BY <2>4, <2>6, <2>7 DEF b, c
<1>7. FreedOK(h2, num_snapshots)
  <2>1. IsFiniteSet(WheresOf(S))
    <3> DEFINE m == [d \in D |-> d.where]
    <3>1. IsFiniteSet(S)
      BY <1>3, FS_Subset DEF Adds
    <3>2. WheresOf(S) = {m[d] : d \in S}
      BY <1>3 DEF WheresOf
    <3> HIDE DEF S, m
    <3> QED BY <3>1, <3>2, ImageIsFinite
  <2>2. IsFiniteSet(DOMAIN h2)
    BY <1>2, <2>1, FS_Union DEF FreedOK
  <2>3. h2 \in [DOMAIN h2 -> Contributions]
    <3>1. \A x \in DOMAIN h2 : h2[x] \in Contributions
      BY <1>6
    <3>2. h2 = [x \in DOMAIN h2 |-> h2[x]]
      BY <1>1
    <3> HIDE DEF h2
    <3> QED BY <3>1, <3>2
  <2>4. \A x \in DOMAIN h2 : x[2] \in Nat /\ x[2] <= num_snapshots
    <3>1. \A x \in WheresOf(S) : x[2] = num_snapshots
      BY <1>3 DEF WheresOf, AreDeallocations
    <3> QED BY <1>2, <3>1 DEF FreedOK
  <2> QED BY <2>2, <2>3, <2>4 DEF FreedOK
<1>8. Recording(ub, fb, vb, D) /\ Recording(uc, fc, vc, D)
  <2>1. \A x \in DOMAIN h2 :
           /\ vb[x] = (IF x \in DOMAIN h THEN ub[x] ELSE 0) + SumFunctionOnSet(fb, At(x))
           /\ vc[x] = (IF x \in DOMAIN h THEN uc[x] ELSE 0) + SumFunctionOnSet(fc, At(x))
    BY <1>6
  <2> HIDE DEF ub, uc, vb, vc, fb, fc
  <2> QED BY <2>1 DEF Recording
<1>9. ASSUME NEW k, NEW s \in 1..num_snapshots
      PROVE  /\ FreedBytes(h2, k, s) = FreedBytes(h, k, s) + SumFunctionOnSet(fb, OfBefore(D, k, s))
             /\ FreedCount(h2, k, s) = FreedCount(h, k, s) + SumFunctionOnSet(fc, OfBefore(D, k, s))
  <2>1. /\ Adds(ub, FreedAcross(h, k, s)) /\ FreedBytes(h, k, s) = SumFunctionOnSet(ub, FreedAcross(h, k, s))
        /\ Adds(uc, FreedAcross(h, k, s)) /\ FreedCount(h, k, s) = SumFunctionOnSet(uc, FreedAcross(h, k, s))
    BY FreedIs
  <2>2. /\ FreedBytes(h2, k, s) = SumFunctionOnSet(vb, FreedAcross(h2, k, s))
        /\ FreedCount(h2, k, s) = SumFunctionOnSet(vc, FreedAcross(h2, k, s))
    BY <1>7, FreedIs
  <2> HIDE DEF fb, fc, ub, uc, vb, vc
  <2>3. SumFunctionOnSet(vb, FreedAcross(h2, k, s))
          = SumFunctionOnSet(ub, FreedAcross(h, k, s)) + SumFunctionOnSet(fb, OfBefore(D, k, s))
    BY <1>2, <1>3, <1>7, <1>8, <2>1, RecordingAddsUp
  <2>4. SumFunctionOnSet(vc, FreedAcross(h2, k, s))
          = SumFunctionOnSet(uc, FreedAcross(h, k, s)) + SumFunctionOnSet(fc, OfBefore(D, k, s))
    BY <1>2, <1>3, <1>7, <1>8, <2>1, RecordingAddsUp
  <2> QED BY <2>1, <2>2, <2>3, <2>4
<1> QED BY <1>7, <1>9

\* The intervals with some values.
OfValues(S, V) == {i \in S : i.value \in V}

\* munmap takes from the intervals with some values what it takes of them all.
LEMMA MunmapOfValues ==
    ASSUME NEW S, MappingsApart(S), NEW begin \in Nat, NEW end \in Nat, begin < end, NEW V
    PROVE  LET left == OfValues(RemoveInterval(S, begin, end), V)
               taken == OfValues(Removed(S, begin, end), V)
           IN /\ TotalSize(left) + TotalSize(taken) = TotalSize(OfValues(S, V))
              /\ TotalSize(left) \in Nat /\ TotalSize(taken) \in Nat
<1>1. \A i \in S : \A p \in Remainder(i, begin, end) : p.value = i.value
  BY DEF Remainder, Before, After
<1>2. OfValues(RemoveInterval(S, begin, end), V) = RemoveInterval(OfValues(S, V), begin, end)
  BY <1>1 DEF RemoveInterval, OfValues
<1>3. OfValues(Removed(S, begin, end), V) = Removed(OfValues(S, V), begin, end)
  BY DEF Removed, OfValues
<1>4. OfValues(S, V) \in SUBSET S
  BY DEF OfValues
<1>5. Spans(OfValues(S, V)) /\ Apart(OfValues(S, V))
  BY <1>4, SpansPart DEF MappingsApart, Apart
<1>6. MunmapTells(OfValues(S, V), begin, end)
  BY <1>5, Munmap
<1> QED BY <1>2, <1>3, <1>6, TotalSizeType DEF MunmapTells

\* What is taken is a piece of one interval, and one is taken of each that is met.
LEMMA TakenFrom ==
    ASSUME NEW S, Spans(S), NEW begin \in Nat, NEW end \in Nat, begin < end
    PROVE  /\ \A r \in Removed(S, begin, end) :
                 \E i \in S : Intersects(i, begin, end) /\ PieceOf(r, i) /\ r \in Took(i, begin, end)
           /\ \A i \in S : Intersects(i, begin, end) =>
                 \E r \in Removed(S, begin, end) : r.value = i.value
<1>1. ASSUME NEW i \in S
      PROVE  /\ Spans({i}) /\ Took(i, begin, end) \subseteq Removed(S, begin, end)
             /\ \A p \in Took(i, begin, end) : PieceOf(p, i)
  <2>1. Spans({i})
    <3>1. {i} \in SUBSET S
      OBVIOUS
    <3> QED BY <3>1, SpansPart
  <2>2. Took(i, begin, end) \subseteq Removed(S, begin, end)
    BY DEF Took, Removed
  <2> QED BY <2>1, <2>2, Pieces
<1>2. ASSUME NEW r \in Removed(S, begin, end)
      PROVE  \E i \in S : Intersects(i, begin, end) /\ r \in Took(i, begin, end)
  BY DEF Removed, Took
<1>3. ASSUME NEW i \in S, Intersects(i, begin, end)
      PROVE  \E r \in Removed(S, begin, end) : r.value = i.value
  <2>1. \E r \in Took(i, begin, end) : TRUE
    BY <1>3, RemovedOfOne
  <2> QED BY <1>1, <2>1 DEF PieceOf
<1> QED BY <1>1, <1>2, <1>3

\* One piece is taken from an interval.
LEMMA TookIsOne ==
    ASSUME NEW i, NEW begin, NEW end,
           NEW p \in Took(i, begin, end), NEW q \in Took(i, begin, end)
    PROVE  p = q
BY RemovedOfOne

\* Where they begin tells the pieces that are taken from each other.
LEMMA TakenApart ==
    ASSUME NEW S, MappingsApart(S), NEW begin \in Nat, NEW end \in Nat, begin < end,
           NEW p \in Removed(S, begin, end), NEW q \in Removed(S, begin, end), p.begin = q.begin
    PROVE  p = q
<1>1. PICK i \in S : PieceOf(p, i) /\ p \in Took(i, begin, end)
  BY TakenFrom DEF MappingsApart
<1>2. PICK j \in S : PieceOf(q, j) /\ q \in Took(j, begin, end)
  BY TakenFrom DEF MappingsApart
<1>3. CASE i = j
  BY <1>1, <1>2, <1>3, TookIsOne
<1>4. CASE i # j
  <2>1. ~Intersects(i, j.begin, j.end) /\ i.begin \in Nat /\ i.end \in Nat /\ j.begin \in Nat
        /\ j.end \in Nat
    BY <1>4 DEF MappingsApart, Apart, Spans
  <2>2. i.end <= j.begin \/ j.end <= i.begin \/ i.begin >= i.end \/ j.begin >= j.end
    BY <2>1 DEF Intersects, Max2, Min2
  <2>3. /\ p.begin \in Nat /\ p.end \in Nat /\ i.begin <= p.begin /\ p.begin < p.end /\ p.end <= i.end
    BY <1>1 DEF PieceOf
  <2>4. /\ q.begin \in Nat /\ q.end \in Nat /\ j.begin <= q.begin /\ q.begin < q.end /\ q.end <= j.end
    BY <1>2 DEF PieceOf
  <2>5. FALSE
    BY <2>1, <2>2, <2>3, <2>4
  <2> QED BY <2>5
<1> QED BY <1>3, <1>4

\* The pieces of one mapping.
OfId(S, i) == {m \in S : m.value.id = i}

\* A finite set has one element at least if it has one, and two if it has two.
LEMMA AtLeast ==
    ASSUME NEW S, IsFiniteSet(S)
    PROVE  /\ Cardinality(S) \in Nat
           /\ \A x \in S : Cardinality(S) >= 1
           /\ \A x, y \in S : x # y => Cardinality(S) >= 2
<1>1. Cardinality(S) \in Nat
  BY FS_CardinalityType
<1>2. ASSUME NEW x \in S
      PROVE  /\ Cardinality(S) >= 1
             /\ \A y \in S : x # y => Cardinality(S) >= 2
  <2>1. IsFiniteSet(S \ {x}) /\ Cardinality(S \ {x}) = Cardinality(S) - 1
        /\ Cardinality(S \ {x}) \in Nat
    BY FS_RemoveElement, FS_CardinalityType
  <2>2. ASSUME NEW y \in S, x # y PROVE Cardinality(S \ {x}) # 0
    BY <2>1, <2>2, FS_EmptySet
  <2> QED BY <1>1, <2>1, <2>2
<1> QED BY <1>1, <1>2

\* An Allocation is in use by each piece, removed or left.
LEMMA UseCountIs ==
    ASSUME NEW taken, IsFiniteSet(taken), NEW left, IsFiniteSet(left), NEW r \in taken
    PROVE  LET n == UseCount(r.value.id, taken, left) IN
           /\ n \in Nat /\ n >= 1
           /\ \A m \in left : m.value.id = r.value.id => n >= 2
           /\ \A q \in taken : q # r /\ q.value.id = r.value.id => n >= 2
<1> DEFINE R == OfId(taken, r.value.id)
           L == OfId(left, r.value.id)
<1>1. IsFiniteSet(R) /\ IsFiniteSet(L) /\ r \in R
  <2>1. R \in SUBSET taken /\ L \in SUBSET left /\ r \in R
    BY DEF OfId
  <2> HIDE DEF R, L
  <2> QED BY <2>1, FS_Subset
<1>2. UseCount(r.value.id, taken, left) = Cardinality(R) + Cardinality(L)
  BY DEF UseCount, OfId
<1>3. /\ \A m \in left : m.value.id = r.value.id => m \in L
      /\ \A q \in taken : q.value.id = r.value.id => q \in R
  BY DEF OfId
<1> HIDE DEF R, L
<1>4. Cardinality(R) \in Nat /\ Cardinality(L) \in Nat /\ Cardinality(R) >= 1
  BY <1>1, AtLeast
<1>5. ASSUME NEW m \in L PROVE Cardinality(L) >= 1
  BY <1>1, AtLeast
<1>6. ASSUME NEW q \in R, q # r PROVE Cardinality(R) >= 2
  BY <1>1, <1>6, AtLeast
<1> QED BY <1>2, <1>3, <1>4, <1>5, <1>6

\* munmap makes no values.
LEMMA ValuesStay ==
    ASSUME NEW t, MappingsApart(t), NEW begin \in Nat, NEW end \in Nat, begin < end
    PROVE  LET left == RemoveInterval(t, begin, end)
               taken == Removed(t, begin, end)
           IN /\ MappingsApart(left) /\ Spans(taken)
              /\ \A p \in left : \E m \in t : PieceOf(p, m) /\ p.value = m.value
              /\ \A p \in taken : \E m \in t : PieceOf(p, m) /\ p.value = m.value
<1> DEFINE left == RemoveInterval(t, begin, end)
           taken == Removed(t, begin, end)
<1>1. MunmapTells(t, begin, end)
  BY Munmap DEF MappingsApart
<1>2. MappingsApart(left) /\ Spans(taken) /\ PiecesOf(left, t) /\ PiecesOf(taken, t)
  BY <1>1 DEF MunmapTells, MappingsApart
<1> HIDE DEF left, taken
<1>3. /\ \A p \in left : \E m \in t : PieceOf(p, m) /\ p.value = m.value
      /\ \A p \in taken : \E m \in t : PieceOf(p, m) /\ p.value = m.value
  BY <1>2 DEF PiecesOf, PieceOf
<1> QED BY <1>2, <1>3 DEF left, taken

\* So its table is one of mappings, still.
LEMMA MappedRemoved ==
    ASSUME NEW n \in Nat, NEW t, MappedOK(t, n),
           NEW begin \in Nat, NEW end \in Nat, begin < end
    PROVE  MappedOK(RemoveInterval(t, begin, end), n)
<1> DEFINE left == RemoveInterval(t, begin, end)
<1>1. MappingsApart(left) /\ \A p \in left : \E m \in t : p.value = m.value
  BY ValuesStay DEF MappedOK
<1> HIDE DEF left
<1>2. /\ \A p \in left : p.value.key \in RangedKeys /\ p.value.generation \in 0..n
      /\ \A p, q \in left : p.value.id = q.value.id => p.value = q.value
  BY <1>1 DEF MappedOK
<1> QED BY <1>1, <1>2 DEF MappedOK, left

\* What is left and what is taken of what was allocated before a snapshot.
LEMMA BytesOfMunmap ==
    ASSUME NEW n \in Nat, NEW t, MappedOK(t, n),
           NEW begin \in Nat, NEW end \in Nat, begin < end, NEW k, NEW s
    PROVE  LET left == RangedBefore(RemoveInterval(t, begin, end), k, s)
               taken == RangedBefore(Removed(t, begin, end), k, s)
           IN /\ TotalSize(left) + TotalSize(taken) = TotalSize(RangedBefore(t, k, s))
              /\ TotalSize(left) \in Nat /\ TotalSize(taken) \in Nat
<1> DEFINE U == {m.value : m \in t}
           V == {v \in U : v.key = k /\ v.generation < s}
           left == RemoveInterval(t, begin, end)
           taken == Removed(t, begin, end)
<1>1. MappingsApart(t)
  BY DEF MappedOK
<1>2. /\ \A p \in left : p.value \in U
      /\ \A p \in taken : p.value \in U
      /\ \A p \in t : p.value \in U
  <2>1. /\ \A p \in left : \E m \in t : p.value = m.value
        /\ \A p \in taken : \E m \in t : p.value = m.value
    BY <1>1, ValuesStay
  <2> QED BY <2>1
<1> HIDE DEF U, left, taken
<1>3. /\ RangedBefore(left, k, s) = OfValues(left, V)
      /\ RangedBefore(taken, k, s) = OfValues(taken, V)
      /\ RangedBefore(t, k, s) = OfValues(t, V)
  BY <1>2 DEF RangedBefore, OfValues
<1> HIDE DEF V
<1>4. /\ TotalSize(OfValues(left, V)) + TotalSize(OfValues(taken, V)) = TotalSize(OfValues(t, V))
      /\ TotalSize(OfValues(left, V)) \in Nat /\ TotalSize(OfValues(taken, V)) \in Nat
  BY <1>1, MunmapOfValues DEF left, taken
<1> QED BY <1>3, <1>4 DEF left, taken

\* The mappings that munmap frees are those of which it takes a piece that
\* counts, if it takes no more than one that is left of each.
LEMMA CountOfMunmap ==
    ASSUME NEW n \in Nat, NEW t, MappedOK(t, n),
           NEW begin \in Nat, NEW end \in Nat, begin < end, NEW k, NEW s,
           NEW left, left = RemoveInterval(t, begin, end),
           NEW taken, taken = Removed(t, begin, end),
           NEW c, \A r \in taken : c[r] = IF UseCount(r.value.id, taken, left) = 1 THEN 1 ELSE 0,
           \A v \in {r.value : r \in taken} \ {m.value : m \in left} :
              v.key = k => ~(UseCount(v.id, taken, left) > 1)
    PROVE  Cardinality(IdsOf(RangedBefore(t, k, s)))
             = Cardinality(IdsOf(RangedBefore(left, k, s)))
                 + SumFunctionOnSet(c, RangedBefore(taken, k, s))
<1> DEFINE A == IdsOf(RangedBefore(t, k, s))
           B == IdsOf(RangedBefore(left, k, s))
           R == RangedBefore(taken, k, s)
           C == {r \in R : c[r] = 1}
           m == [r \in R |-> r.value.id]
           one == [i \in A |-> 1]
<1>1. /\ MappingsApart(t) /\ Spans(t) /\ Spans(taken) /\ Spans(left)
      /\ \A p \in left : \E q \in t : PieceOf(p, q) /\ p.value = q.value
      /\ \A p \in taken : \E q \in t : PieceOf(p, q) /\ p.value = q.value
  <2>1. MappingsApart(t)
    BY DEF MappedOK
  <2> QED BY <2>1, ValuesStay DEF MappingsApart
<1>2. \A p, q \in t : p.value.id = q.value.id => p.value = q.value
  BY DEF MappedOK
<1>3. IsFiniteSet(taken) /\ IsFiniteSet(left) /\ IsFiniteSet(t)
  BY <1>1 DEF Spans
<1>4. \A r \in taken :
        LET u == UseCount(r.value.id, taken, left) IN
        /\ u \in Nat /\ u >= 1
        /\ \A p \in left : p.value.id = r.value.id => u >= 2
        /\ \A q \in taken : q # r /\ q.value.id = r.value.id => u >= 2
  BY <1>3, UseCountIs
<1>5. R \in SUBSET taken /\ C \in SUBSET R /\ \A r \in R : c[r] \in 0..1
  BY DEF RangedBefore
<1>6. B \in SUBSET A
  BY <1>1 DEF IdsOf, RangedBefore
<1>7. ASSUME NEW r \in C PROVE r.value.id \in A \ B
  <2>1. UseCount(r.value.id, taken, left) = 1 /\ r \in taken
    BY <1>5
  <2>2. r.value.id \in A
    BY <1>1, <1>5 DEF IdsOf, RangedBefore
  <2>3. \A p \in left : p.value.id # r.value.id
    BY <1>4, <2>1
  <2>4. r.value.id \notin B
    BY <2>3 DEF IdsOf, RangedBefore
  <2> QED BY <2>2, <2>4
<1>8. ASSUME NEW r \in C, NEW q \in C, r.value.id = q.value.id PROVE r = q
  <2>1. UseCount(r.value.id, taken, left) = 1 /\ r \in taken /\ q \in taken
    BY <1>5
  <2> QED BY <1>4, <1>8, <2>1
<1>9. ASSUME NEW i \in A \ B PROVE \E r \in C : r.value.id = i
  <2>1. PICK q \in t : q.value.id = i /\ q.value.key = k /\ q.value.generation < s
    BY DEF IdsOf, RangedBefore
  <2>2. \A p \in left : p.value.id # i
    <3> SUFFICES ASSUME NEW p \in left, p.value.id = i PROVE FALSE
      OBVIOUS
    <3>1. p.value = q.value
      BY <1>1, <1>2, <2>1
    <3>2. i \in B
      BY <2>1, <3>1 DEF IdsOf, RangedBefore
    <3> QED BY <3>2
  <2>3. Intersects(q, begin, end)
    <3> SUFFICES ASSUME ~Intersects(q, begin, end) PROVE FALSE
      OBVIOUS
    <3>1. q \in left
      BY DEF RemoveInterval
    <3> QED BY <2>1, <2>2, <3>1
  <2>4. PICK r \in taken : r.value = q.value
    BY <1>1, <2>3, TakenFrom
  <2>5. r.value \notin {p.value : p \in left}
    BY <2>1, <2>2, <2>4
  <2>6. ~(UseCount(r.value.id, taken, left) > 1)
    BY <2>1, <2>4, <2>5
  <2>7. UseCount(r.value.id, taken, left) = 1
    BY <1>4, <2>6
  <2>8. c[r] = 1
    BY <2>7
  <2> QED BY <2>1, <2>4, <2>8 DEF RangedBefore
<1>10. IsFiniteSet(A)
  <2> DEFINE f == [p \in t |-> p.value.id]
             F == {f[p] : p \in t}
  <2>1. A \subseteq F
    BY DEF IdsOf, RangedBefore
  <2>2. IsFiniteSet(F)
    <3> HIDE DEF f
    <3> QED BY <1>3, ImageIsFinite
  <2> HIDE DEF A, F
  <2> QED BY <2>1, <2>2, FS_Subset
<1>11. IsFiniteSet(R)
  BY <1>3, <1>5, FS_Subset
<1>12. {m[r] : r \in C} = A \ B
  BY <1>5, <1>7, <1>9
<1>13. \A r, q \in C : m[r] = m[q] => r = q
  BY <1>5, <1>8
<1>14. \A r \in C : one[m[r]] = c[r]
  BY <1>5, <1>7
<1>15. \A r \in R \ C : c[r] = 0
  BY <1>5
<1>16. \A i \in A \ B : one[i] = 1
  OBVIOUS
<1> HIDE DEF A, B, R, C, m, one
<1>17. Adds(c, C) /\ Adds(c, R \ C)
  BY <1>5, <1>11, FS_Subset DEF Adds
<1>18. SumFunctionOnSet(c, R) = SumFunctionOnSet(c, C) + SumFunctionOnSet(c, R \ C)
  <2> DEFINE D == R \ C
  <2>1. C \cap D = {} /\ R = C \cup D
    BY <1>5
  <2> HIDE DEF D
  <2>2. SumFunctionOnSet(c, C \cup D) = SumFunctionOnSet(c, C) + SumFunctionOnSet(c, D)
    BY <1>17, <2>1, SumOfUnion DEF D
  <2> QED BY <2>1, <2>2 DEF D
<1>19. SumFunctionOnSet(c, R \ C) = 0
  BY <1>15, <1>17, SumOfZeros DEF Adds
<1>20. SumFunctionOnSet(one, A \ B) = SumFunctionOnSet(c, C)
  BY <1>12, <1>13, <1>14, <1>17, SumOfImage
<1>21. SumFunctionOnSet(one, A \ B) = Cardinality(A \ B)
  BY <1>10, <1>16, FS_Difference, SumOfOnes
<1>22. Cardinality(A \ B) = Cardinality(A) - Cardinality(B) /\ Cardinality(A) \in Nat
       /\ Cardinality(B) \in Nat
  <2>1. A \cap B = B
    BY <1>6
  <2>2. IsFiniteSet(B)
    BY <1>6, <1>10, FS_Subset
  <2>3. Cardinality(A) \in Nat /\ Cardinality(B) \in Nat
    BY <1>10, <2>2, FS_CardinalityType
  <2>4. Cardinality(A \ B) = Cardinality(A) - Cardinality(A \cap B)
    BY <1>10, FS_Difference
  <2> QED BY <2>1, <2>3, <2>4
<1>23. SumFunctionOnSet(c, C) \in Int
  BY <1>17, SumType
<1>24. Cardinality(A) = Cardinality(B) + SumFunctionOnSet(c, R)
  BY <1>18, <1>19, <1>20, <1>21, <1>22, <1>23
<1> QED BY <1>24 DEF A, B, R

\* A new id is nobody's.
LEMMA NewIdIsNew ==
    ASSUME IsFiniteSet(mapped)
    PROVE  \A m \in mapped : m.value.id # NewId
<1> DEFINE f == [m \in mapped |-> m.value.id]
           T == {f[m] : m \in mapped}
           S == 0..Cardinality(mapped)
<1>1. Cardinality(mapped) \in Nat
  BY FS_CardinalityType
<1>2. IsFiniteSet(S) /\ Cardinality(S) = Cardinality(mapped) + 1
  BY <1>1, FS_Interval
<1>3. f \in Surjection(mapped, T)
  BY DEF Surjection
<1> HIDE DEF T
<1>4. IsFiniteSet(T) /\ Cardinality(T) <= Cardinality(mapped) /\ Cardinality(T) \in Nat
  BY <1>3, FS_Surjection, FS_CardinalityType
<1>5. ~(S \subseteq T)
  <2> SUFFICES ASSUME S \subseteq T PROVE FALSE
    OBVIOUS
  <2> HIDE DEF S
  <2>1. Cardinality(S) <= Cardinality(T)
    BY <1>4, FS_Subset
  <2> QED BY <1>1, <1>2, <1>4, <2>1
<1>6. \E i \in S : \A m \in mapped : m.value.id # i
  BY <1>5 DEF T
<1> QED BY <1>6 DEF NewId

\* mmap is none of what was allocated before the last snapshot.
LEMMA MappedAdded ==
    ASSUME NEW n \in Nat, NEW t, MappedOK(t, n), NEW begin \in Nat, NEW end \in Nat, begin < end,
           \A m \in t : ~Intersects(m, begin, end), NEW key \in RangedKeys,
           NEW id, \A m \in t : m.value.id # id
    PROVE  LET t2 == AddInterval(t, begin, end, [key |-> key, generation |-> n, id |-> id]) IN
           /\ MappedOK(t2, n)
           /\ \A m \in t2 : m \in t \/ (m.begin = begin /\ m.end = end)
           /\ \A k, s : s <= n /\ s \in Nat => RangedBefore(t2, k, s) = RangedBefore(t, k, s)
<1> DEFINE v == [key |-> key, generation |-> n, id |-> id]
           i == [begin |-> begin, end |-> end, value |-> v]
           t2 == AddInterval(t, begin, end, v)
<1>1. v.key = key /\ v.generation = n /\ v.id = id
  OBVIOUS
<1>2. i.begin = begin /\ i.end = end /\ i.value = v
  OBVIOUS
<1>3. t2 = t \cup {i}
  BY DEF AddInterval
<1> HIDE DEF v, i, t2
<1>4. MappingsApart(t2)
  <2>1. Spans(t) /\ Apart(t)
    BY DEF MappedOK, MappingsApart
  <2>2. Spans({i})
    BY <1>2, FS_Singleton DEF Spans
  <2>3. \A m \in t : ~Intersects(m, i.begin, i.end) /\ ~Intersects(i, m.begin, m.end)
    BY <1>2, <2>1 DEF Intersects, Max2, Min2, Spans
  <2> QED BY <1>3, <2>1, <2>2, <2>3, SpansUnion DEF MappingsApart, Apart
<1>5. /\ \A m \in t2 : m.value.key \in RangedKeys /\ m.value.generation \in 0..n
      /\ \A m, o \in t2 : m.value.id = o.value.id => m.value = o.value
  BY <1>1, <1>2, <1>3 DEF MappedOK
<1>6. \A m \in t2 : m \in t \/ (m.begin = begin /\ m.end = end)
  BY <1>2, <1>3
<1>7. ASSUME NEW k, NEW s \in Nat, s <= n PROVE RangedBefore(t2, k, s) = RangedBefore(t, k, s)
  <2>1. ~(n < s)
    BY <1>7
  <2> QED BY <1>1, <1>2, <1>3, <2>1 DEF RangedBefore
<1>8. MappedOK(t2, n)
  BY <1>4, <1>5 DEF MappedOK
<1> QED BY <1>6, <1>7, <1>8 DEF t2, v

\* The sum of what each generation has, where the elements of S are each of one.
LEMMA SumByGeneration ==
    ASSUME NEW f, NEW S, Adds(f, S), NEW m, NEW s \in Nat, \A x \in S : m[x] \in 0..s - 1,
           NEW e, e = [g \in 0..s - 1 |-> SumFunctionOnSet(f, {x \in S : m[x] = g})]
    PROVE  Adds(e, 0..s - 1) /\ SumFunctionOnSet(e, 0..s - 1) = SumFunctionOnSet(f, S)
<1> DEFINE G == 0..s - 1
           g == [k \in G |-> SumFunctionOnSet(f, {x \in S : m[x] = k})]
<1>1. IsFiniteSet(G) /\ \A x \in S : m[x] \in G
  BY FS_Interval
<1>2. e = g
  OBVIOUS
<1> HIDE DEF G
<1>3. Adds(g, G) /\ SumFunctionOnSet(g, G) = SumFunctionOnSet(f, S)
  BY <1>1, SumOfGroups
<1> QED BY <1>2, <1>3 DEF G

\* Blocks of one generation.
SimpleSince(p, k, g) ==
    {a \in Addresses : p[a] # Nothing /\ p[a].key = k /\ p[a].generation = g}
RangedSince(t, k, g) == {m \in t : m.value.key = k /\ m.value.generation = g}

\* The generations before a snapshot have what was allocated before it: the
\* bytes of its blocks, and their number.
LEMMA SimpleByGeneration ==
    ASSUME NEW n \in Nat, NEW p, AllocatedOK(p, n), NEW k, NEW s \in Nat,
           NEW eb, eb = [g \in 0..s - 1 |-> SizesAt(p, SimpleSince(p, k, g))],
           NEW ec, ec = [g \in 0..s - 1 |-> Cardinality(SimpleSince(p, k, g))]
    PROVE  /\ Adds(eb, 0..s - 1)
           /\ SumFunctionOnSet(eb, 0..s - 1) = SizesAt(p, SimpleBefore(p, k, s))
           /\ Adds(ec, 0..s - 1)
           /\ SumFunctionOnSet(ec, 0..s - 1) = Cardinality(SimpleBefore(p, k, s))
<1> DEFINE S == SimpleBefore(p, k, s)
           f == [a \in Addresses |-> p[a].size]
           one == [a \in Addresses |-> 1]
           m == [a \in Addresses |-> p[a].generation]
           Of(g) == {a \in S : m[a] = g}
<1>1. S \in SUBSET Addresses /\ \A a \in S : p[a] # Nothing
  BY BeforeAreBlocks
<1>2. \A a \in S : m[a] \in 0..s - 1
  <2> SUFFICES ASSUME NEW a \in S PROVE p[a].generation \in 0..s - 1
    BY <1>1
  <2>1. p[a].generation \in 0..n /\ p[a].generation < s
    BY <1>1, BlockIs DEF SimpleBefore
  <2> QED BY <2>1
<1>3. \A g \in 0..s - 1 : SimpleSince(p, k, g) = Of(g)
  BY DEF SimpleSince, SimpleBefore
<1>4. \A a \in S : one[a] = 1
  BY <1>1
<1> HIDE DEF S, f, one, m
<1>5. IsFiniteSet(S) /\ Adds(f, S) /\ SizesAt(p, S) = SumFunctionOnSet(f, S)
  BY <1>1, SizesAtIs DEF f
<1>6. Adds(one, S) /\ SumFunctionOnSet(one, S) = Cardinality(S)
  BY <1>4, <1>5, SumOfOnes DEF Adds
<1>7. ASSUME NEW g \in 0..s - 1
      PROVE  /\ SizesAt(p, SimpleSince(p, k, g)) = SumFunctionOnSet(f, Of(g))
             /\ Cardinality(SimpleSince(p, k, g)) = SumFunctionOnSet(one, Of(g))
  <2> DEFINE T == Of(g)
  <2>1. T \in SUBSET S
    OBVIOUS
  <2> HIDE DEF T
  <2>2. T \in SUBSET Addresses /\ \A a \in T : p[a] # Nothing
    BY <1>1, <2>1
  <2>3. SizesAt(p, T) = SumFunctionOnSet(f, T)
    BY <2>2, SizesAtIs DEF f
  <2>4. IsFiniteSet(T) /\ \A a \in T : one[a] = 1
    BY <1>4, <1>5, <2>1, FS_Subset
  <2>5. SumFunctionOnSet(one, T) = Cardinality(T)
    BY <2>4, SumOfOnes
  <2> QED BY <1>3, <2>3, <2>5 DEF T
<1>8. /\ eb = [g \in 0..s - 1 |-> SumFunctionOnSet(f, {a \in S : m[a] = g})]
      /\ ec = [g \in 0..s - 1 |-> SumFunctionOnSet(one, {a \in S : m[a] = g})]
  BY <1>7
<1>9. Adds(eb, 0..s - 1) /\ SumFunctionOnSet(eb, 0..s - 1) = SumFunctionOnSet(f, S)
  BY <1>2, <1>5, <1>8, SumByGeneration
<1>10. Adds(ec, 0..s - 1) /\ SumFunctionOnSet(ec, 0..s - 1) = SumFunctionOnSet(one, S)
  BY <1>2, <1>6, <1>8, SumByGeneration
<1> QED BY <1>5, <1>6, <1>9, <1>10 DEF S

\* The mappings of a key from before snapshot s, added up one snapshot of
\* allocation after the other.
LEMMA RangedByGeneration ==
    ASSUME NEW n \in Nat, NEW t, MappedOK(t, n), NEW k, NEW s \in Nat,
           NEW eb, eb = [g \in 0..s - 1 |-> TotalSize(RangedSince(t, k, g))],
           NEW ec, ec = [g \in 0..s - 1 |-> Cardinality(IdsOf(RangedSince(t, k, g)))]
    PROVE  /\ Adds(eb, 0..s - 1)
           /\ SumFunctionOnSet(eb, 0..s - 1) = TotalSize(RangedBefore(t, k, s))
           /\ Adds(ec, 0..s - 1)
           /\ SumFunctionOnSet(ec, 0..s - 1) = Cardinality(IdsOf(RangedBefore(t, k, s)))
<1> DEFINE S == RangedBefore(t, k, s)
           I == IdsOf(S)
           f == [i \in t |-> Size(i)]
           one == [i \in I |-> 1]
           m == [i \in t |-> i.value.generation]
           owner == [i \in I |-> CHOOSE j \in t : j.value.id = i]
           o == [i \in I |-> owner[i].value.generation]
           Of(g) == {i \in S : m[i] = g}
           OfI(g) == {i \in I : o[i] = g}
<1>0. Spans(t) /\ \A i, j \in t : i.value.id = j.value.id => i.value = j.value
  BY DEF MappedOK, MappingsApart
<1>1. S \in SUBSET t
  BY DEF RangedBefore
<1>2. \A i \in S : m[i] \in 0..s - 1
  <2> SUFFICES ASSUME NEW i \in S PROVE i.value.generation \in 0..s - 1
    BY <1>1
  <2>1. i.value.generation \in 0..n /\ i.value.generation < s
    BY <1>1 DEF RangedBefore, MappedOK
  <2> QED BY <2>1
<1>3. \A g \in 0..s - 1 : RangedSince(t, k, g) = Of(g)
  BY DEF RangedSince, RangedBefore
<1>4. \A i \in S : i.value.id \in I /\ o[i.value.id] = m[i]
  <2> SUFFICES ASSUME NEW i \in S PROVE i.value.id \in I /\ o[i.value.id] = m[i]
    OBVIOUS
  <2>1. i \in t /\ i.value.id \in I
    BY <1>1 DEF IdsOf
  <2>2. owner[i.value.id] \in t /\ owner[i.value.id].value.id = i.value.id
    BY <2>1
  <2>3. owner[i.value.id].value = i.value
    BY <1>0, <2>1, <2>2
  <2> HIDE DEF owner, I
  <2> QED BY <2>1, <2>3
<1>5. \A i \in I : o[i] \in 0..s - 1
  <2> SUFFICES ASSUME NEW i \in I PROVE o[i] \in 0..s - 1
    OBVIOUS
  <2>1. PICK j \in S : j.value.id = i
    BY DEF IdsOf
  <2> HIDE DEF o, m, S
  <2> QED BY <1>2, <1>4, <2>1
<1>6. \A i \in I : one[i] = 1
  OBVIOUS
<1>7. \A g \in 0..s - 1 : IdsOf(Of(g)) = OfI(g)
  <2> SUFFICES ASSUME NEW g \in 0..s - 1 PROVE IdsOf(Of(g)) = OfI(g)
    OBVIOUS
  <2> HIDE DEF o, m
  <2>1. I = {i.value.id : i \in S}
    BY DEF IdsOf
  <2> HIDE DEF I, S
  <2> QED BY <1>4, <2>1 DEF IdsOf
<1> HIDE DEF S, f, one, m, I, o, owner
<1>8. Adds(f, S) /\ TotalSize(S) = SumFunctionOnSet(f, S) /\ IsFiniteSet(S)
  BY <1>0, <1>1, TotalSizeIs, FS_Subset DEF f, Spans
<1>9. IsFiniteSet(I)
  <2> DEFINE h == [i \in S |-> i.value.id]
  <2>1. I = {h[i] : i \in S}
    BY DEF I, IdsOf
  <2> HIDE DEF h
  <2> QED BY <1>8, <2>1, ImageIsFinite
<1>10. Adds(one, I) /\ SumFunctionOnSet(one, I) = Cardinality(I)
  BY <1>6, <1>9, SumOfOnes DEF Adds
<1>11. ASSUME NEW g \in 0..s - 1
       PROVE  /\ TotalSize(RangedSince(t, k, g)) = SumFunctionOnSet(f, Of(g))
              /\ Cardinality(IdsOf(RangedSince(t, k, g))) = SumFunctionOnSet(one, OfI(g))
  <2> DEFINE T == Of(g)
             J == OfI(g)
  <2>1. T \in SUBSET t /\ J \in SUBSET I
    BY <1>1
  <2>2. IdsOf(T) = J /\ RangedSince(t, k, g) = T
    BY <1>3, <1>7
  <2> HIDE DEF T, J
  <2>3. TotalSize(T) = SumFunctionOnSet(f, T)
    BY <1>0, <2>1, TotalSizeIs DEF f
  <2>4. IsFiniteSet(J) /\ \A i \in J : one[i] = 1
    BY <1>6, <1>9, <2>1, FS_Subset
  <2>5. SumFunctionOnSet(one, J) = Cardinality(J)
    BY <2>4, SumOfOnes
  <2> QED BY <2>2, <2>3, <2>5 DEF T, J
<1>12. /\ eb = [g \in 0..s - 1 |-> SumFunctionOnSet(f, {i \in S : m[i] = g})]
       /\ ec = [g \in 0..s - 1 |-> SumFunctionOnSet(one, {i \in I : o[i] = g})]
  BY <1>11
<1>13. Adds(eb, 0..s - 1) /\ SumFunctionOnSet(eb, 0..s - 1) = SumFunctionOnSet(f, S)
  BY <1>2, <1>8, <1>12, SumByGeneration
<1>14. Adds(ec, 0..s - 1) /\ SumFunctionOnSet(ec, 0..s - 1) = SumFunctionOnSet(one, I)
  BY <1>5, <1>10, <1>12, SumByGeneration
<1> QED BY <1>8, <1>10, <1>13, <1>14 DEF S, I

\* generateIndex has, for a snapshot, what was freed across it and what was
\* allocated before it and never freed.
LEMMA LifetimesAre ==
    ASSUME NEW n \in Nat, AllocatedOK(allocated, n), MappedOK(mapped, n), NEW k, NEW s \in Nat
    PROVE  /\ InLifetimes(k, s).bytes
                = FreedBytes(allocation_history, k, s) + BytesBefore(allocated, mapped, k, s)
           /\ InLifetimes(k, s).allocations
                = FreedCount(allocation_history, k, s) + CountBefore(allocated, mapped, k, s)
<1> DEFINE G == 0..s - 1
           leaked == [g \in G |-> LeakedSince(k, g).bytes]
           number == [g \in G |-> LeakedSince(k, g).allocations]
           sb == [g \in 0..s - 1 |-> SizesAt(allocated, SimpleSince(allocated, k, g))]
           sc == [g \in 0..s - 1 |-> Cardinality(SimpleSince(allocated, k, g))]
           rb == [g \in 0..s - 1 |-> TotalSize(RangedSince(mapped, k, g))]
           rc == [g \in 0..s - 1 |-> Cardinality(IdsOf(RangedSince(mapped, k, g)))]
<1>1. /\ InLifetimes(k, s).bytes = FreedBytes(allocation_history, k, s) + SumFunction(leaked)
      /\ InLifetimes(k, s).allocations = FreedCount(allocation_history, k, s) + SumFunction(number)
  BY DEF InLifetimes, FreedBytes, FreedCount, FreedAcross
<1>2. \A g \in G : leaked[g] = sb[g] + rb[g] /\ number[g] = sc[g] + rc[g]
  BY DEF LeakedSince, SizesAt, SimpleSince, RangedSince, IdsOf
<1>3. leaked = [g \in G |-> leaked[g]] /\ number = [g \in G |-> number[g]]
  OBVIOUS
<1>4. /\ Adds(sb, G) /\ SumFunctionOnSet(sb, G) = SizesAt(allocated, SimpleBefore(allocated, k, s))
      /\ Adds(sc, G) /\ SumFunctionOnSet(sc, G) = Cardinality(SimpleBefore(allocated, k, s))
  BY SimpleByGeneration
<1>5. /\ Adds(rb, G) /\ SumFunctionOnSet(rb, G) = TotalSize(RangedBefore(mapped, k, s))
      /\ Adds(rc, G) /\ SumFunctionOnSet(rc, G) = Cardinality(IdsOf(RangedBefore(mapped, k, s)))
  BY RangedByGeneration
<1> HIDE DEF G, leaked, number, sb, sc, rb, rc
<1>6. /\ Adds(leaked, G)
      /\ SumFunctionOnSet(leaked, G) = SumFunctionOnSet(sb, G) + SumFunctionOnSet(rb, G)
  BY <1>2, <1>4, <1>5, SumOfTwo
<1>7. /\ Adds(number, G)
      /\ SumFunctionOnSet(number, G) = SumFunctionOnSet(sc, G) + SumFunctionOnSet(rc, G)
  BY <1>2, <1>4, <1>5, SumOfTwo
<1>8. SumFunction(leaked) = SumFunctionOnSet(leaked, G) /\ SumFunction(number) = SumFunctionOnSet(number, G)
  BY <1>3, <1>6, <1>7, SumOfAll
<1> QED BY <1>1, <1>4, <1>5, <1>6, <1>7, <1>8 DEF BytesBefore, CountBefore

\* What is live now was all allocated before the next snapshot.
LEMMA LiveIs ==
    ASSUME NEW n \in Nat, AllocatedOK(allocated, n), MappedOK(mapped, n), NEW k
    PROVE  /\ LiveNow(k).bytes = BytesBefore(allocated, mapped, k, n + 1)
           /\ LiveNow(k).allocations = CountBefore(allocated, mapped, k, n + 1)
<1>1. {a \in Addresses : allocated[a] # Nothing /\ allocated[a].key = k}
        = SimpleBefore(allocated, k, n + 1)
  <2>1. \A a \in Addresses : allocated[a] # Nothing => allocated[a].generation < n + 1
    <3>1. \A a \in Addresses : allocated[a] # Nothing => allocated[a].generation \in 0..n
      BY BlockIs
    <3> QED BY <3>1
  <2> QED BY <2>1 DEF SimpleBefore
<1>2. {m \in mapped : m.value.key = k} = RangedBefore(mapped, k, n + 1)
  <2>1. \A m \in mapped : m.value.generation < n + 1
    <3>1. \A m \in mapped : m.value.generation \in 0..n
      BY DEF MappedOK
    <3> QED BY <3>1
  <2> QED BY <2>1 DEF RangedBefore
<1> QED BY <1>1, <1>2 DEF LiveNow, BytesBefore, CountBefore, SizesAt, IdsOf

\* The parts of what was allocated before a snapshot are numbers.
LEMMA BeforeTypes ==
    ASSUME NEW n \in Nat, NEW p, AllocatedOK(p, n), NEW t, MappedOK(t, n), NEW k, NEW s
    PROVE  /\ SizesAt(p, SimpleBefore(p, k, s)) \in Nat
           /\ TotalSize(RangedBefore(t, k, s)) \in Nat
           /\ Cardinality(SimpleBefore(p, k, s)) \in Nat
           /\ Cardinality(IdsOf(RangedBefore(t, k, s))) \in Nat
<1> DEFINE S == SimpleBefore(p, k, s)
           R == RangedBefore(t, k, s)
           f == [m \in R |-> m.value.id]
<1>1. S \in SUBSET Addresses /\ \A a \in S : p[a] # Nothing
  BY BeforeAreBlocks
<1>2. Spans(t) /\ R \in SUBSET t
  BY DEF MappedOK, MappingsApart, RangedBefore
<1>3. IdsOf(R) = {f[m] : m \in R}
  BY DEF IdsOf
<1> HIDE DEF S, R, f
<1>4. IsFiniteSet(S) /\ SizesAt(p, S) \in Nat
  BY <1>1, SizesAtIs
<1>5. Spans(R)
  BY <1>2, SpansPart
<1>6. TotalSize(R) \in Nat /\ IsFiniteSet(R)
  BY <1>5, TotalSizeType DEF Spans
<1>7. IsFiniteSet(IdsOf(R))
  BY <1>3, <1>6, ImageIsFinite
<1> QED BY <1>4, <1>6, <1>7, FS_CardinalityType DEF S, R

\* malloc, and nothing that is told of a snapshot changes.
LEMMA SimpleKeeps ==
    ASSUME NEW n, NEW h, NEW p, NEW t, NEW live, NEW none, LifetimeOK(n, h, p, t, live, none),
           NEW a \in Addresses, p[a] = Nothing, NEW key \in SimpleKeys, NEW size \in Sizes,
           NEW q, Sets(q, p, a, Block(key, size, n))
    PROVE  LifetimeOK(n, h, q, t, live, none)
<1>1. /\ n \in Nat /\ live \in Seq([Keys -> Contributions]) /\ Len(live) = n
      /\ FreedOK(h, n) /\ AllocatedOK(p, n) /\ MappedOK(t, n)
      /\ \A s \in 1..n, k \in Keys : Balanced(h, p, t, k, s, live[s][k], k \notin none)
  BY DEF LifetimeOK
<1>2. n \in Nat /\ AllocatedOK(p, n)
  BY <1>1
<1>3. /\ AllocatedOK(q, n)
      /\ \A k, s : s <= n /\ s \in Nat =>
           /\ SimpleBefore(q, k, s) = SimpleBefore(p, k, s)
           /\ SizesAt(q, SimpleBefore(q, k, s)) = SizesAt(p, SimpleBefore(p, k, s))
  BY <1>2, BlockAdded
<1>4. ASSUME NEW s \in 1..n, NEW k \in Keys
      PROVE  Balanced(h, q, t, k, s, live[s][k], k \notin none)
  <2>1. Balanced(h, p, t, k, s, live[s][k], k \notin none)
    BY <1>1
  <2>2. s <= n /\ s \in Nat
    BY <1>2
  <2>3. /\ SimpleBefore(q, k, s) = SimpleBefore(p, k, s)
        /\ SizesAt(q, SimpleBefore(q, k, s)) = SizesAt(p, SimpleBefore(p, k, s))
    BY <1>3, <2>2
  <2> QED BY <2>1, <2>3 DEF Balanced, BytesBefore, CountBefore
<1> QED BY <1>1, <1>3, <1>4 DEF LifetimeOK

\* mmap, the same.
LEMMA RangedKeeps ==
    ASSUME NEW n, NEW h, NEW p, NEW t, NEW live, NEW none, LifetimeOK(n, h, p, t, live, none),
           NEW t2, MappedOK(t2, n),
           \A k, s : s <= n /\ s \in Nat => RangedBefore(t2, k, s) = RangedBefore(t, k, s)
    PROVE  LifetimeOK(n, h, p, t2, live, none)
<1>1. /\ n \in Nat /\ live \in Seq([Keys -> Contributions]) /\ Len(live) = n
      /\ FreedOK(h, n) /\ AllocatedOK(p, n) /\ MappedOK(t, n)
      /\ \A s \in 1..n, k \in Keys : Balanced(h, p, t, k, s, live[s][k], k \notin none)
  BY DEF LifetimeOK
<1>2. ASSUME NEW s \in 1..n, NEW k \in Keys
      PROVE  Balanced(h, p, t2, k, s, live[s][k], k \notin none)
  <2>1. Balanced(h, p, t, k, s, live[s][k], k \notin none)
    BY <1>1
  <2>2. RangedBefore(t2, k, s) = RangedBefore(t, k, s)
    BY <1>1
  <2> QED BY <2>1, <2>2 DEF Balanced, BytesBefore, CountBefore
<1> QED BY <1>1, <1>2 DEF LifetimeOK

\* What is freed goes from what is live to what was freed across the snapshot.
LEMMA FreeKeeps ==
    ASSUME NEW n, NEW h, NEW p, NEW t, NEW live, NEW none, LifetimeOK(n, h, p, t, live, none),
           NEW h2, FreedOK(h2, n), NEW p2, AllocatedOK(p2, n), NEW t2, MappedOK(t2, n),
           NEW none2, none \subseteq none2,
           \A s \in 1..n, k \in Keys : \E x \in Int, y \in Int :
              /\ FreedBytes(h2, k, s) = FreedBytes(h, k, s) + x
              /\ BytesBefore(p, t, k, s) = BytesBefore(p2, t2, k, s) + x
              /\ FreedCount(h2, k, s) = FreedCount(h, k, s) + y
              /\ k \notin none2 => CountBefore(p, t, k, s) = CountBefore(p2, t2, k, s) + y
    PROVE  LifetimeOK(n, h2, p2, t2, live, none2)
<1>1. /\ n \in Nat /\ live \in Seq([Keys -> Contributions]) /\ Len(live) = n
      /\ FreedOK(h, n) /\ AllocatedOK(p, n) /\ MappedOK(t, n)
      /\ \A s \in 1..n, k \in Keys : Balanced(h, p, t, k, s, live[s][k], k \notin none)
  BY DEF LifetimeOK
<1>2. ASSUME NEW s \in 1..n, NEW k \in Keys
      PROVE  Balanced(h2, p2, t2, k, s, live[s][k], k \notin none2)
  <2>1. Balanced(h, p, t, k, s, live[s][k], k \notin none)
    BY <1>1
  <2>2. PICK x \in Int, y \in Int :
          /\ FreedBytes(h2, k, s) = FreedBytes(h, k, s) + x
          /\ BytesBefore(p, t, k, s) = BytesBefore(p2, t2, k, s) + x
          /\ FreedCount(h2, k, s) = FreedCount(h, k, s) + y
          /\ k \notin none2 => CountBefore(p, t, k, s) = CountBefore(p2, t2, k, s) + y
    OBVIOUS
  <2>3. FreedBytes(h, k, s) \in Int /\ FreedCount(h, k, s) \in Int
    BY <1>1, FreedIs
  <2>4. BytesBefore(p2, t2, k, s) \in Int /\ CountBefore(p2, t2, k, s) \in Int
    <3>1. /\ SizesAt(p2, SimpleBefore(p2, k, s)) \in Nat /\ TotalSize(RangedBefore(t2, k, s)) \in Nat
          /\ Cardinality(SimpleBefore(p2, k, s)) \in Nat
          /\ Cardinality(IdsOf(RangedBefore(t2, k, s))) \in Nat
      BY <1>1, BeforeTypes
    <3> QED BY <3>1 DEF BytesBefore, CountBefore
  <2>5. FreedBytes(h2, k, s) + BytesBefore(p2, t2, k, s) = FreedBytes(h, k, s) + BytesBefore(p, t, k, s)
    BY <2>2, <2>3, <2>4
  <2>6. k \notin none2 =>
          FreedCount(h2, k, s) + CountBefore(p2, t2, k, s) = FreedCount(h, k, s) + CountBefore(p, t, k, s)
    BY <2>2, <2>3, <2>4
  <2> QED BY <2>1, <2>5, <2>6 DEF Balanced
<1> QED BY <1>1, <1>2 DEF LifetimeOK

\* A snapshot has what is live; the earlier ones keep what they have.
LEMMA CaptureKeeps ==
    ASSUME LifetimeOK(num_snapshots, allocation_history, allocated, mapped, live_at, uncounted),
           LifetimeCapture
    PROVE  LifetimeOK(num_snapshots', allocation_history, allocated, mapped, live_at', uncounted)
<1> DEFINE n == num_snapshots
           h == allocation_history
           now == [k \in Keys |-> LiveNow(k)]
<1>1. /\ n \in Nat /\ live_at \in Seq([Keys -> Contributions]) /\ Len(live_at) = n
      /\ FreedOK(h, n) /\ AllocatedOK(allocated, n) /\ MappedOK(mapped, n)
      /\ \A s \in 1..n, k \in Keys :
            Balanced(h, allocated, mapped, k, s, live_at[s][k], k \notin uncounted)
  BY DEF LifetimeOK
<1>2. num_snapshots' = n + 1 /\ live_at' = Append(live_at, now)
  BY DEF LifetimeCapture
<1>3. FreedOK(h, n + 1) /\ AllocatedOK(allocated, n + 1) /\ MappedOK(mapped, n + 1)
  <2>1. FreedOK(h, n + 1)
    BY <1>1 DEF FreedOK
  <2>2. 0..n \subseteq 0..(n + 1)
    BY <1>1
  <2>3. AllocatedOK(allocated, n + 1)
    <3>1. [key : SimpleKeys, size : Sizes, generation : 0..n]
            \subseteq [key : SimpleKeys, size : Sizes, generation : 0..(n + 1)]
      BY <2>2
    <3> QED BY <1>1, <3>1 DEF AllocatedOK
  <2>4. MappedOK(mapped, n + 1)
    BY <1>1, <2>2 DEF MappedOK
  <2> QED BY <2>1, <2>3, <2>4
<1>4. ASSUME NEW k \in Keys
      PROVE  /\ LiveNow(k) \in Contributions
             /\ LiveNow(k).bytes = BytesBefore(allocated, mapped, k, n + 1)
             /\ LiveNow(k).allocations = CountBefore(allocated, mapped, k, n + 1)
  <2>1. /\ LiveNow(k).bytes = BytesBefore(allocated, mapped, k, n + 1)
        /\ LiveNow(k).allocations = CountBefore(allocated, mapped, k, n + 1)
    BY <1>1, LiveIs
  <2>2. LiveNow(k).bytes \in Int /\ LiveNow(k).allocations \in Int
    BY <1>1, <2>1, BeforeTypes DEF BytesBefore, CountBefore
  <2>3. LiveNow(k) = [bytes |-> LiveNow(k).bytes, allocations |-> LiveNow(k).allocations]
    BY DEF LiveNow
  <2> QED BY <2>1, <2>2, <2>3 DEF Contributions
<1>5. now \in [Keys -> Contributions]
  BY <1>4
<1>6. \A k \in Keys : now[k] = LiveNow(k)
  OBVIOUS
<1> HIDE DEF now
<1>7. /\ live_at' \in Seq([Keys -> Contributions]) /\ Len(live_at') = n + 1
      /\ live_at'[n + 1] = now /\ \A s \in 1..n : live_at'[s] = live_at[s]
  BY <1>1, <1>2, <1>5
<1>8. ASSUME NEW k \in Keys
      PROVE  Balanced(h, allocated, mapped, k, n + 1, live_at'[n + 1][k], k \notin uncounted)
  <2>1. FreedAcross(h, k, n + 1) = {}
    BY <1>1 DEF FreedAcross, FreedOK
  <2>2. FreedBytes(h, k, n + 1) = 0 /\ FreedCount(h, k, n + 1) = 0
    <3> DEFINE b == [x \in DOMAIN h |-> h[x].bytes]
               c == [x \in DOMAIN h |-> h[x].allocations]
               F == FreedAcross(h, k, n + 1)
    <3>1. FreedBytes(h, k, n + 1) = SumFunctionOnSet(b, F) /\ FreedCount(h, k, n + 1) = SumFunctionOnSet(c, F)
      BY <1>1, FreedIs
    <3> HIDE DEF b, c, F
    <3>2. F = {}
      BY <2>1 DEF F
    <3> QED BY <3>1, <3>2, SumOfNothing
  <2>3. /\ BytesBefore(allocated, mapped, k, n + 1) \in Int
        /\ CountBefore(allocated, mapped, k, n + 1) \in Int
    BY <1>1, BeforeTypes DEF BytesBefore, CountBefore
  <2> QED BY <1>4, <1>6, <1>7, <2>2, <2>3 DEF Balanced
<1>9. ASSUME NEW s \in 1..(n + 1), NEW k \in Keys
      PROVE  Balanced(h, allocated, mapped, k, s, live_at'[s][k], k \notin uncounted)
  <2>1. CASE s \in 1..n
    BY <1>1, <1>7, <2>1
  <2>2. CASE s = n + 1
    BY <1>8, <2>2
  <2> QED BY <1>1, <2>1, <2>2
<1>10. n + 1 \in Nat
  BY <1>1
<1> HIDE DEF n, h
<1> QED BY <1>2, <1>3, <1>7, <1>9, <1>10 DEF LifetimeOK, h

\* Each interval of t is one of u.
Matches(t, u) == \A m \in t : \E i \in u : i.begin = m.begin /\ i.end = m.end

\* munmap leaves the same of them.
LEMMA MunmapMatches ==
    ASSUME NEW t, NEW u, Matches(t, u), NEW begin, NEW end
    PROVE  Matches(RemoveInterval(t, begin, end), RemoveInterval(u, begin, end))
<1> SUFFICES ASSUME NEW p \in RemoveInterval(t, begin, end)
             PROVE \E q \in RemoveInterval(u, begin, end) : q.begin = p.begin /\ q.end = p.end
  BY DEF Matches
<1>1. PICK m \in t : p \in Left(m, begin, end)
  BY DEF RemoveInterval, Left
<1>2. PICK i \in u : i.begin = m.begin /\ i.end = m.end
  BY DEF Matches
<1>3. \A q \in Left(i, begin, end) : q \in RemoveInterval(u, begin, end)
  BY DEF RemoveInterval, Left
<1>4. \E q \in Left(i, begin, end) : q.begin = p.begin /\ q.end = p.end
  <2>1. Intersects(i, begin, end) <=> Intersects(m, begin, end)
    BY <1>2 DEF Intersects
  <2>2. CASE Intersects(m, begin, end)
    <3>1. p \in Before(m, begin) \/ p \in After(m, end)
      BY <1>1, <2>2 DEF Left, Remainder
    <3>2. Left(i, begin, end) = Before(i, begin) \cup After(i, end)
      BY <2>1, <2>2 DEF Left, Remainder
    <3>3. CASE p \in Before(m, begin)
      <4> DEFINE q == [begin |-> i.begin, end |-> begin, value |-> i.value]
      <4>1. m.begin < begin /\ p = [begin |-> m.begin, end |-> begin, value |-> m.value]
        BY <3>3 DEF Before
      <4>2. q \in Before(i, begin)
        BY <1>2, <4>1 DEF Before
      <4>3. q.begin = p.begin /\ q.end = p.end
        BY <1>2, <4>1
      <4> HIDE DEF q
      <4> QED BY <3>2, <4>2, <4>3
    <3>4. CASE p \in After(m, end)
      <4> DEFINE q == [begin |-> end, end |-> i.end, value |-> i.value]
      <4>1. end < m.end /\ p = [begin |-> end, end |-> m.end, value |-> m.value]
        BY <3>4 DEF After
      <4>2. q \in After(i, end)
        BY <1>2, <4>1 DEF After
      <4>3. q.begin = p.begin /\ q.end = p.end
        BY <1>2, <4>1
      <4> HIDE DEF q
      <4> QED BY <3>2, <4>2, <4>3
    <3> QED BY <3>1, <3>3, <3>4
  <2>3. CASE ~Intersects(m, begin, end)
    BY <1>1, <1>2, <2>1, <2>3 DEF Left
  <2> QED BY <2>2, <2>3
<1> QED BY <1>3, <1>4

\* The deallocations of a munmap, each of the number that c has for it.
DeallocationsAre(D, taken, c) ==
    /\ D = {Deallocation(r.value, r.begin, Size(r), c[r]) : r \in taken}
    /\ \A r \in taken : c[r] \in 0..1

\* What the deallocations of a munmap add up to is what it takes.
DeallocationsTell(D, taken, c, k, s) ==
    LET fb == [d \in D |-> d.bytes]
        fc == [d \in D |-> d.count]
    IN /\ AreDeallocations(D)
       /\ SumFunctionOnSet(fb, OfBefore(D, k, s)) = TotalSize(RangedBefore(taken, k, s))
       /\ SumFunctionOnSet(fc, OfBefore(D, k, s)) = SumFunctionOnSet(c, RangedBefore(taken, k, s))
       /\ SumFunctionOnSet(fc, OfBefore(D, k, s)) \in Int

\* The contributions a munmap is charged with are those of the mappings it
\* takes: by key and by snapshot of allocation they tell the removed pieces' sums.
LEMMA DeallocationsOf ==
    ASSUME num_snapshots \in Nat, NEW t, MappedOK(t, num_snapshots),
           NEW begin \in Nat, NEW end \in Nat, begin < end,
           NEW taken, taken = Removed(t, begin, end),
           NEW c, NEW D, DeallocationsAre(D, taken, c), NEW k, NEW s
    PROVE  DeallocationsTell(D, taken, c, k, s)
<1> DEFINE fb == [d \in D |-> d.bytes]
           fc == [d \in D |-> d.count]
           m == [r \in taken |-> Deallocation(r.value, r.begin, Size(r), c[r])]
           f == [r \in taken |-> Size(r)]
           R == RangedBefore(taken, k, s)
<1>0. D = {Deallocation(r.value, r.begin, Size(r), c[r]) : r \in taken} /\ \A r \in taken : c[r] \in 0..1
  BY DEF DeallocationsAre
<1>1. /\ MappingsApart(t) /\ Spans(taken)
      /\ \A r \in taken : \E q \in t : r.value = q.value
  <2>1. MappingsApart(t)
    BY DEF MappedOK
  <2> QED BY <2>1, ValuesStay
<1>2. D = {m[r] : r \in taken} /\ R \in SUBSET taken
  BY <1>0 DEF RangedBefore
<1>3. \A r \in taken :
        /\ m[r].where = <<r.value.generation, num_snapshots, r.value.key>>
        /\ m[r].at = r.begin /\ m[r].bytes = Size(r) /\ m[r].count = c[r]
  BY DEF Deallocation
<1>4. \A r \in taken : m[r] \in D /\ fb[m[r]] = Size(r) /\ fc[m[r]] = c[r]
  BY <1>2, <1>3
<1>5. OfBefore(D, k, s) = {m[r] : r \in R}
  <2> HIDE DEF m
  <2>1. \A r \in taken : m[r].where[3] = r.value.key /\ m[r].where[1] = r.value.generation
    BY <1>3
  <2>2. \A r \in taken : m[r] \in OfBefore(D, k, s) <=> r \in R
    BY <1>2, <2>1 DEF OfBefore, RangedBefore
  <2>3. \A d \in OfBefore(D, k, s) : \E r \in taken : d = m[r]
    BY <1>2 DEF OfBefore
  <2> HIDE DEF R
  <2> QED BY <1>2, <2>2, <2>3
<1>6. \A r, q \in taken : m[r] = m[q] => r = q
  <2> SUFFICES ASSUME NEW r \in taken, NEW q \in taken, m[r] = m[q] PROVE r = q
    OBVIOUS
  <2>1. r.begin = q.begin
    BY <1>3
  <2> QED BY <1>1, <2>1, TakenApart
<1>7. /\ \A r \in taken : f[r] = Size(r) /\ Size(r) \in Int
      /\ \A r \in taken : r.value.generation \in Nat /\ r.value.generation <= num_snapshots
  <2>1. \A r \in taken : Size(r) \in Int
    BY <1>1 DEF Spans, Size
  <2>2. \A q \in t : q.value.generation \in 0..num_snapshots
    BY DEF MappedOK
  <2>3. \A r \in taken : r.value.generation \in 0..num_snapshots
    BY <1>1, <2>2
  <2> QED BY <2>1, <2>3
<1>8. IsFiniteSet(taken)
  BY <1>1 DEF Spans
<1> HIDE DEF m, fb, fc, f, R
<1>9. AreDeallocations(D)
  <2>1. IsFiniteSet(D)
    <3> DEFINE F == {m[r] : r \in taken}
    <3>1. IsFiniteSet(F)
      BY <1>8, ImageIsFinite
    <3> HIDE DEF F
    <3>2. D = F
      BY <1>2 DEF F
    <3> QED BY <3>1, <3>2
  <2>2. ASSUME NEW d \in D
        PROVE  /\ d.bytes \in Int /\ d.count \in Int
               /\ d.where[1] \in Nat /\ d.where[1] <= num_snapshots /\ d.where[2] = num_snapshots
    <3>1. PICK r \in taken : d = m[r]
      BY <1>2
    <3>2. d.bytes = Size(r) /\ d.count = c[r] /\ c[r] \in 0..1
      BY <1>0, <1>3, <3>1
    <3>3. d.where[1] = r.value.generation /\ d.where[2] = num_snapshots
      BY <1>3, <3>1
    <3> QED BY <1>7, <3>2, <3>3
  <2> QED BY <2>1, <2>2 DEF AreDeallocations
<1>10. Adds(f, R) /\ TotalSize(R) = SumFunctionOnSet(f, R)
  BY <1>1, <1>2, TotalSizeIs DEF f
<1>11. Adds(c, R)
  BY <1>0, <1>2, <1>8, FS_Subset DEF Adds
<1>12. \A r \in R : fb[m[r]] = f[r] /\ fc[m[r]] = c[r]
  BY <1>2, <1>4, <1>7
<1>13. \A r, q \in R : m[r] = m[q] => r = q
  BY <1>2, <1>6
<1>14. SumFunctionOnSet(fb, {m[r] : r \in R}) = SumFunctionOnSet(f, R)
  BY <1>10, <1>12, <1>13, SumOfImage
<1>15. SumFunctionOnSet(fc, {m[r] : r \in R}) = SumFunctionOnSet(c, R)
  BY <1>11, <1>12, <1>13, SumOfImage
<1>16. SumFunctionOnSet(c, R) \in Int
  BY <1>11, SumType
<1> QED BY <1>5, <1>9, <1>10, <1>14, <1>15, <1>16 DEF DeallocationsTell, fb, fc, R

\* malloc.
LEMMA LifetimeSimpleStep ==
    ASSUME AllocationsOK, LifetimeInv, NEW a \in Addresses, NEW k \in SimpleKeys, NEW size \in Sizes,
           ReadSimple(a, k, size)
    PROVE  LifetimeInv'
<1>1. /\ LifetimeOK(num_snapshots, allocation_history, allocated, mapped, live_at, uncounted)
      /\ \A b \in Addresses : allocated[b] # Nothing => ptr_to_allocation[b] # NoAllocation
      /\ \A m \in mapped : \E i \in mmap_intervals : i.begin = m.begin /\ i.end = m.end
  BY DEF LifetimeInv, SameBlocks
<1>2. /\ ptr_to_allocation[a] = NoAllocation /\ mmap_intervals' = mmap_intervals
      /\ ptr_to_allocation' = [ptr_to_allocation EXCEPT ![a] = [key |-> k, size |-> size]]
      /\ Sets(allocated', allocated, a, Block(k, size, num_snapshots))
      /\ num_snapshots' = num_snapshots /\ allocation_history' = allocation_history
      /\ mapped' = mapped /\ live_at' = live_at /\ uncounted' = uncounted
  BY DEF ReadSimple, AddSimple, LifetimeSimple, Sets, Block
<1>3. allocated[a] = Nothing
  BY <1>1, <1>2
<1>4. LifetimeOK(num_snapshots, allocation_history, allocated', mapped, live_at, uncounted)
  BY <1>1, <1>2, <1>3, SimpleKeeps
<1>5. SameBlocks'
  <2>1. \A b \in Addresses : b # a => allocated'[b] = allocated[b] /\ ptr_to_allocation'[b] = ptr_to_allocation[b]
    <3>1. allocated \in [Addresses -> [key : SimpleKeys, size : Sizes, generation : 0..num_snapshots] \cup {Nothing}]
      BY <1>1 DEF LifetimeOK, AllocatedOK
    <3> QED BY <1>2, <3>1 DEF Sets, AllocationsOK
  <2>2. ptr_to_allocation'[a] # NoAllocation
    <3>1. ptr_to_allocation'[a] = [key |-> k, size |-> size]
      BY <1>2 DEF AllocationsOK
    <3>2. k # "none"
      BY KeysAssumption
    <3> QED BY <3>1, <3>2 DEF NoAllocation
  <2> QED BY <1>1, <1>2, <2>1, <2>2 DEF SameBlocks
<1> QED BY <1>2, <1>4, <1>5 DEF LifetimeInv

\* free.
LEMMA LifetimeSimpleFreeStep ==
    ASSUME AllocationsOK, LifetimeInv, NEW a \in Addresses, ReadSimpleFree(a)
    PROVE  LifetimeInv'
<1> DEFINE n == num_snapshots
           v == allocated[a]
           d == Deallocation(v, a, v.size, 1)
           D == {d}
           h == allocation_history
           fb == [x \in D |-> x.bytes]
           fc == [x \in D |-> x.count]
<1>1. /\ LifetimeOK(n, h, allocated, mapped, live_at, uncounted)
      /\ \A b \in Addresses : allocated[b] # Nothing => ptr_to_allocation[b] # NoAllocation
      /\ \A m \in mapped : \E i \in mmap_intervals : i.begin = m.begin /\ i.end = m.end
  BY DEF LifetimeInv, SameBlocks
<1>2. /\ mmap_intervals' = mmap_intervals
      /\ ptr_to_allocation' = [ptr_to_allocation EXCEPT ![a] = NoAllocation]
      /\ v # Nothing /\ RecordDeallocations(D)
      /\ Sets(allocated', allocated, a, Nothing)
      /\ num_snapshots' = num_snapshots
      /\ mapped' = mapped /\ live_at' = live_at /\ uncounted' = uncounted
  BY DEF ReadSimpleFree, FreeSimple, LifetimeSimpleFree, Sets
<1>3. n \in Nat /\ FreedOK(h, n) /\ AllocatedOK(allocated, n) /\ MappedOK(mapped, n)
  BY <1>1 DEF LifetimeOK
<1>4. v.size \in Nat /\ v.generation \in 0..n
  BY <1>2, <1>3, BlockIs
<1>5. /\ d.where = <<v.generation, n, v.key>> /\ d.bytes = v.size /\ d.count = 1
  BY DEF Deallocation
<1>6. AreDeallocations(D)
  <2>1. IsFiniteSet(D)
    <3> HIDE DEF d
    <3> QED BY FS_Singleton
  <2>2. d.bytes \in Int /\ d.count \in Int /\ d.where[1] \in Nat /\ d.where[1] <= n /\ d.where[2] = n
    BY <1>3, <1>4, <1>5
  <2> HIDE DEF d
  <2> QED BY <2>1, <2>2 DEF AreDeallocations
<1>7. ASSUME NEW k, NEW s
      PROVE  OfBefore(D, k, s) = IF v.key = k /\ v.generation < s THEN {d} ELSE {}
  <2>1. d.where[3] = v.key /\ d.where[1] = v.generation
    BY <1>5
  <2> HIDE DEF d
  <2> QED BY <2>1 DEF OfBefore
<1>8. SumFunctionOnSet(fb, {d}) = v.size /\ SumFunctionOnSet(fc, {d}) = 1
  <2>1. d \notin {} /\ {} \cup {d} = {d} /\ d \in D
    OBVIOUS
  <2>2. fb[d] = v.size /\ fc[d] = 1
    BY <1>5
  <2> HIDE DEF d, D, fb, fc
  <2>3. Adds(fb, {}) /\ Adds(fc, {})
    BY FS_EmptySet DEF Adds
  <2>4. /\ SumFunctionOnSet(fb, {} \cup {d}) = fb[d] + SumFunctionOnSet(fb, {})
        /\ SumFunctionOnSet(fc, {} \cup {d}) = fc[d] + SumFunctionOnSet(fc, {})
    BY <1>4, <2>2, <2>3, SumWith
  <2> QED BY <1>4, <2>1, <2>2, <2>4, SumOfNothing
<1> HIDE DEF d
<1>9. /\ FreedOK(h', n)
      /\ \A k, s : s \in 1..n =>
           /\ FreedBytes(h', k, s) = FreedBytes(h, k, s) + SumFunctionOnSet(fb, OfBefore(D, k, s))
           /\ FreedCount(h', k, s) = FreedCount(h, k, s) + SumFunctionOnSet(fc, OfBefore(D, k, s))
  BY <1>2, <1>3, <1>6, DeallocationsRecorded
<1> HIDE DEF D, fb, fc
<1>10. /\ AllocatedOK(allocated', n)
       /\ \A k, s : v.key = k /\ v.generation < s =>
            /\ Cardinality(SimpleBefore(allocated, k, s)) = Cardinality(SimpleBefore(allocated', k, s)) + 1
            /\ SizesAt(allocated, SimpleBefore(allocated, k, s))
                 = SizesAt(allocated', SimpleBefore(allocated', k, s)) + v.size
       /\ \A k, s : ~(v.key = k /\ v.generation < s) =>
            /\ SimpleBefore(allocated', k, s) = SimpleBefore(allocated, k, s)
            /\ SizesAt(allocated', SimpleBefore(allocated', k, s))
                 = SizesAt(allocated, SimpleBefore(allocated, k, s))
  BY <1>2, <1>3, BlockFreed
<1>11. ASSUME NEW s \in 1..n, NEW k \in Keys
       PROVE  \E x \in Int, y \in Int :
                /\ FreedBytes(h', k, s) = FreedBytes(h, k, s) + x
                /\ BytesBefore(allocated, mapped, k, s) = BytesBefore(allocated', mapped, k, s) + x
                /\ FreedCount(h', k, s) = FreedCount(h, k, s) + y
                /\ k \notin uncounted =>
                     CountBefore(allocated, mapped, k, s) = CountBefore(allocated', mapped, k, s) + y
  <2> DEFINE S == SimpleBefore(allocated, k, s)
             S2 == SimpleBefore(allocated', k, s)
             R == RangedBefore(mapped, k, s)
  <2>1. /\ SizesAt(allocated', S2) \in Nat /\ TotalSize(R) \in Nat
        /\ Cardinality(S2) \in Nat /\ Cardinality(IdsOf(R)) \in Nat
    BY <1>3, <1>10, BeforeTypes
  <2>2. /\ FreedBytes(h', k, s) = FreedBytes(h, k, s) + SumFunctionOnSet(fb, OfBefore(D, k, s))
        /\ FreedCount(h', k, s) = FreedCount(h, k, s) + SumFunctionOnSet(fc, OfBefore(D, k, s))
    BY <1>9
  <2>3. CASE v.key = k /\ v.generation < s
    <3>1. OfBefore(D, k, s) = {d}
      BY <1>7, <2>3
    <3>2. Cardinality(S) = Cardinality(S2) + 1 /\ SizesAt(allocated, S) = SizesAt(allocated', S2) + v.size
      BY <1>10, <2>3
    <3> HIDE DEF S, S2, R
    <3>3. /\ SizesAt(allocated, S) + TotalSize(R) = SizesAt(allocated', S2) + TotalSize(R) + v.size
          /\ Cardinality(S) + Cardinality(IdsOf(R)) = Cardinality(S2) + Cardinality(IdsOf(R)) + 1
      BY <1>4, <2>1, <3>2
    <3>4. /\ BytesBefore(allocated, mapped, k, s) = BytesBefore(allocated', mapped, k, s) + v.size
          /\ CountBefore(allocated, mapped, k, s) = CountBefore(allocated', mapped, k, s) + 1
      BY <3>3 DEF BytesBefore, CountBefore, S, S2, R
    <3>5. /\ FreedBytes(h', k, s) = FreedBytes(h, k, s) + v.size
          /\ FreedCount(h', k, s) = FreedCount(h, k, s) + 1
      BY <1>8, <2>2, <3>1
    <3> QED BY <1>4, <3>4, <3>5
  <2>4. CASE ~(v.key = k /\ v.generation < s)
    <3>1. OfBefore(D, k, s) = {}
      BY <1>7, <2>4
    <3>2. S2 = S /\ SizesAt(allocated', S2) = SizesAt(allocated, S)
      BY <1>10, <2>4
    <3> HIDE DEF S, S2, R
    <3>3. /\ SizesAt(allocated, S) + TotalSize(R) = SizesAt(allocated', S2) + TotalSize(R) + 0
          /\ Cardinality(S) + Cardinality(IdsOf(R)) = Cardinality(S2) + Cardinality(IdsOf(R)) + 0
      BY <2>1, <3>2
    <3>4. /\ BytesBefore(allocated, mapped, k, s) = BytesBefore(allocated', mapped, k, s) + 0
          /\ CountBefore(allocated, mapped, k, s) = CountBefore(allocated', mapped, k, s) + 0
      BY <3>3 DEF BytesBefore, CountBefore, S, S2, R
    <3>5. /\ FreedBytes(h', k, s) = FreedBytes(h, k, s) + 0
          /\ FreedCount(h', k, s) = FreedCount(h, k, s) + 0
      BY <2>2, <3>1, SumOfNothing
    <3> QED BY <3>4, <3>5
  <2> QED BY <2>3, <2>4
<1>12. LifetimeOK(n, h', allocated', mapped, live_at, uncounted)
  <2> HIDE DEF h, n
  <2> QED BY <1>1, <1>3, <1>9, <1>10, <1>11, FreeKeeps
<1>13. SameBlocks'
  <2>1. \A b \in Addresses :
           IF b = a THEN allocated'[b] = Nothing
           ELSE allocated'[b] = allocated[b] /\ ptr_to_allocation'[b] = ptr_to_allocation[b]
    <3>1. allocated \in [Addresses -> [key : SimpleKeys, size : Sizes, generation : 0..n] \cup {Nothing}]
      BY <1>3 DEF AllocatedOK
    <3> QED BY <1>2, <3>1 DEF Sets, AllocationsOK
  <2> QED BY <1>1, <1>2, <2>1 DEF SameBlocks
<1> QED BY <1>2, <1>12, <1>13 DEF LifetimeInv


\* mmap.
LEMMA LifetimeRangedStep ==
    ASSUME LifetimeInv, NEW b \in Pages, NEW e \in Pages, NEW k \in RangedKeys, ReadRanged(b, e, k)
    PROVE  LifetimeInv'
<1> DEFINE n == num_snapshots
           id == NewId
<1>1. /\ LifetimeOK(n, allocation_history, allocated, mapped, live_at, uncounted)
      /\ \A a \in Addresses : allocated[a] # Nothing => ptr_to_allocation[a] # NoAllocation
      /\ \A m \in mapped : \E i \in mmap_intervals : i.begin = m.begin /\ i.end = m.end
  BY DEF LifetimeInv, SameBlocks
<1>2. /\ b < e /\ \A i \in mmap_intervals : ~Intersects(i, b, e)
      /\ mmap_intervals' = AddInterval(mmap_intervals, b, e, k)
      /\ ptr_to_allocation' = ptr_to_allocation
      /\ mapped' = AddInterval(mapped, b, e, [key |-> k, generation |-> n, id |-> id])
      /\ num_snapshots' = n /\ allocation_history' = allocation_history
      /\ allocated' = allocated /\ live_at' = live_at /\ uncounted' = uncounted
  BY DEF ReadRanged, AddRanged, LifetimeRanged
<1>3. b \in Nat /\ e \in Nat /\ n \in Nat /\ MappedOK(mapped, n)
  BY <1>1, NumbersAssumption DEF LifetimeOK
<1>4. \A m \in mapped : ~Intersects(m, b, e)
  BY <1>1, <1>2 DEF Intersects
<1>5. \A m \in mapped : m.value.id # id
  <2>1. IsFiniteSet(mapped)
    BY <1>3 DEF MappedOK, MappingsApart, Spans
  <2> QED BY <2>1, NewIdIsNew
<1> HIDE DEF id
<1>6. /\ MappedOK(mapped', n)
      /\ \A m \in mapped' : m \in mapped \/ (m.begin = b /\ m.end = e)
      /\ \A l, s : s <= n /\ s \in Nat => RangedBefore(mapped', l, s) = RangedBefore(mapped, l, s)
  <2> DEFINE t2 == AddInterval(mapped, b, e, [key |-> k, generation |-> n, id |-> id])
  <2>1. /\ MappedOK(t2, n)
        /\ \A m \in t2 : m \in mapped \/ (m.begin = b /\ m.end = e)
        /\ \A l, s : s <= n /\ s \in Nat => RangedBefore(t2, l, s) = RangedBefore(mapped, l, s)
    <3> HIDE DEF n
    <3> QED BY <1>2, <1>3, <1>4, <1>5, MappedAdded
  <2>2. mapped' = t2
    BY <1>2
  <2> HIDE DEF t2
  <2> QED BY <2>1, <2>2
<1>7. LifetimeOK(n, allocation_history, allocated, mapped', live_at, uncounted)
  <2> HIDE DEF n
  <2> QED BY <1>1, <1>6, RangedKeeps
<1>8. SameBlocks'
  <2>1. \E i \in mmap_intervals' : i.begin = b /\ i.end = e
    <3> DEFINE i == [begin |-> b, end |-> e, value |-> k]
    <3>1. i \in mmap_intervals'
      BY <1>2 DEF AddInterval
    <3>2. i.begin = b /\ i.end = e
      OBVIOUS
    <3> HIDE DEF i
    <3> QED BY <3>1, <3>2
  <2>2. mmap_intervals \subseteq mmap_intervals'
    BY <1>2 DEF AddInterval
  <2>3. \A m \in mapped' : \E i \in mmap_intervals' : i.begin = m.begin /\ i.end = m.end
    BY <1>1, <1>6, <2>1, <2>2
  <2> QED BY <1>1, <1>2, <2>3 DEF SameBlocks
<1> QED BY <1>2, <1>7, <1>8 DEF LifetimeInv

\* munmap: each piece is a deallocation of its bytes, and of one allocation if
\* it is the last of a mapping.
LEMMA LifetimeRangedFreeStep ==
    ASSUME LifetimeInv, NEW b \in Pages, NEW e \in Pages, ReadRangedFree(b, e)
    PROVE  LifetimeInv'
<1> DEFINE n == num_snapshots
           h == allocation_history
           taken == Removed(mapped, b, e)
           left == RemoveInterval(mapped, b, e)
           c == [r \in taken |-> IF UseCount(r.value.id, taken, left) = 1 THEN 1 ELSE 0]
           D == {Deallocation(r.value, r.begin, Size(r), c[r]) : r \in taken}
           gone == {r.value : r \in taken} \ {m.value : m \in left}
           fb == [d \in D |-> d.bytes]
           fc == [d \in D |-> d.count]
<1>1. /\ LifetimeOK(n, h, allocated, mapped, live_at, uncounted)
      /\ \A a \in Addresses : allocated[a] # Nothing => ptr_to_allocation[a] # NoAllocation
      /\ \A m \in mapped : \E i \in mmap_intervals : i.begin = m.begin /\ i.end = m.end
  BY DEF LifetimeInv, SameBlocks
<1>2. /\ b < e /\ ptr_to_allocation' = ptr_to_allocation
      /\ mmap_intervals' = RemoveInterval(mmap_intervals, b, e)
      /\ mapped' = left /\ allocated' = allocated
      /\ uncounted' = uncounted \cup
           {v.key : v \in {w \in gone : UseCount(w.id, taken, left) > 1}}
      /\ num_snapshots' = n /\ live_at' = live_at
  BY DEF ReadRangedFree, FreeRanged, LifetimeRangedFree
<1>3. RecordDeallocations(D)
  <2>1. D = {Deallocation(r.value, r.begin, Size(r),
                          IF UseCount(r.value.id, taken, left) = 1 THEN 1 ELSE 0) : r \in taken}
    OBVIOUS
  <2>2. RecordDeallocations({Deallocation(r.value, r.begin, Size(r),
                          IF UseCount(r.value.id, taken, left) = 1 THEN 1 ELSE 0) : r \in taken})
    BY DEF ReadRangedFree, LifetimeRangedFree
  <2> HIDE DEF D, taken, left, c
  <2> QED BY <2>1, <2>2
<1>4. /\ b \in Nat /\ e \in Nat /\ n \in Nat
      /\ FreedOK(h, n) /\ AllocatedOK(allocated, n) /\ MappedOK(mapped, n)
  BY <1>1, NumbersAssumption DEF LifetimeOK
<1>5. \A r \in taken : c[r] \in 0..1 /\ c[r] = IF UseCount(r.value.id, taken, left) = 1 THEN 1 ELSE 0
  OBVIOUS
<1>6. taken = Removed(mapped, b, e) /\ left = RemoveInterval(mapped, b, e)
  OBVIOUS
<1>7. D = {Deallocation(r.value, r.begin, Size(r), c[r]) : r \in taken}
  OBVIOUS
<1> HIDE DEF taken, left, c, D
<1>8. ASSUME NEW k, NEW s
      PROVE  /\ AreDeallocations(D)
             /\ SumFunctionOnSet(fb, OfBefore(D, k, s)) = TotalSize(RangedBefore(taken, k, s))
             /\ SumFunctionOnSet(fc, OfBefore(D, k, s)) = SumFunctionOnSet(c, RangedBefore(taken, k, s))
             /\ SumFunctionOnSet(fc, OfBefore(D, k, s)) \in Int
  <2>1. DeallocationsAre(D, taken, c)
    BY <1>5, <1>7 DEF DeallocationsAre
  <2>2. num_snapshots \in Nat /\ MappedOK(mapped, num_snapshots) /\ b < e
    BY <1>2, <1>4
  <2> HIDE DEF n, h
  <2>3. DeallocationsTell(D, taken, c, k, s)
    BY <1>4, <1>6, <2>1, <2>2, DeallocationsOf
  <2> QED BY <2>3 DEF DeallocationsTell
<1>9. AreDeallocations(D)
  BY <1>8
<1>10. /\ FreedOK(h', n)
       /\ \A k, s : s \in 1..n =>
            /\ FreedBytes(h', k, s) = FreedBytes(h, k, s) + SumFunctionOnSet(fb, OfBefore(D, k, s))
            /\ FreedCount(h', k, s) = FreedCount(h, k, s) + SumFunctionOnSet(fc, OfBefore(D, k, s))
  BY <1>3, <1>4, <1>9, DeallocationsRecorded
<1> HIDE DEF fb, fc
<1>11. MappedOK(left, n)
  BY <1>2, <1>4, <1>6, MappedRemoved
<1>12. ASSUME NEW k, k \notin uncounted'
       PROVE  \A v \in {r.value : r \in taken} \ {m.value : m \in left} :
                 v.key = k => ~(UseCount(v.id, taken, left) > 1)
  BY <1>2, <1>12
<1> HIDE DEF gone
<1>13. ASSUME NEW s \in 1..n, NEW k \in Keys
       PROVE  \E x \in Int, y \in Int :
                /\ FreedBytes(h', k, s) = FreedBytes(h, k, s) + x
                /\ BytesBefore(allocated, mapped, k, s) = BytesBefore(allocated, left, k, s) + x
                /\ FreedCount(h', k, s) = FreedCount(h, k, s) + y
                /\ k \notin uncounted' =>
                     CountBefore(allocated, mapped, k, s) = CountBefore(allocated, left, k, s) + y
  <2> DEFINE S == SimpleBefore(allocated, k, s)
             x == TotalSize(RangedBefore(taken, k, s))
             y == SumFunctionOnSet(fc, OfBefore(D, k, s))
  <2>1. SizesAt(allocated, S) \in Nat /\ Cardinality(S) \in Nat
        /\ Cardinality(IdsOf(RangedBefore(left, k, s))) \in Nat
    BY <1>4, <1>11, BeforeTypes
  <2>2. /\ TotalSize(RangedBefore(left, k, s)) + x = TotalSize(RangedBefore(mapped, k, s))
        /\ TotalSize(RangedBefore(left, k, s)) \in Nat /\ x \in Nat
    BY <1>2, <1>4, <1>6, BytesOfMunmap
  <2>3. k \notin uncounted' =>
          Cardinality(IdsOf(RangedBefore(mapped, k, s)))
             = Cardinality(IdsOf(RangedBefore(left, k, s))) + y
    <3> SUFFICES ASSUME k \notin uncounted'
                 PROVE Cardinality(IdsOf(RangedBefore(mapped, k, s)))
                         = Cardinality(IdsOf(RangedBefore(left, k, s))) + y
      OBVIOUS
    <3>1. Cardinality(IdsOf(RangedBefore(mapped, k, s)))
            = Cardinality(IdsOf(RangedBefore(left, k, s)))
                + SumFunctionOnSet(c, RangedBefore(taken, k, s))
      BY <1>2, <1>4, <1>5, <1>6, <1>12, CountOfMunmap
    <3> QED BY <1>8, <3>1
  <2>4. y \in Int
    BY <1>8
  <2>5. /\ FreedBytes(h', k, s) = FreedBytes(h, k, s) + x
        /\ FreedCount(h', k, s) = FreedCount(h, k, s) + y
    BY <1>8, <1>10
  <2> HIDE DEF S, x, y
  <2>6. BytesBefore(allocated, mapped, k, s) = BytesBefore(allocated, left, k, s) + x
    <3>1. SizesAt(allocated, S) + TotalSize(RangedBefore(mapped, k, s))
            = SizesAt(allocated, S) + TotalSize(RangedBefore(left, k, s)) + x
      BY <2>1, <2>2
    <3> QED BY <3>1 DEF BytesBefore, S
  <2>7. k \notin uncounted' =>
          CountBefore(allocated, mapped, k, s) = CountBefore(allocated, left, k, s) + y
    <3>1. k \notin uncounted' =>
            Cardinality(S) + Cardinality(IdsOf(RangedBefore(mapped, k, s)))
              = Cardinality(S) + Cardinality(IdsOf(RangedBefore(left, k, s))) + y
      BY <2>1, <2>3, <2>4
    <3> QED BY <3>1 DEF CountBefore, S
  <2>8. x \in Int
    BY <2>2
  <2> QED BY <2>4, <2>5, <2>6, <2>7, <2>8
<1>14. LifetimeOK(n, h', allocated, left, live_at, uncounted')
  <2>1. uncounted \subseteq uncounted'
    BY <1>2
  <2> HIDE DEF h, n
  <2> QED BY <1>1, <1>4, <1>10, <1>11, <1>13, <2>1, FreeKeeps
<1>15. SameBlocks'
  <2>1. Matches(mapped, mmap_intervals)
    BY <1>1 DEF Matches
  <2>2. Matches(left, mmap_intervals')
    BY <1>2, <1>6, <2>1, MunmapMatches
  <2> QED BY <1>1, <1>2, <2>2 DEF SameBlocks, Matches
<1> QED BY <1>2, <1>14, <1>15 DEF LifetimeInv

\* A memory record.
LEMMA LifetimeMemoryStep ==
    ASSUME LifetimeInv, ReadMemoryRecord
    PROVE  LifetimeInv'
<1>1. /\ LifetimeOK(num_snapshots, allocation_history, allocated, mapped, live_at, uncounted)
      /\ SameBlocks
  BY DEF LifetimeInv
<1>2. /\ LifetimeCapture
      /\ allocation_history' = allocation_history /\ allocated' = allocated /\ mapped' = mapped
      /\ uncounted' = uncounted
      /\ ptr_to_allocation' = ptr_to_allocation /\ mmap_intervals' = mmap_intervals
  BY DEF ReadMemoryRecord, CaptureSnapshot, LifetimeCapture
<1>3. LifetimeOK(num_snapshots', allocation_history, allocated, mapped, live_at', uncounted)
  BY <1>1, <1>2, CaptureKeeps
<1>4. SameBlocks'
  BY <1>1, <1>2 DEF SameBlocks
<1> QED BY <1>2, <1>3, <1>4 DEF LifetimeInv

\* The other steps are nothing to this aggregator.
LEMMA LifetimeUnchanged ==
    ASSUME LifetimeInv, ptr_to_allocation' = ptr_to_allocation,
           mmap_intervals' = mmap_intervals, UNCHANGED lifetime_vars
    PROVE  LifetimeInv'
<1>1. /\ num_snapshots' = num_snapshots /\ allocation_history' = allocation_history
      /\ allocated' = allocated /\ mapped' = mapped /\ live_at' = live_at /\ uncounted' = uncounted
  BY DEF lifetime_vars
<1> QED BY <1>1 DEF LifetimeInv, SameBlocks

\* At the start nothing is allocated and nothing was aggregated: the account holds.
LEMMA LifetimeStart ==
    ASSUME ReaderInit
    PROVE  LifetimeInv
<1>1. /\ num_snapshots = 0 /\ allocation_history = [x \in {} |-> None]
      /\ allocated = [a \in Addresses |-> Nothing] /\ mapped = {} /\ live_at = <<>>
  BY DEF ReaderInit, LifetimeInit
<1>2. FreedOK(allocation_history, 0)
  <2>1. DOMAIN allocation_history = {}
    BY <1>1
  <2>2. allocation_history \in [{} -> Contributions]
    BY <1>1
  <2> QED BY <2>1, <2>2, FS_EmptySet DEF FreedOK
<1>3. AllocatedOK(allocated, 0)
  <2>1. {a \in Addresses : allocated[a] # Nothing} = {}
    BY <1>1
  <2> QED BY <1>1, <2>1, FS_EmptySet DEF AllocatedOK
<1>4. MappedOK(mapped, 0)
  BY <1>1, FS_EmptySet DEF MappedOK, MappingsApart, Spans, Apart
<1>5. live_at \in Seq([Keys -> Contributions]) /\ Len(live_at) = 0
  BY <1>1
<1>6. SameBlocks
  BY <1>1 DEF SameBlocks
<1> QED BY <1>1, <1>2, <1>3, <1>4, <1>5, <1>6 DEF LifetimeInv, LifetimeOK

\* The lifetimes are right: of each snapshot, what was freed since and what is
\* live add up to what was live then.
THEOREM LifetimeInvariant == ReaderSpec => []LifetimeInv
<1>1. ReaderInit => LifetimeInv
  BY LifetimeStart
<1>2. HistoriesInv /\ LifetimeInv /\ [ReadNext]_all_vars => LifetimeInv'
  <2> SUFFICES ASSUME HistoriesInv, LifetimeInv, [ReadNext]_all_vars PROVE LifetimeInv'
    OBVIOUS
  <2>1. AllocationsOK
    BY DEF HistoriesInv, TypeOK
  <2>2. CASE \E a \in Addresses, k \in SimpleKeys, n \in Sizes : ReadSimple(a, k, n)
    BY <2>1, <2>2, LifetimeSimpleStep
  <2>3. CASE \E a \in Addresses : ReadSimpleFree(a)
    BY <2>1, <2>3, LifetimeSimpleFreeStep
  <2>4. CASE \E b, e \in Pages, k \in RangedKeys : ReadRanged(b, e, k)
    BY <2>4, LifetimeRangedStep
  <2>5. CASE \E b, e \in Pages : ReadRangedFree(b, e)
    BY <2>5, LifetimeRangedFreeStep
  <2>6. CASE ReadUnknownFree
    <3>1. /\ ptr_to_allocation' = ptr_to_allocation /\ mmap_intervals' = mmap_intervals
          /\ UNCHANGED lifetime_vars
      BY <2>6 DEF ReadUnknownFree, vars
    <3> QED BY <3>1, LifetimeUnchanged
  <2>7. CASE ReadRemoved
    <3>1. /\ ptr_to_allocation' = ptr_to_allocation /\ mmap_intervals' = mmap_intervals
          /\ UNCHANGED lifetime_vars
      BY <2>7 DEF ReadRemoved, RecordRemoved
    <3> QED BY <3>1, LifetimeUnchanged
  <2>8. CASE ReadMemoryRecord
    BY <2>8, LifetimeMemoryStep
  <2>9. CASE UNCHANGED all_vars
    <3>1. /\ ptr_to_allocation' = ptr_to_allocation /\ mmap_intervals' = mmap_intervals
          /\ UNCHANGED lifetime_vars
      BY <2>9 DEF all_vars, vars
    <3> QED BY <3>1, LifetimeUnchanged
  <2> QED BY <2>2, <2>3, <2>4, <2>5, <2>6, <2>7, <2>8, <2>9 DEF ReadNext
<1>3. ReaderSpec => []HistoriesInv
  BY ReaderInvariant, PTL
<1> QED BY <1>1, <1>2, <1>3, PTL DEF ReaderSpec

\* generateIndex has, for each snapshot, what was live then: its bytes, and the
\* number of its allocations but for the locations that LifetimesAddUp excepts.
THEOREM LifetimesAreRight == ReaderSpec => []LifetimesAddUp
<1>1. LifetimeInv => LifetimesAddUp
  <2> SUFFICES ASSUME LifetimeInv, NEW s \in 1..num_snapshots, NEW k \in Keys
               PROVE  /\ InLifetimes(k, s).bytes = live_at[s][k].bytes
                      /\ k \notin uncounted =>
                           InLifetimes(k, s).allocations = live_at[s][k].allocations
    BY DEF LifetimesAddUp
  <2>1. /\ num_snapshots \in Nat /\ AllocatedOK(allocated, num_snapshots)
        /\ MappedOK(mapped, num_snapshots)
        /\ Balanced(allocation_history, allocated, mapped, k, s, live_at[s][k], k \notin uncounted)
    BY DEF LifetimeInv, LifetimeOK
  <2>2. /\ InLifetimes(k, s).bytes
             = FreedBytes(allocation_history, k, s) + BytesBefore(allocated, mapped, k, s)
        /\ InLifetimes(k, s).allocations
             = FreedCount(allocation_history, k, s) + CountBefore(allocated, mapped, k, s)
    BY <2>1, LifetimesAre
  <2> QED BY <2>1, <2>2 DEF Balanced
<1>2. ReaderSpec => []LifetimeInv
  BY LifetimeInvariant
<1> QED BY <1>1, <1>2, PTL
=============================================================================
