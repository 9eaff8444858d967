---------------------------- MODULE IntervalTree ----------------------------
(***************************************************************************)
(* IntervalTree of snapshot.h, in which the aggregators keep the memory    *)
(* that mmap returned: munmap may remove part of a mapping, several at     *)
(* once, or addresses that were never seen.  A tree is the set of its      *)
(* pairs of an interval [begin, end) and a value.                          *)
(***************************************************************************)
EXTENDS Integers, Functions

Max2(a, b) == IF a >= b THEN a ELSE b
Min2(a, b) == IF a <= b THEN a ELSE b

Intersects(i, begin, end) == Max2(i.begin, begin) < Min2(i.end, end)

Size(i) == i.end - i.begin

TotalSize(intervals) == SumFunction([i \in intervals |-> Size(i)])

AddInterval(tree, begin, end, value) ==
    IF begin < end THEN tree \cup {[begin |-> begin, end |-> end, value |-> value]} ELSE tree

\* What [begin, end) leaves of an interval that it intersects: nothing, the
\* part before it, the part after it, or both.
Before(i, begin) == IF i.begin < begin THEN {[begin |-> i.begin, end |-> begin, value |-> i.value]} ELSE {}
After(i, end) == IF end < i.end THEN {[begin |-> end, end |-> i.end, value |-> i.value]} ELSE {}

Remainder(i, begin, end) == Before(i, begin) \cup After(i, end)

RemoveInterval(tree, begin, end) ==
    UNION {IF Intersects(i, begin, end) THEN Remainder(i, begin, end) ELSE {i} : i \in tree}

\* The intersections of RemovalStats, each with the number of intervals that
\* remain of its own: 0 if it is freed, 1 if it is shrunk and 2 if it is split.
Removed(tree, begin, end) ==
    {[begin |-> Max2(i.begin, begin), end |-> Min2(i.end, end), value |-> i.value,
      remain |-> (IF i.begin < begin THEN 1 ELSE 0) + (IF end < i.end THEN 1 ELSE 0)]
       : i \in {j \in tree : Intersects(j, begin, end)}}
=============================================================================
