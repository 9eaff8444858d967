------------------------------ MODULE RecordLog ------------------------------
(***************************************************************************)
(* What a capture promises to whoever reads it, with no records at all:    *)
(* the tracker tells the reader about stacks, names and allocations, and   *)
(* the reader hears of every allocation once, in order, with the stack its *)
(* thread had at that moment.  RecordStream implements this through        *)
(* records of deltas against what the writer wrote before.                 *)
(***************************************************************************)
EXTENDS Integers, Sequences

CONSTANTS Tids, Frames, Names, Allocations, RSS

VARIABLES
    stacks,     \* the Python stack of each thread, as told so far
    names,      \* the last name told for each thread, if any
    events,     \* allocations with thread and stack, memory sizes, in order
    delivered   \* those the reader has heard of

vars == <<stacks, names, events, delivered>>

Init ==
    /\ stacks = [t \in Tids |-> <<>>]
    /\ names = <<>>
    /\ events = <<>>
    /\ delivered = <<>>

Push(t, f) ==
    /\ stacks' = [stacks EXCEPT ![t] = Append(@, f)]
    /\ UNCHANGED <<names, events, delivered>>

Pop(t, n) ==
    /\ stacks' = [stacks EXCEPT ![t] = SubSeq(@, 1, Len(@) - n)]
    /\ UNCHANGED <<names, events, delivered>>

SetName(t, n) ==
    /\ names' = [u \in DOMAIN names \cup {t} |-> IF u = t THEN n ELSE names[u]]
    /\ UNCHANGED <<stacks, events, delivered>>

\* A deallocation is told without a stack.
Tell(t, a, withStack) ==
    /\ events' = Append(events,
            [tid |-> t, allocation |-> a, stack |-> IF withStack THEN stacks[t] ELSE <<>>])
    /\ UNCHANGED <<stacks, names, delivered>>

CaptureMemorySnapshot(rss) ==
    /\ events' = Append(events, [rss |-> rss])
    /\ UNCHANGED <<stacks, names, delivered>>

\* The reader hears of the next event.
Deliver ==
    /\ Len(delivered) < Len(events)
    /\ delivered' = Append(delivered, events[Len(delivered) + 1])
    /\ UNCHANGED <<stacks, names, events>>

Next ==
    \/ Deliver
    \/ \E rss \in RSS : CaptureMemorySnapshot(rss)
    \/ \E t \in Tids :
        \/ \E f \in Frames : Push(t, f)
        \/ \E n \in 1..Len(stacks[t]) : Pop(t, n)
        \/ \E n \in Names : SetName(t, n)
        \/ \E a \in Allocations, s \in BOOLEAN : Tell(t, a, s)

Spec == Init /\ [][Next]_vars

\* The reader is never starved.
FairSpec == Spec /\ WF_vars(Deliver)
=============================================================================
