----------------------------- MODULE StackTraces -----------------------------
(***************************************************************************)
(* The stack traces that a reader's records give to the reporters.         *)
(*                                                                         *)
(* A record names a Python stack and, with native traces, a native stack,  *)
(* both from the most recent frame to the oldest.  entry[i] says that the  *)
(* i-th Python frame is the one its evaluation loop was called for: since  *)
(* Python 3.11 one call of the loop may evaluate several frames.  The      *)
(* frames above the one that entered the Tracker are hidden, on the thread *)
(* that entered it.                                                        *)
(***************************************************************************)
EXTENDS Integers, Sequences, SequencesExt, FiniteSetsExt

CONSTANTS
    Eval,       \* the native frame of _PyEval_EvalFrameDefault
    MainTid,    \* the thread that entered the Tracker
    Skipped,    \* its frames at that time, but for the youngest
    All         \* max_stacks=None

ASSUME SkippedAssumption == Skipped \in Nat

\* The first n elements, if there are as many.
Take(s, n) == SubSeq(s, 1, Min({n, Len(s)}))

Limited(s, max) == IF max = All THEN s ELSE Take(s, max)

\* With a limit the hidden frames are not looked at.
stack_trace(r, max) ==
    IF max # All THEN Take(r.python, max)
    ELSE IF r.tid = MainTid THEN Take(r.python, Max({Len(r.python) - Skipped, 0}))
    ELSE r.python

native_stack_trace(r, max) == Limited(r.native, max)

\* The frames that the next call of the evaluation loop evaluates, when the
\* oldest of them is the p-th: down to one that is followed by an entry frame.
Evaluated(r, p) ==
    LET youngest == CHOOSE q \in 1..p :
            /\ q = 1 \/ r.entry[q - 1]
            /\ \A i \in q..(p - 1) : ~r.entry[i]
    IN youngest..p

\* Mutant: the frames above the first one to keep stay.
PlaceNativeBelow(r, acc, frame) ==
    IF acc.p = 0 \/ frame # Eval
    THEN [acc EXCEPT !.stack = <<frame>> \o @, !.placed = @ + 1]
    ELSE LET frames == Evaluated(r, acc.p) IN
         [p |-> Min(frames) - 1, placed |-> acc.placed + Cardinality(frames),
          stack |-> SubSeq(r.python, Min(frames), acc.p) \o acc.stack]

\* From the oldest native frame to the youngest, with the Python frames from
\* p down still to be placed: a call of the evaluation loop is replaced by the
\* frames it evaluated.  What is older than the first frame to keep is dropped
\* when that frame is reached.
PlaceNative(r, acc, frame) ==
    IF acc.p = 0 \/ frame # Eval
    THEN [acc EXCEPT !.stack = <<frame>> \o @, !.placed = @ + 1]
    ELSE LET frames == Evaluated(r, acc.p)
             youngest == Min(frames)
             skip == IF r.tid = MainTid THEN Skipped ELSE 0
             first == Len(r.python) - skip
         IN [p |-> youngest - 1,
             placed |-> acc.placed + Cardinality(frames),
             stack |-> IF skip # 0 /\ first \in frames
                       THEN SubSeq(r.python, youngest, first)
                       ELSE SubSeq(r.python, youngest, acc.p) \o acc.stack]

Placed(r) ==
    FoldLeft(LAMBDA acc, frame : PlaceNative(r, acc, frame),
             [p |-> Len(r.python), placed |-> 0, stack |-> <<>>],
             Reverse(r.native))

\* There are as many places as native frames and inserted Python frames; the
\* assertions of the code say that all are filled and that there are enough.
Places(r) == Len(r.native) + Cardinality({i \in DOMAIN r.python : ~r.entry[i]})

\* Python frames are left when calls of the loop were not recognized: then the
\* Python stack is returned instead, all of it.
RanOut(r) == Placed(r).p > 0

AssertionsHold(r) ==
    IF RanOut(r) THEN Placed(r).placed <= Places(r) ELSE Placed(r).placed = Places(r)

hybrid_stack_trace(r, max) ==
    IF RanOut(r) THEN r.python ELSE Limited(Placed(r).stack, max)

\* What a reporter asks for.
Trace(r, native_traces, max) ==
    IF native_traces THEN hybrid_stack_trace(r, max) ELSE stack_trace(r, max)

\* The thread that a report names; threads with a name of their own are left out.
format_thread_name(r) == "0x" \o ToString(r.tid)
==============================================================================
