------------------------- MODULE PythonStackProofs -------------------------
(***************************************************************************)
(* Proofs about PythonStack, for any number of threads, functions, lines,  *)
(* stack depths and trackers.                                              *)
(***************************************************************************)
EXTENDS PythonStack, FiniteSetTheorems, SequenceTheorems, TLAPS

(* Helpers of the shadow stack. *)

\* The scan of emitPendingPushesAndPops stops at the youngest emitted frame or
\* just below it.
LEMMA KeptBound ==
    ASSUME NEW t \in Threads, NEW stack \in Seq(LazilyEmittedFrame),
           NEW k \in 0..Len(stack), EmittedUpTo(stack, k)
    PROVE  LET m == Kept(t, stack) IN
           /\ m \in 0..Len(stack)
           /\ m = k \/ (m = k - 1 /\ stack[k].state = MAY_HAVE_CHANGED)
           /\ \A i \in (m + 1)..Len(stack) : MustEmit(t, stack[i])
           /\ m > 0 => ~MustEmit(t, stack[m])
<1> DEFINE P(m) == /\ \A i \in (m + 1)..Len(stack) : MustEmit(t, stack[i])
                   /\ m > 0 => ~MustEmit(t, stack[m])
<1>1. Len(stack) \in Nat OBVIOUS
<1>2. \E m \in 0..Len(stack) : P(m)
  <2>1. CASE k = 0 \/ ~MustEmit(t, stack[k])
    BY <1>1, <2>1 DEF EmittedUpTo, MustEmit
  <2>2. CASE k > 0 /\ MustEmit(t, stack[k])
    <3>1. stack[k].state = MAY_HAVE_CHANGED
      BY <1>1, <2>2 DEF EmittedUpTo, MustEmit, NOT_EMITTED, MAY_HAVE_CHANGED, HAS_NOT_CHANGED
    <3>2. \A i \in k..Len(stack) : MustEmit(t, stack[i])
      BY <1>1, <2>2 DEF EmittedUpTo, MustEmit
    <3>3. k - 1 > 0 => ~MustEmit(t, stack[k - 1])
      BY <1>1, <2>2 DEF EmittedUpTo, MustEmit, NOT_EMITTED, MAY_HAVE_CHANGED, HAS_NOT_CHANGED
    <3>4. P(k - 1)
      BY <3>2, <3>3, <2>2
    <3> QED BY <3>4, <1>1, <2>2
  <2> QED BY <2>1, <2>2
<1>3. Kept(t, stack) \in 0..Len(stack) /\ P(Kept(t, stack))
  BY <1>2 DEF Kept
<1> QED
  BY <1>1, <1>3 DEF EmittedUpTo, MustEmit, NOT_EMITTED, MAY_HAVE_CHANGED, HAS_NOT_CHANGED

\* Line numbers are lines, or 0 for a frame that is gone.
LEMMA LineNumberType ==
    ASSUME TypeOK, NEW t \in Threads, NEW frame \in LazilyEmittedFrame
    PROVE  LineNumber(t, frame) \in Lines \cup {0}
<1>1. pystack[t] \in Seq(PyFrame)
  BY DEF TypeOK
<1>2. ASSUME frame.at \in 1..Len(pystack[t])
      PROVE  pystack[t][frame.at].line \in Lines
  <2>1. pystack[t][frame.at] \in PyFrame
    BY <1>1, <1>2
  <2> QED BY <2>1 DEF PyFrame
<1> QED
  BY <1>2 DEF LineNumber

\* The refreshed stack has the same frames; those above the stop await emission.
LEMMA RefreshedStack ==
    ASSUME TypeOK, NEW t \in Threads, NEW stack \in Seq(LazilyEmittedFrame),
           NEW k \in 0..Len(stack), EmittedUpTo(stack, k)
    PROVE  LET m == Kept(t, stack)
               fresh == Refreshed(t, stack)
           IN /\ fresh \in Seq(LazilyEmittedFrame)
              /\ Len(fresh) = Len(stack)
              /\ \A i \in 1..Len(stack) :
                    /\ fresh[i].at = stack[i].at /\ fresh[i].code = stack[i].code
                    /\ i <= m => fresh[i].line = stack[i].line
                                 /\ fresh[i].state = HAS_NOT_CHANGED
                    /\ i > m => fresh[i].line = LineNumber(t, stack[i])
                                /\ fresh[i].state = NOT_EMITTED
<1> DEFINE m == Kept(t, stack)
           fresh == Refreshed(t, stack)
<1>1. m \in 0..Len(stack) /\ (m = k \/ m = k - 1)
  BY KeptBound
<1>2. Len(stack) \in Nat /\ \A i \in 1..Len(stack) : stack[i] \in LazilyEmittedFrame
  OBVIOUS
<1>3. \A i \in 1..Len(stack) : LineNumber(t, stack[i]) \in Lines \cup {0}
  BY <1>2, LineNumberType
<1>4. fresh = [i \in 1..Len(stack) |->
                IF i > m
                THEN ToEmit(stack[i].at, stack[i].code, LineNumber(t, stack[i]))
                ELSE IF i = m THEN WithState(stack[i], HAS_NOT_CHANGED) ELSE stack[i]]
  BY DEF Refreshed
<1> HIDE DEF fresh, m
<1>5. ASSUME NEW i \in 1..Len(stack)
      PROVE  fresh[i] \in LazilyEmittedFrame
  <2>1. stack[i] \in LazilyEmittedFrame /\ LineNumber(t, stack[i]) \in Lines \cup {0}
    BY <1>2, <1>3
  <2>2. CASE i > m
    BY <2>1, <2>2, <1>1, <1>4 DEF LazilyEmittedFrame, FrameState, ToEmit
  <2>3. CASE i = m
    BY <2>1, <2>3, <1>1, <1>4 DEF LazilyEmittedFrame, FrameState, WithState
  <2>4. CASE i < m
    BY <2>1, <2>4, <1>1, <1>4 DEF LazilyEmittedFrame, FrameState
  <2> QED BY <1>1, <2>2, <2>3, <2>4
<1>6. fresh \in Seq(LazilyEmittedFrame) /\ Len(fresh) = Len(stack)
  BY <1>2, <1>4, <1>5
<1>7. ASSUME NEW i \in 1..Len(stack)
      PROVE  /\ fresh[i].at = stack[i].at /\ fresh[i].code = stack[i].code
             /\ i <= m => fresh[i].line = stack[i].line
                          /\ fresh[i].state = HAS_NOT_CHANGED
             /\ i > m => fresh[i].line = LineNumber(t, stack[i])
                         /\ fresh[i].state = NOT_EMITTED
  <2>1. stack[i] \in LazilyEmittedFrame
    BY <1>2
  <2>2. CASE i > m
    BY <2>1, <2>2, <1>1, <1>4 DEF LazilyEmittedFrame, ToEmit
  <2>3. CASE i = m
    BY <2>1, <2>3, <1>1, <1>4 DEF LazilyEmittedFrame, WithState
  <2>4. CASE i < m
    BY <2>1, <2>4, <1>1, <1>4 DEF LazilyEmittedFrame, EmittedUpTo
  <2> QED BY <1>1, <2>2, <2>3, <2>4
<1> QED
  BY <1>6, <1>7 DEF fresh, m

\* The youngest frame of an invalidated stack is not taken to stay on its
\* line; nothing else changes.
LEMMA InvalidatedStack ==
    ASSUME NEW stack \in Seq(LazilyEmittedFrame), NEW k \in 0..Len(stack), EmittedUpTo(stack, k)
    PROVE  LET out == InvalidateMostRecentFrameLineNumber(stack) IN
           /\ out \in Seq(LazilyEmittedFrame)
           /\ Len(out) = Len(stack)
           /\ EmittedUpTo(out, k)
           /\ out # <<>> => out[Len(out)].state # HAS_NOT_CHANGED
           /\ \A i \in 1..Len(stack) :
                /\ out[i].at = stack[i].at /\ out[i].code = stack[i].code
                /\ out[i].line = stack[i].line
                /\ out[i].state = HAS_NOT_CHANGED => stack[i].state = HAS_NOT_CHANGED
<1> DEFINE n == Len(stack)
           out == InvalidateMostRecentFrameLineNumber(stack)
<1>1. n \in Nat /\ \A i \in 1..n : stack[i] \in LazilyEmittedFrame
  OBVIOUS
<1>2. CASE stack # <<>> /\ stack[n].state = HAS_NOT_CHANGED
  <2>1. n > 0
    BY <1>2
  <2>2. out = [stack EXCEPT ![n] = WithState(stack[n], MAY_HAVE_CHANGED)]
    BY <1>2 DEF InvalidateMostRecentFrameLineNumber
  <2>3. WithState(stack[n], MAY_HAVE_CHANGED) \in LazilyEmittedFrame
    BY <1>1, <2>1 DEF WithState, LazilyEmittedFrame, FrameState
  <2> HIDE DEF out
  <2>4. out \in Seq(LazilyEmittedFrame) /\ Len(out) = n
    BY <1>1, <2>1, <2>2, <2>3, ExceptSeq
  <2>5. ASSUME NEW i \in 1..n
        PROVE  /\ out[i].at = stack[i].at /\ out[i].code = stack[i].code
               /\ out[i].line = stack[i].line
               /\ out[i].state = IF i = n THEN MAY_HAVE_CHANGED ELSE stack[i].state
    BY <1>1, <2>1, <2>2 DEF WithState
  <2>6. n <= k
    BY <1>1, <1>2, <2>1 DEF EmittedUpTo, NOT_EMITTED, HAS_NOT_CHANGED
  <2>7. EmittedUpTo(out, k)
    BY <1>1, <2>4, <2>5, <2>6 DEF EmittedUpTo
  <2>8. out # <<>> => out[Len(out)].state # HAS_NOT_CHANGED
    BY <2>1, <2>4, <2>5 DEF MAY_HAVE_CHANGED, HAS_NOT_CHANGED
  <2> QED BY <2>4, <2>5, <2>7, <2>8 DEF out, MAY_HAVE_CHANGED, HAS_NOT_CHANGED
<1>3. CASE ~(stack # <<>> /\ stack[n].state = HAS_NOT_CHANGED)
  <2>1. out = stack
    BY <1>3 DEF InvalidateMostRecentFrameLineNumber
  <2> QED BY <2>1, <1>3
<1> QED BY <1>2, <1>3

\* Marking frames up to `last` emitted, after a scan that stopped at m.
LEMMA MarkedStack ==
    ASSUME NEW fresh \in Seq(LazilyEmittedFrame),
           NEW m \in 0..Len(fresh), NEW last \in m..Len(fresh),
           \A i \in 1..Len(fresh) :
                fresh[i].state = IF i <= m THEN HAS_NOT_CHANGED ELSE NOT_EMITTED
    PROVE  LET out == MarkEmitted(fresh, m, last) IN
           /\ out \in Seq(LazilyEmittedFrame)
           /\ Len(out) = Len(fresh)
           /\ EmittedUpTo(out, last)
           /\ \A i \in 1..Len(fresh) :
                out[i].at = fresh[i].at /\ out[i].code = fresh[i].code
                /\ out[i].line = fresh[i].line
<1> DEFINE n == Len(fresh)
           out == MarkEmitted(fresh, m, last)
<1>1. n \in Nat /\ m \in Nat /\ last \in Nat /\ \A i \in 1..n : fresh[i] \in LazilyEmittedFrame
  OBVIOUS
<1>2. out = [i \in 1..n |-> IF i > m /\ i <= last
                            THEN WithState(fresh[i], HAS_NOT_CHANGED) ELSE fresh[i]]
  BY DEF MarkEmitted
<1> HIDE DEF out
<1>3. ASSUME NEW i \in 1..n
      PROVE  /\ out[i] \in LazilyEmittedFrame
             /\ out[i].at = fresh[i].at /\ out[i].code = fresh[i].code
             /\ out[i].line = fresh[i].line
             /\ out[i].state = IF i <= last THEN HAS_NOT_CHANGED ELSE NOT_EMITTED
  <2>1. fresh[i] \in LazilyEmittedFrame
    BY <1>1
  <2>2. CASE i > m /\ i <= last
    <3>1. out[i] = WithState(fresh[i], HAS_NOT_CHANGED)
      BY <1>2, <2>2
    <3> QED BY <2>1, <2>2, <3>1 DEF WithState, LazilyEmittedFrame, FrameState
  <2>3. CASE ~(i > m /\ i <= last)
    <3>1. out[i] = fresh[i]
      BY <1>2, <2>3
    <3> QED BY <1>1, <2>1, <2>3, <3>1 DEF LazilyEmittedFrame
  <2> QED BY <2>2, <2>3
<1>4. out \in Seq(LazilyEmittedFrame) /\ Len(out) = n
  BY <1>1, <1>2, <1>3
<1>5. EmittedUpTo(out, last)
  BY <1>1, <1>3, <1>4 DEF EmittedUpTo
<1> QED BY <1>3, <1>4, <1>5 DEF out

\* The number of emitted frames, as clear() counts them.
LEMMA NumEmittedIs ==
    ASSUME NEW stack \in Seq(LazilyEmittedFrame), NEW k \in 0..Len(stack), EmittedUpTo(stack, k)
    PROVE  NumEmitted(stack) = k
<1>1. {i \in 1..Len(stack) : stack[i].state # NOT_EMITTED} = 1..k
  BY DEF EmittedUpTo, NOT_EMITTED, HAS_NOT_CHANGED, MAY_HAVE_CHANGED
<1>2. Cardinality(1..k) = k
  BY FS_Interval
<1> QED BY <1>1, <1>2 DEF NumEmitted

\* The emitted frames above the stop of the scan are the artificial pops.
LEMMA ArtificialPopsAre ==
    ASSUME NEW t \in Threads, NEW stack \in Seq(LazilyEmittedFrame),
           NEW k \in 0..Len(stack), EmittedUpTo(stack, k)
    PROVE  ArtificialPops(t, stack) = k - Kept(t, stack)
<1> DEFINE m == Kept(t, stack)
           popped == {i \in (m + 1)..Len(stack) : stack[i].state = MAY_HAVE_CHANGED}
<1>1. /\ m \in 0..Len(stack)
      /\ m = k \/ (m = k - 1 /\ stack[k].state = MAY_HAVE_CHANGED)
  BY KeptBound
<1> HIDE DEF m
<1>2. popped = (m + 1)..k
  BY <1>1 DEF EmittedUpTo, NOT_EMITTED, HAS_NOT_CHANGED, MAY_HAVE_CHANGED
<1>3. Cardinality((m + 1)..k) = k - m
  <2>1. m \in Int /\ m + 1 \in Int /\ k \in Int /\ m <= k
    BY <1>1
  <2>2. Cardinality((m + 1)..k) = IF m + 1 > k THEN 0 ELSE k - (m + 1) + 1
    BY <2>1, FS_Interval
  <2> QED BY <2>1, <2>2
<1> QED BY <1>2, <1>3 DEF ArtificialPops, m

\* A shadow stack without its youngest frame.
LEMMA PoppedStack ==
    ASSUME NEW stack \in Seq(LazilyEmittedFrame), NEW k \in 0..Len(stack),
           EmittedUpTo(stack, k), stack # <<>>
    PROVE  LET out == WithoutYoungest(stack) IN
           /\ out \in Seq(LazilyEmittedFrame)
           /\ Len(out) = Len(stack) - 1
           /\ \A i \in 1..Len(out) : out[i] = stack[i]
           /\ stack[Len(stack)].state = NOT_EMITTED => k \in 0..Len(out) /\ EmittedUpTo(out, k)
           /\ stack[Len(stack)].state # NOT_EMITTED
                => k = Len(stack) /\ EmittedUpTo(out, k - 1)
<1> DEFINE n == Len(stack)
           out == WithoutYoungest(stack)
<1>1. n \in Nat /\ n > 0
  OBVIOUS
<1>2. /\ out \in Seq(LazilyEmittedFrame)
      /\ Len(out) = n - 1
      /\ \A i \in 1..(n - 1) : out[i] = stack[i]
  <2>1. 1 \in Int /\ n - 1 \in Int /\ \A i \in 1..(n - 1) : stack[i] \in LazilyEmittedFrame
    BY <1>1
  <2>2. /\ SubSeq(stack, 1, n - 1) \in Seq(LazilyEmittedFrame)
        /\ Len(SubSeq(stack, 1, n - 1)) = IF 1 <= n - 1 THEN (n - 1) - 1 + 1 ELSE 0
        /\ \A i \in 1..((n - 1) - 1 + 1) : SubSeq(stack, 1, n - 1)[i] = stack[1 + i - 1]
    BY <2>1, SubSeqProperties
  <2>3. \A i \in 1..(n - 1) : i \in 1..((n - 1) - 1 + 1) /\ 1 + i - 1 = i
    BY <1>1
  <2>4. out = SubSeq(stack, 1, n - 1)
    BY DEF WithoutYoungest
  <2> HIDE DEF out
  <2>5. Len(out) = n - 1
    <3>1. Len(out) = IF 1 <= n - 1 THEN (n - 1) - 1 + 1 ELSE 0
      BY <2>2, <2>4
    <3> HIDE DEF n
    <3> QED BY <1>1, <3>1
  <2>6. ASSUME NEW i \in 1..(n - 1) PROVE out[i] = stack[i]
    <3>1. out[i] = stack[1 + i - 1]
      BY <2>2, <2>3, <2>4
    <3> QED BY <2>3, <3>1
  <2> QED BY <2>2, <2>4, <2>5, <2>6
<1> HIDE DEF out
<1>3. ASSUME stack[n].state = NOT_EMITTED
      PROVE  k \in 0..Len(out) /\ EmittedUpTo(out, k)
  BY <1>1, <1>2, <1>3 DEF EmittedUpTo, NOT_EMITTED, HAS_NOT_CHANGED, MAY_HAVE_CHANGED
<1>4. ASSUME stack[n].state # NOT_EMITTED
      PROVE  k = n /\ EmittedUpTo(out, k - 1)
  BY <1>1, <1>2, <1>4 DEF EmittedUpTo
<1> QED BY <1>2, <1>3, <1>4 DEF out

\* A frame that is yet to be emitted on top of a shadow stack.
LEMMA PushedStack ==
    ASSUME NEW stack \in Seq(LazilyEmittedFrame), NEW k \in 0..Len(stack),
           EmittedUpTo(stack, k), NEW at \in Nat, NEW code \in Codes
    PROVE  LET out == Append(stack, LazyFrame(at, code)) IN
           /\ out \in Seq(LazilyEmittedFrame)
           /\ Len(out) = Len(stack) + 1
           /\ k \in 0..Len(out)
           /\ EmittedUpTo(out, k)
           /\ \A i \in 1..Len(stack) : out[i] = stack[i]
           /\ out[Len(out)] = LazyFrame(at, code)
<1> DEFINE n == Len(stack)
           frame == LazyFrame(at, code)
           out == Append(stack, frame)
<1>1. frame \in LazilyEmittedFrame /\ frame.state = NOT_EMITTED
  BY DEF LazyFrame, ToEmit, LazilyEmittedFrame, FrameState
<1> HIDE DEF frame
<1>2. /\ out \in Seq(LazilyEmittedFrame) /\ Len(out) = n + 1
      /\ \A i \in 1..n : out[i] = stack[i]
      /\ out[n + 1] = frame
  BY <1>1
<1> HIDE DEF out
<1>3. EmittedUpTo(out, k)
  BY <1>1, <1>2 DEF EmittedUpTo
<1> QED BY <1>2, <1>3 DEF out, frame

\* The frames of a Python stack, none of them emitted.
LEMMA FrameToStack ==
    ASSUME NEW frames \in Seq(PyFrame)
    PROVE  LET out == PythonFrameToStack(frames) IN
           /\ out \in Seq(LazilyEmittedFrame)
           /\ Len(out) = Len(frames)
           /\ \A i \in 1..Len(frames) : out[i] = LazyFrame(i, frames[i].code)
           /\ \A i \in 1..Len(frames) : out[i].state = NOT_EMITTED
           /\ Mirrors(out, frames)
<1> DEFINE out == PythonFrameToStack(frames)
<1>1. Len(frames) \in Nat /\ \A i \in 1..Len(frames) : frames[i] \in PyFrame
  OBVIOUS
<1>2. out = [i \in 1..Len(frames) |-> LazyFrame(i, frames[i].code)]
  BY DEF PythonFrameToStack
<1> HIDE DEF out
<1>3. ASSUME NEW i \in 1..Len(frames)
      PROVE  /\ out[i] \in LazilyEmittedFrame
             /\ out[i] = LazyFrame(i, frames[i].code)
             /\ out[i].state = NOT_EMITTED
             /\ out[i].at = i /\ out[i].code = frames[i].code
  <2>1. out[i] = LazyFrame(i, frames[i].code) /\ frames[i].code \in Codes /\ i \in Nat
    BY <1>1, <1>2 DEF PyFrame
  <2> QED BY <2>1 DEF LazyFrame, ToEmit, LazilyEmittedFrame, FrameState
<1>4. out \in Seq(LazilyEmittedFrame) /\ Len(out) = Len(frames)
  BY <1>1, <1>2, <1>3
<1>5. Mirrors(out, frames)
  BY <1>3, <1>4 DEF Mirrors
<1> QED BY <1>3, <1>4, <1>5 DEF out

-----------------------------------------------------------------------------
(* What the inductive invariant implies. *)

\* The emitted part of a shadow stack has only one length.
LEMMA EmittedUnique ==
    ASSUME NEW stack \in Seq(LazilyEmittedFrame), NEW j \in 0..Len(stack), NEW k \in 0..Len(stack),
           EmittedUpTo(stack, j), EmittedUpTo(stack, k)
    PROVE  j = k
BY DEF EmittedUpTo, NOT_EMITTED, HAS_NOT_CHANGED, MAY_HAVE_CHANGED

\* What the stacks of a thread are: that of the tracker, the captured one, the
\* one of the interpreter and the one a reader has.
LEMMA ShadowType ==
    ASSUME TypeOK, NEW t \in Threads
    PROVE  /\ ShadowStack(t) \in Seq(LazilyEmittedFrame)
           /\ Get(t).pops \in Nat
           /\ Get(t).gen = gen
           /\ tls[t].stack \in Seq(LazilyEmittedFrame)
           /\ tls[t].pops \in Nat
           /\ captured[t] \in Seq(LazilyEmittedFrame)
           /\ pystack[t] \in Seq(PyFrame)
           /\ emitted[t] \in Seq(RawFrame)
BY DEF TypeOK, ShadowStack, Get, Shadow

\* The invariant says that the tracked stack is the Python stack.
LEMMA InvShadow == IInv => ShadowIsPythonStack
BY DEF IInv, Mirroring, MirroringOf, Live, ShadowIsPythonStack

\* The invariant says that a reader can reach the tracked stack.
LEMMA InvReader == IInv => ReaderInSync
<1> SUFFICES ASSUME IInv, inst, NEW t \in Threads
             PROVE  LET s == Get(t)
                        n == NumEmitted(s.stack)
                    IN /\ Len(emitted[t]) = n + s.pops
                       /\ \A i \in 1..n : emitted[t][i] =
                            [code |-> s.stack[i].code, line |-> s.stack[i].line]
  BY DEF ReaderInSync
<1>1. TypeOK /\ ReadingOf(t)
  BY DEF IInv, Reading, Live
<1>2. PICK k \in 0..Len(ShadowStack(t)) : ReadUpTo(emitted[t], ShadowStack(t), k, Get(t).pops)
  BY <1>1 DEF ReadingOf
<1>3. NumEmitted(ShadowStack(t)) = k
  BY <1>1, <1>2, ShadowType, NumEmittedIs DEF ReadUpTo
<1> QED BY <1>2, <1>3 DEF ReadUpTo, ShadowStack

\* The invariant says that records name the stack that allocated.
LEMMA InvAttribution == IInv => Attribution
<1> SUFFICES ASSUME IInv, NEW t \in Threads, pc[t] = "write", inst
             PROVE  emitted[t] = IF prof[t] \in {"trampoline", "trace"}
                                 THEN Frames(pystack[t]) ELSE <<>>
  BY DEF Attribution
<1> DEFINE stack == tls[t].stack
<1>1. /\ TypeOK /\ ReadingOf(t) /\ SettledOf(t) /\ MirroringOf(t)
  BY DEF IInv, Reading, Live, Settled, Mirroring
<1>2. Get(t) = tls[t] /\ ShadowStack(t) = stack
  BY <1>1 DEF SettledOf, Get, ShadowStack
<1>3. stack \in Seq(LazilyEmittedFrame) /\ pystack[t] \in Seq(PyFrame) /\ emitted[t] \in Seq(RawFrame)
  BY <1>1, ShadowType
<1>4. PICK k \in 0..Len(stack) : ReadUpTo(emitted[t], stack, k, 0)
  BY <1>1, <1>2 DEF ReadingOf, SettledOf
<1> HIDE DEF stack
<1>5. k = Len(stack) /\ EmittedUpTo(stack, k)
  <2>1. EmittedUpTo(stack, k) /\ EmittedUpTo(stack, Len(stack)) /\ Len(stack) \in 0..Len(stack)
    BY <1>1, <1>3, <1>4 DEF ReadUpTo, SettledOf, stack
  <2> QED BY <2>1, <1>3, EmittedUnique
<1>6. /\ Len(emitted[t]) = Len(stack)
      /\ \A i \in 1..Len(stack) : emitted[t][i] = [code |-> stack[i].code, line |-> stack[i].line]
  BY <1>3, <1>4, <1>5 DEF ReadUpTo
<1>7. CASE prof[t] \in {"trampoline", "trace"}
  <2>1. Mirrors(stack, pystack[t])
    BY <1>1, <1>2, <1>7 DEF MirroringOf
  <2>2. ASSUME NEW i \in 1..Len(stack)
        PROVE  stack[i].line = pystack[t][i].line
    <3>1. CASE i = Len(stack)
      BY <1>1, <1>3, <1>7, <3>1 DEF SettledOf, stack
    <3>2. CASE i < Len(stack)
      <4>1. stack[i].state = HAS_NOT_CHANGED
        BY <1>3, <1>5, <3>2 DEF EmittedUpTo
      <4> QED BY <4>1, <1>1, <1>2, <1>7 DEF MirroringOf
    <3> QED BY <1>3, <3>1, <3>2
  <2>3. Frames(pystack[t]) = [i \in 1..Len(pystack[t]) |->
                [code |-> pystack[t][i].code, line |-> pystack[t][i].line]]
    BY DEF Frames
  <2>4. Frames(pystack[t]) \in Seq(RawFrame) /\ Len(Frames(pystack[t])) = Len(pystack[t])
    <3>1. \A i \in 1..Len(pystack[t]) : pystack[t][i] \in PyFrame
      BY <1>3
    <3>2. \A i \in 1..Len(pystack[t]) :
            [code |-> pystack[t][i].code, line |-> pystack[t][i].line] \in RawFrame
      BY <3>1 DEF PyFrame, RawFrame
    <3> QED BY <1>3, <2>3, <3>2
  <2>5. \A i \in 1..Len(pystack[t]) : Frames(pystack[t])[i] = emitted[t][i]
    <3> SUFFICES ASSUME NEW i \in 1..Len(pystack[t])
                 PROVE  Frames(pystack[t])[i] = emitted[t][i]
      OBVIOUS
    <3>1. i \in 1..Len(stack) /\ stack[i].code = pystack[t][i].code
      BY <2>1 DEF Mirrors
    <3>2. Frames(pystack[t])[i] = [code |-> pystack[t][i].code, line |-> pystack[t][i].line]
      BY <2>3
    <3> QED BY <1>6, <2>2, <3>1, <3>2
  <2>6. Len(emitted[t]) = Len(Frames(pystack[t]))
    BY <1>6, <2>1, <2>4 DEF Mirrors
  <2>7. emitted[t] = Frames(pystack[t])
    BY <1>3, <2>1, <2>4, <2>5, <2>6, SeqEqual
  <2> QED BY <1>7, <2>7
<1>8. CASE prof[t] \notin {"trampoline", "trace"}
  <2>1. stack = <<>>
    BY <1>1, <1>2, <1>8 DEF MirroringOf
  <2>2. emitted[t] = <<>>
    BY <1>3, <1>6, <2>1
  <2> QED BY <1>8, <2>2
<1> QED BY <1>7, <1>8

\* The invariant says that no writer is used after it was closed.
LEMMA InvNoUse == IInv => NoUseAfterClose
BY DEF IInv, LockDiscipline, InTracker, NoUseAfterClose

\* The invariant holds at the start.
LEMMA InitInv == ASSUME Init PROVE IInv
<1> USE DEF Init, NewTracker, Shadow
<1>1. TypeOK
  <2>1. <<>> \in Seq(PyFrame) /\ <<>> \in Seq(LazilyEmittedFrame) /\ <<>> \in Seq(RawFrame)
    OBVIOUS
  <2>2. NewTracker \in [gen : Nat, pops : Nat, stack : Seq(LazilyEmittedFrame)]
    BY <2>1
  <2>3. tls = [t \in Threads |-> NewTracker]
    OBVIOUS
  <2>4. tls \in [Threads -> [gen : Nat, pops : Nat, stack : Seq(LazilyEmittedFrame)]]
    BY <2>2, <2>3 DEF NewTracker
  <2> QED
    BY <2>1, <2>4 DEF TypeOK, ProfileFunction, Locations
<1>2. LockDiscipline /\ GILDiscipline
  BY ConstantsAssumption DEF LockDiscipline, InTracker, GILDiscipline, InLifecycle
<1>3. ~Live
  BY DEF Live
<1>4. Generations
  BY <1>3 DEF Generations, Live
<1>5. FrameOrder /\ YoungestMayMove
  BY DEF FrameOrder, FramesInOrder, EmittedUpTo, YoungestMayMove
<1>6. CallbacksAreFresh /\ Mirroring /\ Reading /\ Settled
  BY <1>3 DEF CallbacksAreFresh, Mirroring, Reading, Settled
<1> QED BY <1>1, <1>2, <1>4, <1>5, <1>6 DEF IInv

-----------------------------------------------------------------------------
(* What the steps have in common. *)

\* A shadow stack that a later emission can handle.
WellFormed(stack) ==
    /\ stack \in Seq(LazilyEmittedFrame)
    /\ FramesInOrder(stack)
    /\ stack # <<>> => stack[Len(stack)].state # HAS_NOT_CHANGED

\* get() returns the thread's own stack or the one captured for it.
LEMMA GetWellFormed ==
    ASSUME IInv, NEW t \in Threads
    PROVE  WellFormed(ShadowStack(t)) /\ WellFormed(tls[t].stack)
<1>1. /\ TypeOK /\ FramesInOrder(tls[t].stack)
      /\ tls[t].stack # <<>> => tls[t].stack[Len(tls[t].stack)].state # HAS_NOT_CHANGED
      /\ \A i \in 1..Len(captured[t]) : captured[t][i].state = NOT_EMITTED
  BY DEF IInv, FrameOrder, YoungestMayMove, Generations
<1>2. captured[t] \in Seq(LazilyEmittedFrame) /\ tls[t].stack \in Seq(LazilyEmittedFrame)
  BY <1>1, ShadowType
<1>3. WellFormed(tls[t].stack)
  BY <1>1, <1>2 DEF WellFormed
<1>4. WellFormed(captured[t])
  <2>1. EmittedUpTo(captured[t], 0)
    BY <1>1, <1>2 DEF EmittedUpTo
  <2>2. FramesInOrder(captured[t])
    BY <1>2, <2>1 DEF FramesInOrder
  <2>3. captured[t] # <<>> => captured[t][Len(captured[t])].state # HAS_NOT_CHANGED
    BY <1>1, <1>2 DEF NOT_EMITTED, HAS_NOT_CHANGED
  <2> QED BY <1>2, <2>2, <2>3 DEF WellFormed
<1>5. ShadowStack(t) = tls[t].stack \/ ShadowStack(t) = captured[t]
  BY DEF ShadowStack, Get, Shadow
<1> QED BY <1>3, <1>4, <1>5

\* A thread that leaves `s` behind disturbs no other thread's tracker.
LEMMA TrackerUsed ==
    ASSUME TypeOK, NEW t \in Threads,
           NEW s \in [gen : Nat, pops : Nat, stack : Seq(LazilyEmittedFrame)],
           s.gen = gen, gen' = gen, UseTracker(t, s)
    PROVE  /\ tls' \in [Threads -> [gen : Nat, pops : Nat, stack : Seq(LazilyEmittedFrame)]]
           /\ captured' \in [Threads -> Seq(LazilyEmittedFrame)]
           /\ tls'[t] = s /\ Get(t)' = s
           /\ \A u \in Threads \ {t} : /\ tls'[u] = tls[u] /\ Get(u)' = Get(u)
                                       /\ captured'[u] = captured[u]
           /\ (captured'[t] = captured[t] /\ tls[t].gen = gen) \/ captured'[t] = <<>>
<1>1. /\ tls \in [Threads -> [gen : Nat, pops : Nat, stack : Seq(LazilyEmittedFrame)]]
      /\ captured \in [Threads -> Seq(LazilyEmittedFrame)]
  BY DEF TypeOK
<1>2. /\ tls' = [tls EXCEPT ![t] = s]
      /\ captured' = IF tls[t].gen = gen THEN captured ELSE [captured EXCEPT ![t] = <<>>]
  BY DEF UseTracker, CapturedAfterGet
<1>3. tls'[t] = s /\ \A u \in Threads \ {t} : tls'[u] = tls[u]
  BY <1>1, <1>2
<1>4. /\ \A u \in Threads \ {t} : captured'[u] = captured[u]
      /\ (captured'[t] = captured[t] /\ tls[t].gen = gen) \/ captured'[t] = <<>>
  BY <1>1, <1>2
<1>5. Get(t)' = s
  BY <1>3 DEF Get
<1>6. \A u \in Threads \ {t} : Get(u)' = Get(u)
  BY <1>3, <1>4 DEF Get
<1>7. /\ tls' \in [Threads -> [gen : Nat, pops : Nat, stack : Seq(LazilyEmittedFrame)]]
      /\ captured' \in [Threads -> Seq(LazilyEmittedFrame)]
  <2>1. <<>> \in Seq(LazilyEmittedFrame)
    OBVIOUS
  <2> QED BY <1>1, <1>2, <2>1
<1> QED BY <1>3, <1>4, <1>5, <1>6, <1>7

\* What a step does not touch it does not disturb.
LEMMA MirroringKept ==
    ASSUME NEW u \in Threads, Get(u)' = Get(u), prof'[u] = prof[u], pystack'[u] = pystack[u],
           MirroringOf(u)
    PROVE  MirroringOf(u)'
BY DEF MirroringOf, ShadowStack, Mirrors

\* A step that leaves a stack and what was emitted alone keeps a reader in sync.
LEMMA ReadingKept ==
    ASSUME NEW u \in Threads, Get(u)' = Get(u), emitted'[u] = emitted[u], ReadingOf(u)
    PROVE  ReadingOf(u)'
BY DEF ReadingOf, ShadowStack, ReadUpTo

\* A step that leaves the stacks of a thread alone leaves nothing to emit.
LEMMA SettledKept ==
    ASSUME NEW u \in Threads, tls'[u] = tls[u], gen' = gen, prof'[u] = prof[u],
           pystack'[u] = pystack[u], SettledOf(u)
    PROVE  SettledOf(u)'
BY DEF SettledOf

\* A step that touches neither stacks, shadow stacks nor what was emitted.
LEMMA StacksKept ==
    ASSUME IInv, UNCHANGED <<pystack, prof, shadow, emitted>>, open' = open, Live' => Live
    PROVE  FrameOrder' /\ YoungestMayMove' /\ Mirroring' /\ Reading'
<1>1. \A u \in Threads : Get(u)' = Get(u) /\ tls'[u] = tls[u]
  BY DEF shadow, Get
<1>2. \A u \in Threads :
        /\ MirroringOf(u) => MirroringOf(u)'
        /\ ReadingOf(u) => ReadingOf(u)'
  BY <1>1, MirroringKept, ReadingKept
<1>3. FrameOrder' /\ YoungestMayMove'
  BY DEF IInv, FrameOrder, FramesInOrder, EmittedUpTo, YoungestMayMove, shadow
<1>4. Mirroring' /\ Reading'
  BY <1>2 DEF IInv, Mirroring, Reading
<1> QED BY <1>3, <1>4
-----------------------------------------------------------------------------
(* Steps that do not move a stack: the GIL, the lock, the life of a tracker. *)

LEMMA TakeGILInv ==
    ASSUME IInv, NEW t \in Threads, TakeGIL(t)
    PROVE  IInv'
<1> USE DEF TakeGIL, tracker, shadow
<1>1. TypeOK'
  BY DEF IInv, TypeOK
<1>2. LockDiscipline' /\ GILDiscipline'
  BY ConstantsAssumption DEF IInv, LockDiscipline, GILDiscipline, InTracker, InLifecycle
<1>3. Generations' /\ CallbacksAreFresh'
  BY DEF IInv, Generations, Live, CallbacksAreFresh
<1>4. FrameOrder' /\ YoungestMayMove' /\ Mirroring' /\ Reading'
  BY StacksKept DEF Live
<1>5. Settled'
  BY DEF IInv, Settled, SettledOf
<1> QED BY <1>1, <1>2, <1>3, <1>4, <1>5 DEF IInv

\* A thread gives the GIL up.
LEMMA DropGILInv ==
    ASSUME IInv, NEW t \in Threads, DropGIL(t)
    PROVE  IInv'
<1> USE DEF DropGIL, Running, tracker, shadow
<1>1. TypeOK'
  BY DEF IInv, TypeOK
<1>2. LockDiscipline' /\ GILDiscipline'
  BY ConstantsAssumption DEF IInv, LockDiscipline, GILDiscipline, InTracker, InLifecycle
<1>3. Generations' /\ CallbacksAreFresh'
  BY DEF IInv, Generations, Live, CallbacksAreFresh
<1>4. FrameOrder' /\ YoungestMayMove' /\ Mirroring' /\ Reading'
  BY StacksKept DEF Live
<1>5. Settled'
  BY DEF IInv, Settled, SettledOf
<1> QED BY <1>1, <1>2, <1>3, <1>4, <1>5 DEF IInv

\* A callback from native code begins, when there is none mid-call.
LEMMA EnsureCallInv ==
    ASSUME IInv, MidCallCallbacks = {}, NEW t \in Threads, EnsureCall(t)
    PROVE  IInv'
<1> USE DEF EnsureCall, MayCallBack, tracker, shadow
<1>1. TypeOK'
  BY DEF IInv, TypeOK, Locations
<1>2. /\ pc[t] = "run" /\ pc'[t] \in {"run", "ensure"}
      /\ pc'[t] = "ensure" => gil # t /\ gil' = gil
      /\ \A u \in Threads \ {t} : pc'[u] = pc[u] /\ tstate'[u] = tstate[u]
      /\ gil' # gil => gil' = t /\ gil = NoThread /\ pc'[t] = "run"
      /\ gil' # gil => tstate'[t] = TRUE
      /\ tstate'[t] = tstate[t] \/ tstate'[t] = TRUE
      /\ prof[t] = "trampoline" => pystack[t] = <<>>
  BY DEF IInv, TypeOK
<1>3. LockDiscipline'
  BY <1>2 DEF IInv, LockDiscipline, InTracker
<1>4. GILDiscipline'
  BY <1>2, ConstantsAssumption DEF IInv, GILDiscipline, InLifecycle
<1>5. Live' <=> Live
  BY <1>2 DEF Live
<1>6. Generations' /\ CallbacksAreFresh'
  <2>1. Generations'
    BY <1>2, <1>5 DEF IInv, Generations
  <2>2. CallbacksAreFresh'
    BY <1>2 DEF IInv, CallbacksAreFresh
  <2> QED BY <2>1, <2>2
<1>7. FrameOrder' /\ YoungestMayMove' /\ Mirroring' /\ Reading'
  BY <1>5, StacksKept
<1>8. Settled'
  BY <1>2 DEF IInv, Settled, SettledOf
<1> QED BY <1>1, <1>3, <1>4, <1>6, <1>7, <1>8 DEF IInv

\* An allocation reaches the tracker.
LEMMA TrackAllocationInv ==
    ASSUME IInv, NEW t \in Threads, TrackAllocation(t)
    PROVE  IInv'
<1> USE DEF TrackAllocation, interpreter, tracker, shadow
<1>1. TypeOK'
  BY DEF IInv, TypeOK, Locations
<1>2. /\ pc[t] = "run" /\ pc'[t] = "track"
      /\ \A u \in Threads \ {t} : pc'[u] = pc[u]
  BY DEF IInv, TypeOK
<1>3. LockDiscipline'
  BY <1>2 DEF IInv, LockDiscipline, InTracker
<1>4. GILDiscipline'
  BY <1>2 DEF IInv, GILDiscipline, InLifecycle
<1>5. Live' <=> Live
  BY <1>2 DEF Live
<1>6. Generations' /\ CallbacksAreFresh'
  <2>1. Generations'
    BY <1>2, <1>5 DEF IInv, Generations
  <2>2. CallbacksAreFresh'
    BY <1>2 DEF IInv, CallbacksAreFresh
  <2> QED BY <2>1, <2>2
<1>7. FrameOrder' /\ YoungestMayMove' /\ Mirroring' /\ Reading'
  BY <1>5, StacksKept
<1>8. Settled'
  BY <1>2 DEF IInv, Settled, SettledOf
<1> QED BY <1>1, <1>3, <1>4, <1>6, <1>7, <1>8 DEF IInv

\* The lock of the tracker is taken, or the tracker is found gone.
LEMMA LockTrackerInv ==
    ASSUME IInv, NEW t \in Threads, LockTracker(t)
    PROVE  IInv'
<1> USE DEF LockTracker, interpreter, tracker, shadow
<1>1. TypeOK'
  BY DEF IInv, TypeOK, Locations
<1>2. /\ pc[t] = "track" /\ lock = NoThread
      /\ (pc'[t] = "emit" /\ inst /\ lock' = t) \/ (pc'[t] = "run" /\ lock' = lock)
      /\ \A u \in Threads \ {t} : pc'[u] = pc[u]
  BY DEF IInv, TypeOK
<1>3. LockDiscipline'
  <2>1. inst => open /\ \A u \in Threads : pc[u] # "activate"
    BY DEF IInv, Generations, GILDiscipline, InLifecycle
  <2>2. \A u \in Threads : ~InTracker(u)
    BY <1>2, ConstantsAssumption DEF IInv, LockDiscipline
  <2> QED BY <1>2, <2>1, <2>2, ConstantsAssumption DEF LockDiscipline, InTracker
<1>4. GILDiscipline'
  BY <1>2 DEF IInv, GILDiscipline, InLifecycle
<1>5. Live' <=> Live
  BY <1>2 DEF Live
<1>6. Generations' /\ CallbacksAreFresh'
  <2>1. Generations'
    BY <1>2, <1>5 DEF IInv, Generations
  <2>2. CallbacksAreFresh'
    BY <1>2 DEF IInv, CallbacksAreFresh
  <2> QED BY <2>1, <2>2
<1>7. FrameOrder' /\ YoungestMayMove' /\ Mirroring' /\ Reading'
  BY <1>5, StacksKept
<1>8. Settled'
  BY <1>2 DEF IInv, Settled, SettledOf
<1> QED BY <1>1, <1>3, <1>4, <1>6, <1>7, <1>8 DEF IInv

\* The allocation is written, with the stack as it was emitted.
LEMMA WriteAllocationInv ==
    ASSUME IInv, NEW t \in Threads, WriteAllocation(t)
    PROVE  IInv'
<1> USE DEF WriteAllocation, interpreter, shadow
<1>1. TypeOK'
  BY DEF IInv, TypeOK, Locations
<1>2. /\ pc[t] = "write" /\ lock' = NoThread /\ pc'[t] = "run"
      /\ inst' => inst
      /\ \A u \in Threads \ {t} : pc'[u] = pc[u]
  BY DEF IInv, TypeOK
<1>3. LockDiscipline'
  <2>1. \A u \in Threads \ {t} : ~InTracker(u)
    BY <1>2 DEF IInv, LockDiscipline, InTracker
  <2> QED BY <1>2, <2>1, ConstantsAssumption DEF LockDiscipline, InTracker
<1>4. GILDiscipline'
  BY <1>2 DEF IInv, GILDiscipline, InLifecycle
<1>5. Live' => Live
  BY <1>2 DEF Live
<1>6. Generations' /\ CallbacksAreFresh'
  <2>1. Generations'
    BY <1>2, <1>5 DEF IInv, Generations
  <2>2. CallbacksAreFresh'
    BY <1>2 DEF IInv, CallbacksAreFresh
  <2> QED BY <2>1, <2>2
<1>7. FrameOrder' /\ YoungestMayMove' /\ Mirroring' /\ Reading'
  BY <1>5, StacksKept
<1>8. Settled'
  BY <1>2 DEF IInv, Settled, SettledOf
<1> QED BY <1>1, <1>3, <1>4, <1>6, <1>7, <1>8 DEF IInv

\* The tracker is activated, after it captured the stacks.
LEMMA ActivateInv ==
    ASSUME IInv, NEW t \in Threads, Activate(t)
    PROVE  IInv'
<1> USE DEF Activate, interpreter, shadow
<1>1. TypeOK'
  BY DEF IInv, TypeOK, Locations
<1>2. /\ pc[t] = "activate" /\ lock = NoThread /\ pc'[t] = "run"
      /\ Live
      /\ \A u \in Threads \ {t} : pc'[u] = pc[u]
  BY DEF IInv, TypeOK, Live
<1>3. LockDiscipline'
  BY <1>2 DEF IInv, LockDiscipline, InTracker
<1>4. /\ gil = t /\ open
      /\ \A u \in Threads \ {t} : ~InLifecycle(u) /\ pc[u] # "write"
  BY <1>2, ConstantsAssumption DEF IInv, GILDiscipline, LockDiscipline, InTracker, InLifecycle
<1>5. GILDiscipline'
  BY <1>2, <1>4 DEF IInv, GILDiscipline, InLifecycle
<1>6. Generations' /\ CallbacksAreFresh'
  <2>1. Generations'
    BY <1>2, <1>4 DEF IInv, Generations
  <2>2. CallbacksAreFresh'
    BY <1>2 DEF IInv, CallbacksAreFresh
  <2> QED BY <2>1, <2>2
<1>7. FrameOrder' /\ YoungestMayMove' /\ Mirroring' /\ Reading'
  BY <1>2, StacksKept
<1>8. Settled'
  BY <1>2, <1>4 DEF Settled
<1> QED BY <1>1, <1>3, <1>5, <1>6, <1>7, <1>8 DEF IInv

\* The background thread deactivates the tracker when it cannot read the RSS.
LEMMA RssUnavailableInv ==
    ASSUME IInv, RssUnavailable
    PROVE  IInv'
<1> USE DEF RssUnavailable, interpreter, shadow
<1>1. TypeOK'
  BY DEF IInv, TypeOK
<1>2. LockDiscipline' /\ GILDiscipline'
  BY DEF IInv, LockDiscipline, GILDiscipline, InTracker, InLifecycle
<1>3. Live' => Live
  BY DEF Live
<1>4. Generations' /\ CallbacksAreFresh'
  BY <1>3 DEF IInv, Generations, CallbacksAreFresh
<1>5. FrameOrder' /\ YoungestMayMove' /\ Mirroring' /\ Reading'
  BY <1>3, StacksKept
<1>6. Settled'
  BY DEF Settled
<1> QED BY <1>1, <1>2, <1>4, <1>5, <1>6 DEF IInv

\* The tracker is deactivated by its destructor.
LEMMA DeactivateInv ==
    ASSUME IInv, NEW t \in Threads, Deactivate(t)
    PROVE  IInv'
<1> USE DEF Deactivate, InPython, Running, interpreter, shadow
<1>1. TypeOK'
  BY DEF IInv, TypeOK, Locations
<1>2. /\ pc[t] = "run" /\ gil = t /\ pc'[t] = "restore" /\ ~inst' /\ open
      /\ \A u \in Threads \ {t} : pc'[u] = pc[u]
  BY DEF IInv, TypeOK
<1>3. LockDiscipline'
  BY <1>2 DEF IInv, LockDiscipline, InTracker
<1>4. GILDiscipline'
  BY <1>2 DEF IInv, GILDiscipline, InLifecycle
<1>5. Live' => Live
  BY <1>2 DEF Live
<1>6. Generations' /\ CallbacksAreFresh'
  <2>1. Generations'
    BY <1>2, <1>5 DEF IInv, Generations
  <2>2. CallbacksAreFresh'
    BY <1>2 DEF IInv, CallbacksAreFresh
  <2> QED BY <2>1, <2>2
<1>7. FrameOrder' /\ YoungestMayMove' /\ Mirroring' /\ Reading'
  BY <1>5, StacksKept
<1>8. Settled'
  BY <1>2 DEF Settled
<1> QED BY <1>1, <1>3, <1>4, <1>6, <1>7, <1>8 DEF IInv

\* The hooks are restored, with the tracker deactivated.
LEMMA RestoreSymbolsInv ==
    ASSUME IInv, NEW t \in Threads, RestoreSymbols(t)
    PROVE  IInv'
<1> USE DEF RestoreSymbols, interpreter, shadow
<1>1. TypeOK'
  BY DEF IInv, TypeOK, Locations
<1>2. /\ pc[t] = "restore" /\ pc'[t] = "unhook"
      /\ \A u \in Threads \ {t} : pc'[u] = pc[u]
  BY DEF IInv, TypeOK
<1>3. LockDiscipline'
  BY <1>2 DEF IInv, LockDiscipline, InTracker
<1>4. GILDiscipline'
  BY <1>2 DEF IInv, GILDiscipline, InLifecycle
<1>5. Live' => Live
  BY <1>2 DEF Live
<1>6. Generations' /\ CallbacksAreFresh'
  <2>1. Generations'
    BY <1>2, <1>5 DEF IInv, Generations
  <2>2. CallbacksAreFresh'
    BY <1>2 DEF IInv, CallbacksAreFresh
  <2> QED BY <2>1, <2>2
<1>7. FrameOrder' /\ YoungestMayMove' /\ Mirroring' /\ Reading'
  BY <1>5, StacksKept
<1>8. Settled'
  BY <1>2 DEF IInv, Settled, SettledOf
<1> QED BY <1>1, <1>3, <1>4, <1>6, <1>7, <1>8 DEF IInv
-----------------------------------------------------------------------------
(* Steps of one thread that move its Python stack or its shadow stack. *)

\* A step leaves every shadow stack but the thread's own alone.
OwnTracker(t) ==
    \/ tls' = tls /\ captured' = captured
    \/ \E s \in [gen : Nat, pops : Nat, stack : Seq(LazilyEmittedFrame)] :
            s.gen = gen /\ WellFormed(s.stack) /\ UseTracker(t, s)

\* A step of one thread with its tracker: the other threads keep theirs, and its
\* own is either the same or of this generation.
LEMMA OnlyOwnTracker ==
    ASSUME IInv, NEW t \in Threads, gen' = gen, OwnTracker(t)
    PROVE  /\ tls' \in [Threads -> [gen : Nat, pops : Nat, stack : Seq(LazilyEmittedFrame)]]
           /\ captured' \in [Threads -> Seq(LazilyEmittedFrame)]
           /\ WellFormed(tls'[t].stack)
           /\ tls'[t].gen <= gen
           /\ \A u \in Threads \ {t} : /\ tls'[u] = tls[u] /\ Get(u)' = Get(u)
                                       /\ captured'[u] = captured[u]
           /\ \/ tls'[t] = tls[t] /\ captured'[t] = captured[t]
              \/ tls'[t].gen = gen /\ (\/ captured'[t] = captured[t] /\ tls[t].gen = gen
                                       \/ captured'[t] = <<>>)
<1> USE DEF OwnTracker
<1>1. TypeOK /\ WellFormed(tls[t].stack) /\ tls[t].gen <= gen
  BY GetWellFormed DEF IInv, Generations
<1>2. CASE tls' = tls /\ captured' = captured
  BY <1>1, <1>2 DEF TypeOK, Get
<1>3. CASE \E s \in [gen : Nat, pops : Nat, stack : Seq(LazilyEmittedFrame)] :
              s.gen = gen /\ WellFormed(s.stack) /\ UseTracker(t, s)
  <2>1. PICK s \in [gen : Nat, pops : Nat, stack : Seq(LazilyEmittedFrame)] :
              s.gen = gen /\ WellFormed(s.stack) /\ UseTracker(t, s)
    BY <1>3
  <2>2. gen \in Nat
    BY <1>1 DEF TypeOK
  <2> QED BY <1>1, <2>1, <2>2, TrackerUsed
<1> QED BY <1>2, <1>3

\* Such a step keeps the generations and the order of the frames.
LEMMA ShadowsKept ==
    ASSUME IInv, NEW t \in Threads, OwnTracker(t),
           gen' = gen, open' = open, inst' => inst,
           \A u \in Threads : pc'[u] # "activate",
           \A u \in Threads \ {t} : tstate'[u] = tstate[u],
           ~tstate'[t] /\ inst' => captured'[t] = <<>>
    PROVE  Generations' /\ FrameOrder' /\ YoungestMayMove'
<1>1. /\ WellFormed(tls'[t].stack)
      /\ tls'[t].gen <= gen
      /\ \A u \in Threads \ {t} : /\ tls'[u] = tls[u] /\ Get(u)' = Get(u)
                                  /\ captured'[u] = captured[u]
      /\ \/ tls'[t] = tls[t] /\ captured'[t] = captured[t]
         \/ tls'[t].gen = gen /\ (\/ captured'[t] = captured[t] /\ tls[t].gen = gen
                                  \/ captured'[t] = <<>>)
  BY OnlyOwnTracker
<1>2. Live' <=> inst'
  BY DEF Live
<1>3. Generations'
  <2>1. /\ inst' => open' /\ gen' > 0
    BY DEF IInv, Generations, Live
  <2>2. ASSUME NEW u \in Threads \ {t}
        PROVE  /\ tls'[u].gen <= gen'
               /\ inst' /\ (tls'[u].gen = gen' \/ ~tstate'[u]) => captured'[u] = <<>>
               /\ \A i \in 1..Len(captured'[u]) : captured'[u][i].state = NOT_EMITTED
    <3>1. /\ tls[u].gen <= gen
          /\ inst /\ (tls[u].gen = gen \/ ~tstate[u]) => captured[u] = <<>>
          /\ \A i \in 1..Len(captured[u]) : captured[u][i].state = NOT_EMITTED
      BY DEF IInv, Generations, Live
    <3>2. tls'[u] = tls[u] /\ captured'[u] = captured[u] /\ tstate'[u] = tstate[u]
      BY <1>1
    <3> QED BY <3>1, <3>2
  <2>3. /\ tls'[t].gen <= gen'
        /\ inst' /\ (tls'[t].gen = gen' \/ ~tstate'[t]) => captured'[t] = <<>>
        /\ \A i \in 1..Len(captured'[t]) : captured'[t][i].state = NOT_EMITTED
    <3>1. /\ inst /\ tls[t].gen = gen => captured[t] = <<>>
          /\ \A i \in 1..Len(captured[t]) : captured[t][i].state = NOT_EMITTED
      BY DEF IInv, Generations, Live
    <3>2. \/ tls'[t] = tls[t] /\ captured'[t] = captured[t]
          \/ captured'[t] = captured[t] /\ tls[t].gen = gen
          \/ captured'[t] = <<>>
      BY <1>1
    <3>3. \A i \in 1..Len(captured'[t]) : captured'[t][i].state = NOT_EMITTED
      <4>1. CASE captured'[t] = captured[t]
        BY <3>1, <4>1
      <4>2. CASE captured'[t] = <<>>
        BY <4>2
      <4> QED BY <3>2, <4>1, <4>2
    <3> QED BY <1>1, <3>1, <3>2, <3>3
  <2> QED BY <1>2, <2>1, <2>2, <2>3 DEF Generations
<1>4. FrameOrder' /\ YoungestMayMove'
  <2>1. ASSUME NEW u \in Threads \ {t}
        PROVE  WellFormed(tls'[u].stack)
    BY <1>1, GetWellFormed
  <2>2. \A u \in Threads : WellFormed(tls'[u].stack)
    BY <1>1, <2>1
  <2>3. ASSUME NEW u \in Threads
        PROVE  /\ FramesInOrder(tls[u].stack)'
               /\ tls'[u].stack # <<>> => tls'[u].stack[Len(tls'[u].stack)].state # HAS_NOT_CHANGED
    BY <2>2 DEF WellFormed, FramesInOrder, EmittedUpTo
  <2> QED BY <2>3 DEF FrameOrder, YoungestMayMove
<1> QED BY <1>3, <1>4

\* What a step of one thread outside memray's code changes at most, and what
\* it must say about itself.
OwnStep(t) ==
    /\ gil \in {t, NoThread} /\ gil' \in {t, NoThread}
    /\ pc[t] \in {"run", "ensure"} /\ pc' = [pc EXCEPT ![t] = "run"]
    /\ open' = open /\ hooked' = hooked /\ gen' = gen /\ lock' = lock
    /\ inst' \in BOOLEAN /\ (inst' => inst)
    /\ tstate' \in [Threads -> BOOLEAN]
    /\ pystack' \in [Threads -> Seq(PyFrame)]
    /\ prof' \in [Threads -> ProfileFunction]
    /\ emitted' \in [Threads -> Seq(RawFrame)]
    /\ \A u \in Threads \ {t} : /\ tstate'[u] = tstate[u] /\ pystack'[u] = pystack[u]
                                /\ prof'[u] = prof[u] /\ emitted'[u] = emitted[u]
    /\ OwnTracker(t)
    /\ gil' = t => tstate'[t]
    /\ ~tstate'[t] => /\ pystack'[t] = <<>> /\ prof'[t] = "none"
                      /\ inst' => captured'[t] = <<>>
    /\ ~open => emitted'[t] = <<>>
    /\ inst' => MirroringOf(t)' /\ ReadingOf(t)'

\* Such a step keeps the invariant of every thread.
LEMMA ThreadStep ==
    ASSUME IInv, NEW t \in Threads, OwnStep(t)
    PROVE  IInv'
<1> USE DEF OwnStep
<1>1. /\ tls' \in [Threads -> [gen : Nat, pops : Nat, stack : Seq(LazilyEmittedFrame)]]
      /\ captured' \in [Threads -> Seq(LazilyEmittedFrame)]
      /\ \A u \in Threads \ {t} : tls'[u] = tls[u] /\ Get(u)' = Get(u)
  BY OnlyOwnTracker
<1>2. /\ pc'[t] = "run" /\ \A u \in Threads \ {t} : pc'[u] = pc[u]
      /\ pc' \in [Threads -> Locations]
  BY DEF IInv, TypeOK, Locations
<1>3. \A u \in Threads : ~InLifecycle(u) /\ pc'[u] # "activate"
  BY <1>2, ConstantsAssumption DEF IInv, GILDiscipline, InLifecycle
<1>4. TypeOK'
  BY <1>1, <1>2 DEF IInv, TypeOK
<1>5. LockDiscipline'
  BY <1>2, <1>3 DEF IInv, LockDiscipline, InTracker, InLifecycle
<1>6. GILDiscipline'
  <2>1. /\ gil' = t => tstate'[t] /\ pc'[t] # "ensure"
        /\ ~InLifecycle(t)'
        /\ ~tstate'[t] => pystack'[t] = <<>> /\ prof'[t] = "none"
    BY <1>2 DEF InLifecycle
  <2>2. ASSUME NEW u \in Threads, u # t
        PROVE  /\ gil' # u
               /\ ~InLifecycle(u)'
               /\ ~tstate'[u] => pystack'[u] = <<>> /\ prof'[u] = "none"
    <3>1. gil' # u
      BY <2>2, ConstantsAssumption
    <3>2. ~InLifecycle(u)'
      BY <1>2, <1>3, <2>2 DEF InLifecycle
    <3>3. /\ tstate'[u] = tstate[u] /\ pystack'[u] = pystack[u] /\ prof'[u] = prof[u]
          /\ ~tstate[u] => pystack[u] = <<>> /\ prof[u] = "none"
      BY <2>2 DEF IInv, GILDiscipline
    <3> QED BY <3>1, <3>2, <3>3
  <2> QED BY <2>1, <2>2 DEF GILDiscipline
<1>7. Live' <=> inst'
  BY <1>3 DEF Live
<1>8. Generations' /\ FrameOrder' /\ YoungestMayMove'
  BY <1>3, ShadowsKept
<1>9. CallbacksAreFresh'
  <2> SUFFICES ASSUME NEW u \in Threads, pc'[u] = "ensure", prof'[u] = "trampoline"
               PROVE  pystack'[u] = <<>>
    BY DEF CallbacksAreFresh
  <2>1. u # t /\ pc[u] = "ensure"
    BY <1>2
  <2>2. prof'[u] = prof[u] /\ pystack'[u] = pystack[u]
    BY <2>1
  <2> QED BY <2>1, <2>2 DEF IInv, CallbacksAreFresh
<1>10. Mirroring' /\ Reading'
  <2>1. ASSUME NEW u \in Threads \ {t}, inst'
        PROVE  MirroringOf(u)' /\ ReadingOf(u)'
    <3>1. MirroringOf(u) /\ ReadingOf(u)
      BY <2>1 DEF IInv, Mirroring, Reading, Live
    <3> QED BY <1>1, <3>1, MirroringKept, ReadingKept
  <2>2. ~open' => \A u \in Threads : emitted'[u] = <<>>
    BY DEF IInv, Reading
  <2> QED BY <1>7, <2>1, <2>2 DEF Mirroring, Reading
<1>11. Settled'
  BY <1>1, <1>2, SettledKept DEF IInv, Settled
<1> QED BY <1>4, <1>5, <1>6, <1>8, <1>9, <1>10, <1>11 DEF IInv
\* The stack after its youngest frame moved on.
LEMMA MovedStack ==
    ASSUME NEW frames \in Seq(PyFrame), frames # <<>>, NEW line \in Lines, NEW inC \in BOOLEAN
    PROVE  LET out == SetYoungest(frames, line, inC) IN
           /\ out \in Seq(PyFrame)
           /\ Len(out) = Len(frames)
           /\ \A i \in 1..Len(frames) :
                /\ out[i].code = frames[i].code
                /\ i # Len(frames) => out[i].line = frames[i].line
<1> DEFINE n == Len(frames)
           moved == [code |-> Youngest(frames).code, line |-> line, inC |-> inC]
           out == SetYoungest(frames, line, inC)
<1>1. n \in Nat /\ n > 0 /\ \A i \in 1..n : frames[i] \in PyFrame
  OBVIOUS
<1>2. moved \in PyFrame /\ moved.code = frames[n].code
  BY <1>1 DEF PyFrame, Youngest
<1>3. out = [frames EXCEPT ![n] = moved]
  BY DEF SetYoungest
<1> HIDE DEF moved, out
<1>4. out \in Seq(PyFrame) /\ Len(out) = n
  BY <1>1, <1>2, <1>3, ExceptSeq
<1>5. \A i \in 1..n : out[i] = IF i = n THEN moved ELSE frames[i]
  BY <1>1, <1>3
<1> QED BY <1>1, <1>2, <1>4, <1>5 DEF out

\* No event reports that the youngest frame moves on: its state says that it
\* may have.
LEMMA MirroringMoved ==
    ASSUME IInv, NEW t \in Threads, MirroringOf(t), Get(t)' = Get(t),
           prof'[t] \in {"trampoline", "trace"} <=> prof[t] \in {"trampoline", "trace"},
           Len(pystack'[t]) = Len(pystack[t]),
           \A i \in 1..Len(pystack[t]) :
                /\ pystack'[t][i].code = pystack[t][i].code
                /\ i # Len(pystack[t]) => pystack'[t][i].line = pystack[t][i].line
    PROVE  MirroringOf(t)'
<1> DEFINE stack == ShadowStack(t)
<1>1. stack \in Seq(LazilyEmittedFrame) /\ ShadowStack(t)' = stack
  BY GetWellFormed DEF ShadowStack, WellFormed
<1>2. CASE prof[t] \in {"trampoline", "trace"}
  <2>1. /\ Mirrors(stack, pystack[t])
        /\ \A i \in 1..Len(stack) :
                stack[i].state = HAS_NOT_CHANGED => stack[i].line = pystack[t][i].line
    BY <1>2 DEF MirroringOf
  <2>2. stack # <<>> => stack[Len(stack)].state # HAS_NOT_CHANGED
    BY GetWellFormed DEF WellFormed
  <2> HIDE DEF stack
  <2>3. Mirrors(stack, pystack'[t])
    BY <2>1 DEF Mirrors
  <2>4. ASSUME NEW i \in 1..Len(stack), stack[i].state = HAS_NOT_CHANGED
        PROVE  stack[i].line = pystack'[t][i].line
    <3>1. i # Len(stack) /\ Len(stack) = Len(pystack[t])
      BY <1>1, <2>1, <2>2, <2>4 DEF Mirrors
    <3> QED BY <2>1, <2>4, <3>1
  <2>5. prof'[t] \in {"trampoline", "trace"} /\ ShadowStack(t)' = stack
    BY <1>1, <1>2 DEF stack
  <2>6. Mirrors(ShadowStack(t), pystack[t])'
    BY <2>3, <2>5 DEF Mirrors
  <2>7. \A i \in 1..Len(ShadowStack(t)') :
            ShadowStack(t)'[i].state = HAS_NOT_CHANGED
                => ShadowStack(t)'[i].line = pystack'[t][i].line
    BY <2>4, <2>5
  <2> QED BY <2>5, <2>6, <2>7 DEF MirroringOf
<1>3. CASE prof[t] \notin {"trampoline", "trace"}
  BY <1>1, <1>3 DEF MirroringOf
<1> QED BY <1>2, <1>3

\* Frames found by install_trace_function go on top, none of them emitted.
LEMMA ConcatStack ==
    ASSUME NEW stack \in Seq(LazilyEmittedFrame), WellFormed(stack), NEW frames \in Seq(PyFrame)
    PROVE  WellFormed(stack \o PythonFrameToStack(frames))
<1> DEFINE more == PythonFrameToStack(frames)
           out == stack \o more
           n == Len(stack)
<1>1. /\ more \in Seq(LazilyEmittedFrame) /\ Len(more) \in Nat /\ n \in Nat
      /\ \A i \in 1..Len(more) : more[i].state = NOT_EMITTED
  <2>1. /\ more \in Seq(LazilyEmittedFrame) /\ Len(more) = Len(frames)
        /\ \A i \in 1..Len(frames) : more[i].state = NOT_EMITTED
    BY FrameToStack
  <2> QED BY <2>1
<1>2. PICK k \in 0..n : EmittedUpTo(stack, k)
  BY DEF WellFormed, FramesInOrder
<1> HIDE DEF more
<1>3. /\ out \in Seq(LazilyEmittedFrame) /\ Len(out) = n + Len(more)
      /\ \A i \in 1..(n + Len(more)) : out[i] = IF i <= n THEN stack[i] ELSE more[i - n]
  BY <1>1, ConcatProperties
<1> HIDE DEF out
<1>4. EmittedUpTo(out, k)
  <2> SUFFICES ASSUME NEW i \in 1..Len(out)
               PROVE  /\ i < k => out[i].state = HAS_NOT_CHANGED
                      /\ i = k => out[i].state \in {HAS_NOT_CHANGED, MAY_HAVE_CHANGED}
                      /\ i > k => out[i].state = NOT_EMITTED
    BY DEF EmittedUpTo
  <2>1. CASE i <= n
    BY <1>1, <1>2, <1>3, <2>1 DEF EmittedUpTo
  <2>2. CASE i > n
    <3>1. out[i] = more[i - n] /\ i - n \in 1..Len(more) /\ i > k
      BY <1>1, <1>3, <2>2
    <3> QED BY <1>1, <3>1
  <2> QED BY <1>1, <2>1, <2>2
<1>5. FramesInOrder(out)
  <2>1. k \in 0..Len(out)
    BY <1>1, <1>3
  <2> QED BY <1>4, <2>1 DEF FramesInOrder
<1>6. out # <<>> => out[Len(out)].state # HAS_NOT_CHANGED
  <2>1. CASE Len(more) = 0
    <3>1. out = stack
      <4>1. Len(out) = n /\ \A i \in 1..n : out[i] = stack[i]
        BY <1>1, <1>3, <2>1
      <4> QED BY <1>1, <1>3, <4>1, SeqEqual
    <3> QED BY <3>1 DEF WellFormed
  <2>2. CASE Len(more) > 0
    <3>1. out[Len(out)] = more[Len(more)] /\ Len(more) \in 1..Len(more)
      BY <1>1, <1>3, <2>2
    <3> QED BY <1>1, <3>1 DEF NOT_EMITTED, HAS_NOT_CHANGED
  <2> QED BY <1>1, <2>1, <2>2
<1> QED BY <1>3, <1>5, <1>6 DEF WellFormed, out, more
\* A thread that runs the program under the GIL is where ThreadStep wants it.
LEMMA RunningThread ==
    ASSUME IInv, NEW t \in Threads, Running(t)
    PROVE  /\ gil = t /\ pc[t] = "run" /\ tstate[t] /\ [pc EXCEPT ![t] = "run"] = pc
           /\ \A u \in Threads : pc[u] # "activate"
           /\ Live <=> inst
           /\ inst => open
           /\ inst => MirroringOf(t) /\ ReadingOf(t)
<1>1. gil = t /\ pc[t] = "run" /\ tstate[t] /\ [pc EXCEPT ![t] = "run"] = pc
  BY DEF IInv, TypeOK, GILDiscipline, Running
<1>2. \A u \in Threads : pc[u] # "activate"
  BY <1>1, ConstantsAssumption DEF IInv, GILDiscipline, InLifecycle
<1>3. Live <=> inst
  BY <1>2 DEF Live
<1> QED BY <1>1, <1>2, <1>3 DEF IInv, Generations, Mirroring, Reading

\* The youngest frame moves on; a trampoline may give way to PyTraceFunction.
LEMMA MovedStep ==
    ASSUME IInv, NEW t \in Threads, Running(t), pystack[t] # <<>>,
           NEW l \in Lines, NEW inC \in BOOLEAN,
           pystack' = [pystack EXCEPT ![t] = SetYoungest(@, l, inC)],
           prof' \in [Threads -> ProfileFunction],
           \A u \in Threads \ {t} : prof'[u] = prof[u],
           prof'[t] \in {"trampoline", "trace"} <=> prof[t] \in {"trampoline", "trace"},
           UNCHANGED <<gil, tstate, tracker, shadow, lock, pc, emitted>>
    PROVE  IInv'
<1> USE DEF tracker, shadow
<1>1. pystack[t] \in Seq(PyFrame)
  BY ShadowType DEF IInv
<1>2. /\ SetYoungest(pystack[t], l, inC) \in Seq(PyFrame)
      /\ Len(SetYoungest(pystack[t], l, inC)) = Len(pystack[t])
      /\ \A i \in 1..Len(pystack[t]) :
            /\ SetYoungest(pystack[t], l, inC)[i].code = pystack[t][i].code
            /\ i # Len(pystack[t]) =>
                SetYoungest(pystack[t], l, inC)[i].line = pystack[t][i].line
  BY <1>1, MovedStack
<1>3. /\ pystack' \in [Threads -> Seq(PyFrame)]
      /\ pystack'[t] = SetYoungest(pystack[t], l, inC)
      /\ \A u \in Threads \ {t} : pystack'[u] = pystack[u]
  BY <1>2 DEF IInv, TypeOK
<1>4. Get(t)' = Get(t)
  BY DEF Get
<1>5. inst => MirroringOf(t)' /\ ReadingOf(t)'
  <2>1. inst => MirroringOf(t)'
    BY <1>2, <1>3, <1>4, RunningThread, MirroringMoved
  <2>2. inst => ReadingOf(t)'
    BY <1>4, RunningThread, ReadingKept
  <2> QED BY <2>1, <2>2
<1>6. OwnStep(t)
  <2>1. /\ gil = t /\ pc[t] = "run" /\ pc' = [pc EXCEPT ![t] = "run"] /\ tstate[t]
    BY RunningThread
  <2>2. /\ inst \in BOOLEAN /\ tstate \in [Threads -> BOOLEAN]
        /\ emitted \in [Threads -> Seq(RawFrame)]
        /\ ~open => emitted[t] = <<>>
    BY DEF IInv, TypeOK, Reading
  <2> QED BY <1>3, <1>5, <2>1, <2>2 DEF OwnStep, OwnTracker
<1> QED BY <1>6, ThreadStep

\* The interpreter goes on to another line.
LEMMA NextLineInv ==
    ASSUME IInv, NEW t \in Threads, NextLine(t)
    PROVE  IInv'
<1>1. PICK l \in Lines : pystack' = [pystack EXCEPT ![t] = SetYoungest(@, l, FALSE)]
  BY DEF NextLine
<1>2. prof' \in [Threads -> ProfileFunction] /\ prof' = prof
  BY DEF NextLine, IInv, TypeOK
<1>3. Running(t) /\ pystack[t] # <<>>
  BY DEF NextLine, InPython
<1>4. UNCHANGED <<gil, tstate, tracker, shadow, lock, pc, emitted>>
  BY DEF NextLine
<1> QED BY <1>1, <1>2, <1>3, <1>4, MovedStep

\* The line of the youngest frame is a line.
LEMMA YoungestLine ==
    ASSUME IInv, NEW t \in Threads, pystack[t] # <<>>
    PROVE  Youngest(pystack[t]).line \in Lines
<1>1. pystack[t] \in Seq(PyFrame)
  BY ShadowType DEF IInv
<1>2. pystack[t][Len(pystack[t])] \in PyFrame
  BY <1>1
<1> QED BY <1>2 DEF Youngest, PyFrame

\* A C function returns.
LEMMA CReturnInv ==
    ASSUME IInv, NEW t \in Threads, CReturn(t)
    PROVE  IInv'
<1>1. Running(t) /\ pystack[t] # <<>>
  BY DEF CReturn
<1>2. Youngest(pystack[t]).line \in Lines
  BY <1>1, YoungestLine
<1>3. pystack' = [pystack EXCEPT ![t] = SetYoungest(@, Youngest(pystack[t]).line, FALSE)]
  BY DEF CReturn, IInv, TypeOK
<1>4. /\ prof' \in [Threads -> ProfileFunction]
      /\ \A u \in Threads \ {t} : prof'[u] = prof[u]
      /\ prof'[t] \in {"trampoline", "trace"} <=> prof[t] \in {"trampoline", "trace"}
  BY DEF CReturn, IInv, TypeOK, ProfileFunction
<1>5. UNCHANGED <<gil, tstate, tracker, shadow, lock, pc, emitted>>
  BY DEF CReturn
<1> QED BY <1>1, <1>2, <1>3, <1>4, <1>5, MovedStep
\* install_trace_function in a thread that is not traced yet: the shadow stack
\* becomes the frames it finds.
LEMMA InstalledStack ==
    ASSUME IInv, NEW t \in Threads, NEW frames \in Seq(PyFrame),
           InstallTraceFunction(t, frames), prof[t] # "trace",
           gen' = gen, emitted'[t] = emitted[t], inst' => inst,
           inst => ShadowStack(t) = <<>>,
           Len(pystack'[t]) = Len(frames),
           \A i \in 1..Len(frames) : pystack'[t][i].code = frames[i].code
    PROVE  /\ prof' \in [Threads -> ProfileFunction]
           /\ prof'[t] = "trace" /\ \A u \in Threads \ {t} : prof'[u] = prof[u]
           /\ \E s \in [gen : Nat, pops : Nat, stack : Seq(LazilyEmittedFrame)] :
                s.gen = gen /\ WellFormed(s.stack) /\ UseTracker(t, s)
           /\ inst' => MirroringOf(t)' /\ ReadingOf(t)'
<1> DEFINE more == PythonFrameToStack(frames)
           s == Shadow(gen, Get(t).pops, ShadowStack(t) \o more)
<1>1. /\ prof' = [prof EXCEPT ![t] = "trace"]
      /\ UseTracker(t, s)
  BY DEF InstallTraceFunction, ShadowStack
<1>2. /\ prof' \in [Threads -> ProfileFunction]
      /\ prof'[t] = "trace" /\ \A u \in Threads \ {t} : prof'[u] = prof[u]
  BY <1>1 DEF IInv, TypeOK, ProfileFunction
<1>3. /\ TypeOK /\ gen \in Nat /\ Get(t).pops \in Nat
      /\ ShadowStack(t) \in Seq(LazilyEmittedFrame) /\ WellFormed(ShadowStack(t))
  BY GetWellFormed, ShadowType DEF IInv, TypeOK
<1>4. /\ more \in Seq(LazilyEmittedFrame) /\ Len(more) = Len(frames)
      /\ \A i \in 1..Len(frames) : more[i].state = NOT_EMITTED
      /\ Mirrors(more, frames)
  BY FrameToStack
<1>5. WellFormed(ShadowStack(t) \o more)
  BY <1>3, ConcatStack
<1> HIDE DEF more
<1>6. /\ s \in [gen : Nat, pops : Nat, stack : Seq(LazilyEmittedFrame)]
      /\ s.gen = gen /\ WellFormed(s.stack)
      /\ s.pops = Get(t).pops /\ s.stack = ShadowStack(t) \o more
  BY <1>3, <1>5 DEF Shadow, WellFormed
<1> HIDE DEF s
<1>7. Get(t)' = s
  BY <1>1, <1>3, <1>6, TrackerUsed
<1>8. ASSUME inst'
      PROVE  MirroringOf(t)' /\ ReadingOf(t)'
  <2>1. inst /\ ShadowStack(t) = <<>> /\ ReadingOf(t)
    BY <1>8 DEF IInv, Reading, Live
  <2>2. s.stack = more
    BY <1>4, <1>6, <2>1, ConcatEmptySeq
  <2>3. ShadowStack(t)' = more
    BY <1>7, <2>2 DEF ShadowStack
  <2>4. MirroringOf(t)'
    <3>1. Mirrors(ShadowStack(t), pystack[t])'
      BY <1>4, <2>3 DEF Mirrors
    <3>2. \A i \in 1..Len(ShadowStack(t)') : ShadowStack(t)'[i].state = NOT_EMITTED
      BY <1>4, <2>3
    <3> QED BY <1>2, <3>1, <3>2 DEF MirroringOf, NOT_EMITTED, HAS_NOT_CHANGED
  <2>5. Len(emitted[t]) = Get(t).pops
    <3>1. PICK k \in 0..0 : ReadUpTo(emitted[t], ShadowStack(t), k, Get(t).pops)
      BY <2>1 DEF ReadingOf
    <3> QED BY <1>3, <3>1 DEF ReadUpTo
  <2>6. ReadingOf(t)'
    <3>1. ReadUpTo(emitted'[t], more, 0, s.pops)
      <4>1. EmittedUpTo(more, 0)
        <5>1. \A i \in 1..Len(more) : i \in Nat /\ i > 0 /\ more[i].state = NOT_EMITTED
          BY <1>4
        <5> QED BY <5>1 DEF EmittedUpTo
      <4>2. Len(emitted'[t]) = 0 + s.pops
        BY <1>3, <1>6, <2>5
      <4>3. 1..0 = {}
        OBVIOUS
      <4> QED BY <4>1, <4>2, <4>3 DEF ReadUpTo
    <3>2. ReadUpTo(emitted[t], ShadowStack(t), 0, Get(t).pops)'
      BY <1>7, <2>3, <3>1 DEF ReadUpTo, EmittedUpTo
    <3>3. 0 \in 0..Len(ShadowStack(t)')
      BY <1>4, <2>3
    <3> QED BY <3>2, <3>3 DEF ReadingOf
  <2> QED BY <2>4, <2>6
<1>9. \E x \in [gen : Nat, pops : Nat, stack : Seq(LazilyEmittedFrame)] :
                x.gen = gen /\ WellFormed(x.stack) /\ UseTracker(t, x)
  BY <1>1, <1>6
<1> QED BY <1>2, <1>8, <1>9

\* PyTraceTrampoline and PyTraceFunction: the event leaves `after` behind.
LEMMA TracedStack ==
    ASSUME IInv, NEW t \in Threads,
           NEW after \in [gen : Nat, pops : Nat, stack : Seq(LazilyEmittedFrame)],
           after.gen = gen, WellFormed(after.stack), gen' = gen,
           TraceFunction(t, after)
    PROVE  /\ prof' \in [Threads -> ProfileFunction]
           /\ prof'[t] = "trace" /\ \A u \in Threads \ {t} : prof'[u] = prof[u]
           /\ \/ tls' = tls /\ captured' = captured
              \/ \E s \in [gen : Nat, pops : Nat, stack : Seq(LazilyEmittedFrame)] :
                   s.gen = gen /\ WellFormed(s.stack) /\ UseTracker(t, s)
           /\ inst => Get(t)' = after
<1>1. /\ prof' \in [Threads -> ProfileFunction]
      /\ prof'[t] = "trace" /\ \A u \in Threads \ {t} : prof'[u] = prof[u]
  BY DEF TraceFunction, IInv, TypeOK, ProfileFunction
<1>2. inst => UseTracker(t, after)
  BY DEF TraceFunction
<1>3. inst => Get(t)' = after
  BY <1>2, TrackerUsed DEF IInv
<1>4. \/ tls' = tls /\ captured' = captured
      \/ UseTracker(t, after)
  BY DEF TraceFunction
<1> QED BY <1>1, <1>3, <1>4
\* A C function is called.
LEMMA CCallInv ==
    ASSUME IInv, NEW t \in Threads, CCall(t)
    PROVE  IInv'
<1> DEFINE moved == SetYoungest(pystack[t], Youngest(pystack[t]).line, TRUE)
<1>1. Running(t) /\ pystack[t] # <<>> /\ pystack[t] \in Seq(PyFrame)
  BY ShadowType DEF CCall, InPython, IInv
<1>2. Youngest(pystack[t]).line \in Lines
  BY <1>1, YoungestLine
<1>3. pystack' = [pystack EXCEPT ![t] = moved]
  BY DEF CCall, IInv, TypeOK
<1>4. CASE prof[t] # "starter"
  <2>1. /\ prof' \in [Threads -> ProfileFunction]
        /\ \A u \in Threads \ {t} : prof'[u] = prof[u]
        /\ prof'[t] \in {"trampoline", "trace"} <=> prof[t] \in {"trampoline", "trace"}
    BY <1>4 DEF CCall, IInv, TypeOK, ProfileFunction
  <2>2. UNCHANGED <<gil, tstate, tracker, shadow, lock, pc, emitted>>
    BY <1>4 DEF CCall, shadow
  <2>3. pystack' = [pystack EXCEPT ![t] = SetYoungest(@, Youngest(pystack[t]).line, TRUE)]
    BY <1>3
  <2> QED BY <1>1, <1>2, <2>1, <2>2, <2>3, MovedStep
<1>5. CASE prof[t] = "starter"
  <2>1. /\ moved \in Seq(PyFrame) /\ Len(moved) = Len(pystack[t])
        /\ \A i \in 1..Len(pystack[t]) : moved[i].code = pystack[t][i].code
    BY <1>1, <1>2, MovedStack
  <2> HIDE DEF moved
  <2>2. /\ pystack' \in [Threads -> Seq(PyFrame)] /\ pystack'[t] = moved
        /\ \A u \in Threads \ {t} : pystack'[u] = pystack[u]
    BY <1>3, <2>1 DEF IInv, TypeOK
  <2>3. /\ InstallTraceFunction(t, pystack[t])
        /\ UNCHANGED <<gil, tstate, inst, open, hooked, gen, lock, pc, emitted>>
    BY <1>5 DEF CCall, tracker
  <2>4. inst => ShadowStack(t) = <<>>
    BY <1>1, <1>5, RunningThread DEF MirroringOf
  <2>5. /\ prof' \in [Threads -> ProfileFunction]
        /\ prof'[t] = "trace" /\ \A u \in Threads \ {t} : prof'[u] = prof[u]
        /\ \E s \in [gen : Nat, pops : Nat, stack : Seq(LazilyEmittedFrame)] :
             s.gen = gen /\ WellFormed(s.stack) /\ UseTracker(t, s)
        /\ inst' => MirroringOf(t)' /\ ReadingOf(t)'
    BY <1>1, <1>5, <2>1, <2>2, <2>3, <2>4, InstalledStack
  <2>6. /\ gil = t /\ pc[t] = "run" /\ pc' = [pc EXCEPT ![t] = "run"] /\ tstate[t]
    BY <1>1, <2>3, RunningThread
  <2>7. /\ inst \in BOOLEAN /\ tstate \in [Threads -> BOOLEAN]
        /\ emitted \in [Threads -> Seq(RawFrame)]
        /\ ~open => emitted[t] = <<>>
    BY DEF IInv, TypeOK, Reading
  <2>8. OwnStep(t)
    BY <2>2, <2>3, <2>5, <2>6, <2>7 DEF OwnStep, OwnTracker
  <2> QED BY <2>8, ThreadStep
<1> QED BY <1>4, <1>5

\* A callback from native code has got the GIL.
LEMMA EnsureReturnInv ==
    ASSUME IInv, NEW t \in Threads, EnsureReturn(t)
    PROVE  IInv'
<1>1. /\ pc[t] = "ensure" /\ gil = NoThread /\ gil' = t
      /\ tstate' = [tstate EXCEPT ![t] = TRUE]
      /\ pc' = [pc EXCEPT ![t] = "run"]
      /\ InstallTraceFunction(t, pystack[t])
      /\ UNCHANGED <<pystack, inst, open, hooked, gen, lock, emitted>>
  BY DEF EnsureReturn, tracker
<1>2. /\ tstate' \in [Threads -> BOOLEAN] /\ tstate'[t]
      /\ \A u \in Threads \ {t} : tstate'[u] = tstate[u]
  BY <1>1 DEF IInv, TypeOK
<1>3. /\ inst \in BOOLEAN /\ emitted \in [Threads -> Seq(RawFrame)]
      /\ pystack \in [Threads -> Seq(PyFrame)] /\ prof \in [Threads -> ProfileFunction]
      /\ ~open => emitted[t] = <<>>
  BY DEF IInv, TypeOK, Reading
<1>4. inst => MirroringOf(t) /\ ReadingOf(t)
  BY DEF IInv, Mirroring, Reading, Live
<1>5. CASE prof[t] = "trace"
  <2>1. prof' = prof /\ tls' = tls /\ captured' = captured
    BY <1>1, <1>5 DEF InstallTraceFunction
  <2>2. Get(t)' = Get(t)
    BY <1>1, <2>1 DEF Get
  <2>3. inst' => MirroringOf(t)' /\ ReadingOf(t)'
    BY <1>1, <1>4, <2>1, <2>2, MirroringKept, ReadingKept
  <2>4. OwnStep(t)
    BY <1>1, <1>2, <1>3, <2>1, <2>3 DEF OwnStep, OwnTracker
  <2> QED BY <2>4, ThreadStep
<1>6. CASE prof[t] # "trace"
  <2>1. inst => ShadowStack(t) = <<>>
    <3>1. CASE prof[t] = "trampoline"
      <4>1. pystack[t] = <<>>
        BY <1>1, <3>1 DEF IInv, CallbacksAreFresh
      <4>2. inst => Len(ShadowStack(t)) = 0
        BY <1>4, <3>1, <4>1 DEF MirroringOf, Mirrors
      <4>3. ShadowStack(t) \in Seq(LazilyEmittedFrame)
        BY ShadowType DEF IInv
      <4> QED BY <4>2, <4>3
    <3>2. CASE prof[t] # "trampoline"
      BY <1>4, <1>6, <3>2 DEF MirroringOf
    <3> QED BY <3>1, <3>2
  <2>2. /\ prof' \in [Threads -> ProfileFunction]
        /\ prof'[t] = "trace" /\ \A u \in Threads \ {t} : prof'[u] = prof[u]
        /\ \E s \in [gen : Nat, pops : Nat, stack : Seq(LazilyEmittedFrame)] :
             s.gen = gen /\ WellFormed(s.stack) /\ UseTracker(t, s)
        /\ inst' => MirroringOf(t)' /\ ReadingOf(t)'
    BY <1>1, <1>3, <1>6, <2>1, InstalledStack
  <2>3. OwnStep(t)
    BY <1>1, <1>2, <1>3, <2>2 DEF OwnStep, OwnTracker
  <2> QED BY <2>3, ThreadStep
<1> QED BY <1>5, <1>6
\* popFrame() on what get() returns: an emitted frame leaves a pending pop.
LEMMA PoppedFrame ==
    ASSUME IInv, NEW t \in Threads, ShadowStack(t) # <<>>
    PROVE  LET stack == ShadowStack(t)
               after == PopFrame(Get(t))
               n == Len(stack)
           IN /\ after \in [gen : Nat, pops : Nat, stack : Seq(LazilyEmittedFrame)]
              /\ after.gen = gen
              /\ WellFormed(after.stack)
              /\ Len(after.stack) = n - 1
              /\ \A i \in 1..(n - 1) :
                    /\ after.stack[i].at = stack[i].at /\ after.stack[i].code = stack[i].code
                    /\ after.stack[i].line = stack[i].line
                    /\ after.stack[i].state = HAS_NOT_CHANGED => stack[i].state = HAS_NOT_CHANGED
              /\ \A k \in 0..n : EmittedUpTo(stack, k) =>
                    \/ k < n /\ EmittedUpTo(after.stack, k) /\ after.pops = Get(t).pops
                    \/ k = n /\ EmittedUpTo(after.stack, k - 1) /\ after.pops = Get(t).pops + 1
<1> DEFINE stack == ShadowStack(t)
           pops == Get(t).pops
           n == Len(stack)
           rest == WithoutYoungest(stack)
           out == InvalidateMostRecentFrameLineNumber(rest)
           left == IF stack[n].state = NOT_EMITTED THEN pops ELSE pops + 1
           after == PopFrame(Get(t))
<1>1. /\ stack \in Seq(LazilyEmittedFrame) /\ FramesInOrder(stack)
      /\ pops \in Nat /\ gen \in Nat /\ Get(t).gen = gen
      /\ n \in Nat /\ n > 0
  <2>1. TypeOK
    BY DEF IInv
  <2>2. WellFormed(stack) /\ pops \in Nat /\ Get(t).gen = gen
    BY <2>1, GetWellFormed, ShadowType
  <2> HIDE DEF stack, pops
  <2>3. stack # <<>>
    BY DEF stack
  <2>4. stack \in Seq(LazilyEmittedFrame) /\ FramesInOrder(stack)
    BY <2>2 DEF WellFormed
  <2>5. n \in Nat /\ n > 0
    BY <2>3, <2>4
  <2>6. gen \in Nat
    BY <2>1 DEF TypeOK
  <2> QED BY <2>2, <2>4, <2>5, <2>6
<1>2. after = Shadow(gen, left, out)
  BY <1>1 DEF PopFrame, ShadowStack
<1>3. left \in Nat
  BY <1>1
<1>4. PICK j \in 0..n : EmittedUpTo(stack, j)
  BY <1>1 DEF FramesInOrder
<1>5. /\ rest \in Seq(LazilyEmittedFrame) /\ Len(rest) = n - 1
      /\ \A i \in 1..(n - 1) : rest[i] = stack[i]
      /\ stack[n].state = NOT_EMITTED => j \in 0..(n - 1) /\ EmittedUpTo(rest, j)
      /\ stack[n].state # NOT_EMITTED => j = n /\ EmittedUpTo(rest, j - 1)
  <2> HIDE DEF stack
  <2>1. stack # <<>>
    BY DEF stack
  <2>2. /\ rest \in Seq(LazilyEmittedFrame) /\ Len(rest) = n - 1
        /\ \A i \in 1..Len(rest) : rest[i] = stack[i]
        /\ stack[n].state = NOT_EMITTED => j \in 0..Len(rest) /\ EmittedUpTo(rest, j)
        /\ stack[n].state # NOT_EMITTED => j = n /\ EmittedUpTo(rest, j - 1)
    BY <1>1, <1>4, <2>1, PoppedStack
  <2> QED BY <2>2
<1> DEFINE i0 == IF stack[n].state = NOT_EMITTED THEN j ELSE j - 1
<1>6. i0 \in 0..Len(rest) /\ EmittedUpTo(rest, i0)
  BY <1>1, <1>4, <1>5
<1> HIDE DEF stack, rest, i0
<1>7. /\ out \in Seq(LazilyEmittedFrame)
      /\ Len(out) = Len(rest)
      /\ EmittedUpTo(out, i0)
      /\ out # <<>> => out[Len(out)].state # HAS_NOT_CHANGED
      /\ \A i \in 1..Len(rest) :
           /\ out[i].at = rest[i].at /\ out[i].code = rest[i].code
           /\ out[i].line = rest[i].line
           /\ out[i].state = HAS_NOT_CHANGED => rest[i].state = HAS_NOT_CHANGED
  BY <1>5, <1>6, InvalidatedStack
<1> HIDE DEF out, left
<1>8. /\ after \in [gen : Nat, pops : Nat, stack : Seq(LazilyEmittedFrame)]
      /\ after.gen = gen /\ after.pops = left /\ after.stack = out
  BY <1>1, <1>2, <1>3, <1>7 DEF Shadow
<1> HIDE DEF after
<1>9. WellFormed(out)
  <2>1. FramesInOrder(out)
    BY <1>6, <1>7 DEF FramesInOrder
  <2> QED BY <1>7, <2>1 DEF WellFormed
<1>10. ASSUME NEW k \in 0..n, EmittedUpTo(stack, k)
       PROVE  \/ k < n /\ EmittedUpTo(out, k) /\ left = pops
              \/ k = n /\ EmittedUpTo(out, k - 1) /\ left = pops + 1
  <2>1. k = j
    BY <1>1, <1>4, <1>10, EmittedUnique
  <2>2. CASE stack[n].state = NOT_EMITTED
    BY <1>1, <1>5, <1>7, <2>1, <2>2 DEF i0, left
  <2>3. CASE stack[n].state # NOT_EMITTED
    BY <1>1, <1>5, <1>7, <2>1, <2>3 DEF i0, left
  <2> QED BY <2>2, <2>3
<1>11. \A i \in 1..(n - 1) :
          /\ out[i].at = stack[i].at /\ out[i].code = stack[i].code
          /\ out[i].line = stack[i].line
          /\ out[i].state = HAS_NOT_CHANGED => stack[i].state = HAS_NOT_CHANGED
  BY <1>5, <1>7
<1>12. Len(out) = n - 1
  BY <1>5, <1>7
<1> QED BY <1>8, <1>9, <1>10, <1>11, <1>12 DEF stack, after
\* A Python function returns.
LEMMA ReturnInv ==
    ASSUME IInv, NEW t \in Threads, Return(t)
    PROVE  IInv'
<1> DEFINE n == Len(pystack[t])
           frames == WithoutYoungest(pystack[t])
<1>1. Running(t) /\ pystack[t] # <<>> /\ pystack[t] \in Seq(PyFrame)
  BY ShadowType DEF Return, InPython, IInv
<1>2. /\ n \in Nat /\ n > 0
      /\ frames \in Seq(PyFrame) /\ Len(frames) = n - 1
      /\ \A i \in 1..(n - 1) : frames[i] = pystack[t][i]
  <2>1. n \in Nat /\ n > 0 /\ 1 \in Int /\ n - 1 \in Int
        /\ \A i \in 1..(n - 1) : pystack[t][i] \in PyFrame
    BY <1>1
  <2>2. /\ SubSeq(pystack[t], 1, n - 1) \in Seq(PyFrame)
        /\ Len(SubSeq(pystack[t], 1, n - 1)) = IF 1 <= n - 1 THEN (n - 1) - 1 + 1 ELSE 0
        /\ \A i \in 1..((n - 1) - 1 + 1) : SubSeq(pystack[t], 1, n - 1)[i] = pystack[t][1 + i - 1]
    BY <2>1, SubSeqProperties
  <2>3. frames = SubSeq(pystack[t], 1, n - 1)
    BY DEF WithoutYoungest
  <2> HIDE DEF frames, n
  <2>4. frames \in Seq(PyFrame) /\ Len(frames) = n - 1
    BY <2>1, <2>2, <2>3
  <2>5. ASSUME NEW i \in 1..(n - 1) PROVE frames[i] = pystack[t][i]
    <3>1. i \in 1..((n - 1) - 1 + 1) /\ 1 + i - 1 = i
      BY <2>1
    <3> QED BY <2>2, <2>3, <3>1
  <2> QED BY <2>1, <2>4, <2>5
<1> HIDE DEF frames, n
<1>3. /\ pystack' \in [Threads -> Seq(PyFrame)] /\ pystack'[t] = frames
      /\ \A u \in Threads \ {t} : pystack'[u] = pystack[u]
  BY <1>2 DEF Return, frames, IInv, TypeOK
<1>4. /\ UNCHANGED <<gil, tstate, inst, open, hooked, gen, lock, pc, emitted>>
  BY DEF Return, tracker
<1>5. /\ gil = t /\ pc[t] = "run" /\ pc' = [pc EXCEPT ![t] = "run"] /\ tstate[t]
      /\ inst => MirroringOf(t) /\ ReadingOf(t)
  BY <1>1, <1>4, RunningThread
<1>6. /\ inst \in BOOLEAN /\ tstate \in [Threads -> BOOLEAN]
      /\ emitted \in [Threads -> Seq(RawFrame)] /\ prof \in [Threads -> ProfileFunction]
      /\ ~open => emitted[t] = <<>>
  BY DEF IInv, TypeOK, Reading
<1>7. CASE prof[t] \in {"none", "starter"}
  <2>1. prof' = prof /\ tls' = tls /\ captured' = captured
    BY <1>7 DEF Return
  <2>2. Get(t)' = Get(t)
    BY <1>4, <2>1 DEF Get
  <2>3. inst => MirroringOf(t)'
    <3>1. inst => ShadowStack(t) = <<>>
      BY <1>5, <1>7 DEF MirroringOf
    <3> QED BY <1>7, <2>1, <2>2, <3>1 DEF MirroringOf, ShadowStack
  <2>4. inst => ReadingOf(t)'
    BY <1>4, <1>5, <2>2, ReadingKept
  <2>5. OwnStep(t)
    BY <1>3, <1>4, <1>5, <1>6, <2>1, <2>3, <2>4 DEF OwnStep, OwnTracker
  <2> QED BY <2>5, ThreadStep
<1>8. CASE prof[t] \in {"trampoline", "trace"}
  <2> DEFINE after == PopFrame(Get(t))
             stack == ShadowStack(t)
  <2>1. TraceFunction(t, after)
    BY <1>8 DEF Return
  <2>2. /\ after \in [gen : Nat, pops : Nat, stack : Seq(LazilyEmittedFrame)]
        /\ after.gen = gen /\ WellFormed(after.stack)
    <3>1. CASE stack = <<>>
      <4>1. after = Get(t)
        BY <3>1 DEF PopFrame, ShadowStack
      <4>2. Get(t) \in [gen : Nat, pops : Nat, stack : Seq(LazilyEmittedFrame)]
        BY DEF IInv, TypeOK, Get, Shadow
      <4>3. Get(t).gen = gen /\ WellFormed(Get(t).stack)
        BY ShadowType, GetWellFormed DEF IInv, ShadowStack
      <4> QED BY <4>1, <4>2, <4>3
    <3>2. CASE stack # <<>>
      BY <3>2, PoppedFrame
    <3> QED BY <3>1, <3>2
  <2> HIDE DEF after
  <2>3. /\ prof' \in [Threads -> ProfileFunction]
        /\ prof'[t] = "trace" /\ \A u \in Threads \ {t} : prof'[u] = prof[u]
        /\ \/ tls' = tls /\ captured' = captured
           \/ \E s \in [gen : Nat, pops : Nat, stack : Seq(LazilyEmittedFrame)] :
                s.gen = gen /\ WellFormed(s.stack) /\ UseTracker(t, s)
        /\ inst => Get(t)' = after
    BY <1>4, <2>1, <2>2, TracedStack
  <2>4. ASSUME inst
        PROVE  MirroringOf(t)' /\ ReadingOf(t)'
    <3>1. /\ Mirrors(stack, pystack[t])
          /\ \A i \in 1..Len(stack) :
                stack[i].state = HAS_NOT_CHANGED => stack[i].line = pystack[t][i].line
      BY <1>5, <1>8, <2>4 DEF MirroringOf
    <3>2. Len(stack) = n /\ stack # <<>>
      BY <1>2, <3>1 DEF Mirrors, n
    <3>3. /\ Len(after.stack) = n - 1
          /\ \A i \in 1..(n - 1) :
                /\ after.stack[i].at = stack[i].at /\ after.stack[i].code = stack[i].code
                /\ after.stack[i].line = stack[i].line
                /\ after.stack[i].state = HAS_NOT_CHANGED => stack[i].state = HAS_NOT_CHANGED
          /\ \A k \in 0..n : EmittedUpTo(stack, k) =>
                \/ k < n /\ EmittedUpTo(after.stack, k) /\ after.pops = Get(t).pops
                \/ k = n /\ EmittedUpTo(after.stack, k - 1) /\ after.pops = Get(t).pops + 1
      BY <3>2, PoppedFrame DEF after
    <3>4. PICK k \in 0..n : ReadUpTo(emitted[t], stack, k, Get(t).pops)
      BY <1>5, <2>4, <3>2 DEF ReadingOf
    <3> HIDE DEF stack
    <3>5. ShadowStack(t)' = after.stack /\ Get(t)'.pops = after.pops
      BY <2>3, <2>4 DEF ShadowStack
    <3>6. MirroringOf(t)'
      <4>1. Mirrors(after.stack, frames)
        <5>1. ASSUME NEW i \in 1..(n - 1)
              PROVE  after.stack[i].at = i /\ after.stack[i].code = frames[i].code
          <6>1. i \in 1..Len(pystack[t])
            BY <1>2 DEF n
          <6>2. stack[i].at = i /\ stack[i].code = pystack[t][i].code
            BY <3>1, <6>1 DEF Mirrors
          <6> QED BY <1>2, <3>3, <6>2
        <5> QED BY <1>2, <3>3, <5>1 DEF Mirrors
      <4>2. Mirrors(ShadowStack(t), pystack[t])'
        BY <1>3, <3>5, <4>1 DEF Mirrors
      <4>3. \A i \in 1..(n - 1) :
                after.stack[i].state = HAS_NOT_CHANGED => after.stack[i].line = frames[i].line
        BY <1>2, <3>1, <3>2, <3>3
      <4> QED BY <1>3, <2>3, <3>3, <3>5, <4>2, <4>3 DEF MirroringOf
    <3>7. Get(t).pops \in Nat
      BY ShadowType DEF IInv
    <3>8. ReadingOf(t)'
      <4>1. CASE k < n /\ EmittedUpTo(after.stack, k) /\ after.pops = Get(t).pops
        <5>1. ReadUpTo(emitted[t], after.stack, k, after.pops)
          BY <1>2, <3>3, <3>4, <4>1, SMTT(30) DEF ReadUpTo
        <5>2. k \in 0..Len(after.stack)
          BY <1>2, <3>3, <4>1
        <5> QED BY <1>4, <3>5, <5>1, <5>2 DEF ReadingOf, ReadUpTo, EmittedUpTo
      <4>2. CASE k = n /\ EmittedUpTo(after.stack, k - 1) /\ after.pops = Get(t).pops + 1
        <5>1. ReadUpTo(emitted[t], after.stack, k - 1, after.pops)
          <6>1. \A i \in 1..(n - 1) : emitted[t][i] =
                    [code |-> after.stack[i].code, line |-> after.stack[i].line]
            BY <1>2, <3>3, <3>4, <4>2 DEF ReadUpTo
          <6>2. Len(emitted[t]) = n + Get(t).pops
            BY <3>4, <4>2 DEF ReadUpTo
          <6>3. Len(emitted[t]) = (k - 1) + after.pops
            BY <1>2, <3>7, <4>2, <6>2
          <6> QED BY <4>2, <6>1, <6>3 DEF ReadUpTo
        <5>2. k - 1 \in 0..Len(after.stack)
          BY <1>2, <3>3, <4>2
        <5> QED BY <1>4, <3>5, <5>1, <5>2 DEF ReadingOf, ReadUpTo, EmittedUpTo
      <4> QED BY <3>3, <3>4, <4>1, <4>2 DEF ReadUpTo
    <3> QED BY <3>6, <3>8
  <2>5. OwnStep(t)
    BY <1>3, <1>4, <1>5, <1>6, <2>3, <2>4 DEF OwnStep, OwnTracker
  <2> QED BY <2>5, ThreadStep
<1> QED BY <1>7, <1>8 DEF Return
\* A Python function is called.
LEMMA CallInv ==
    ASSUME IInv, NEW t \in Threads, Call(t)
    PROVE  IInv'
<1> DEFINE n == Len(pystack[t])
<1>1. Running(t) /\ pystack[t] \in Seq(PyFrame) /\ n \in Nat
  BY ShadowType DEF Call, IInv
<1> DEFINE F(c, l) == Append(pystack[t], [code |-> c, line |-> l, inC |-> FALSE])
<1>2. PICK c \in Codes, l \in Lines :
        /\ pystack' = [pystack EXCEPT ![t] = F(c, l)]
        /\ \/ /\ prof[t] = "none"
              /\ UNCHANGED <<prof, captured, tls>>
           \/ /\ prof[t] = "starter"
              /\ InstallTraceFunction(t, F(c, l))
           \/ /\ prof[t] \in {"trampoline", "trace"}
              /\ TraceFunction(t, PushFrame(Get(t), Len(F(c, l)), c))
  BY DEF Call
<1> DEFINE frames == F(c, l)
<1>3. /\ frames \in Seq(PyFrame) /\ Len(frames) = n + 1
      /\ \A i \in 1..n : frames[i] = pystack[t][i]
      /\ frames[n + 1].code = c
  <2>1. [code |-> c, line |-> l, inC |-> FALSE] \in PyFrame
    BY DEF PyFrame
  <2> QED BY <1>1, <2>1
<1> HIDE DEF F, n
<1>4. /\ pystack' \in [Threads -> Seq(PyFrame)] /\ pystack'[t] = frames
      /\ \A u \in Threads \ {t} : pystack'[u] = pystack[u]
  BY <1>2, <1>3 DEF IInv, TypeOK
<1>5. UNCHANGED <<gil, tstate, inst, open, hooked, gen, lock, pc, emitted>>
  BY DEF Call, tracker
<1>6. /\ gil = t /\ pc[t] = "run" /\ pc' = [pc EXCEPT ![t] = "run"] /\ tstate[t]
      /\ inst => MirroringOf(t) /\ ReadingOf(t)
  BY <1>1, <1>5, RunningThread
<1>7. /\ inst \in BOOLEAN /\ tstate \in [Threads -> BOOLEAN]
      /\ emitted \in [Threads -> Seq(RawFrame)] /\ prof \in [Threads -> ProfileFunction]
      /\ ~open => emitted[t] = <<>>
  BY DEF IInv, TypeOK, Reading
<1>8. prof[t] \in {"none", "starter"} /\ inst => ShadowStack(t) = <<>>
  BY <1>6 DEF MirroringOf
<1>9. CASE prof[t] = "none" /\ UNCHANGED <<prof, captured, tls>>
  <2>1. Get(t)' = Get(t)
    BY <1>5, <1>9 DEF Get
  <2>2. inst => MirroringOf(t)'
    BY <1>8, <1>9, <2>1 DEF MirroringOf, ShadowStack
  <2>3. inst => ReadingOf(t)'
    BY <1>5, <1>6, <2>1, ReadingKept
  <2>4. OwnStep(t)
    BY <1>4, <1>5, <1>6, <1>7, <1>9, <2>2, <2>3 DEF OwnStep, OwnTracker
  <2> QED BY <2>4, ThreadStep
<1>10. CASE prof[t] = "starter" /\ InstallTraceFunction(t, frames)
  <2> HIDE DEF frames
  <2>1. /\ prof' \in [Threads -> ProfileFunction]
        /\ prof'[t] = "trace" /\ \A u \in Threads \ {t} : prof'[u] = prof[u]
        /\ \E s \in [gen : Nat, pops : Nat, stack : Seq(LazilyEmittedFrame)] :
             s.gen = gen /\ WellFormed(s.stack) /\ UseTracker(t, s)
        /\ inst' => MirroringOf(t)' /\ ReadingOf(t)'
    BY <1>3, <1>4, <1>5, <1>8, <1>10, InstalledStack
  <2>2. OwnStep(t)
    BY <1>4, <1>5, <1>6, <1>7, <2>1 DEF OwnStep, OwnTracker
  <2> QED BY <2>2, ThreadStep
<1>11. CASE /\ prof[t] \in {"trampoline", "trace"}
            /\ TraceFunction(t, PushFrame(Get(t), Len(frames), c))
  <2> DEFINE stack == ShadowStack(t)
             after == PushFrame(Get(t), n + 1, c)
             out == Append(stack, LazyFrame(n + 1, c))
  <2>1. TraceFunction(t, after)
    BY <1>3, <1>11
  <2>2. /\ stack \in Seq(LazilyEmittedFrame) /\ WellFormed(stack)
        /\ Get(t).pops \in Nat /\ gen \in Nat /\ Get(t).gen = gen
    BY GetWellFormed, ShadowType DEF IInv, TypeOK
  <2>3. after = Shadow(gen, Get(t).pops, out)
    BY <2>2 DEF PushFrame, ShadowStack
  <2> HIDE DEF stack
  <2>4. \A k \in 0..Len(stack) : EmittedUpTo(stack, k) =>
            /\ out \in Seq(LazilyEmittedFrame)
            /\ Len(out) = Len(stack) + 1
            /\ k \in 0..Len(out)
            /\ EmittedUpTo(out, k)
            /\ \A i \in 1..Len(stack) : out[i] = stack[i]
            /\ out[Len(out)] = LazyFrame(n + 1, c)
    <3> SUFFICES ASSUME NEW k \in 0..Len(stack), EmittedUpTo(stack, k)
                 PROVE  /\ out \in Seq(LazilyEmittedFrame)
                        /\ Len(out) = Len(stack) + 1
                        /\ k \in 0..Len(out)
                        /\ EmittedUpTo(out, k)
                        /\ \A i \in 1..Len(stack) : out[i] = stack[i]
                        /\ out[Len(out)] = LazyFrame(n + 1, c)
      OBVIOUS
    <3>1. n + 1 \in Nat
      BY <1>1
    <3> QED BY <2>2, <3>1, PushedStack
  <2>5. WellFormed(out)
    <3>1. PICK k \in 0..Len(stack) : EmittedUpTo(stack, k)
      BY <2>2 DEF WellFormed, FramesInOrder
    <3>2. FramesInOrder(out)
      BY <2>4, <3>1 DEF FramesInOrder
    <3>3. out[Len(out)].state # HAS_NOT_CHANGED
      BY <2>4, <3>1 DEF LazyFrame, ToEmit, NOT_EMITTED, HAS_NOT_CHANGED
    <3> QED BY <2>4, <3>1, <3>2, <3>3 DEF WellFormed
  <2> HIDE DEF out
  <2>6. /\ after \in [gen : Nat, pops : Nat, stack : Seq(LazilyEmittedFrame)]
        /\ after.gen = gen /\ WellFormed(after.stack)
        /\ after.stack = out /\ after.pops = Get(t).pops
    BY <2>2, <2>3, <2>5 DEF WellFormed, Shadow
  <2> HIDE DEF after
  <2>7. /\ prof' \in [Threads -> ProfileFunction]
        /\ prof'[t] = "trace" /\ \A u \in Threads \ {t} : prof'[u] = prof[u]
        /\ \/ tls' = tls /\ captured' = captured
           \/ \E s \in [gen : Nat, pops : Nat, stack : Seq(LazilyEmittedFrame)] :
                s.gen = gen /\ WellFormed(s.stack) /\ UseTracker(t, s)
        /\ inst => Get(t)' = after
    BY <1>5, <2>1, <2>6, TracedStack
  <2>8. ASSUME inst
        PROVE  MirroringOf(t)' /\ ReadingOf(t)'
    <3>1. /\ Mirrors(stack, pystack[t])
          /\ \A i \in 1..Len(stack) :
                stack[i].state = HAS_NOT_CHANGED => stack[i].line = pystack[t][i].line
      BY <1>6, <1>11, <2>8 DEF MirroringOf, stack
    <3>2. Len(stack) = n
      BY <3>1 DEF Mirrors, n
    <3>3. PICK k \in 0..n : ReadUpTo(emitted[t], stack, k, Get(t).pops)
      BY <1>6, <2>8, <3>2 DEF ReadingOf, stack
    <3>4. /\ Len(out) = n + 1 /\ k \in 0..Len(out) /\ EmittedUpTo(out, k)
          /\ \A i \in 1..n : out[i] = stack[i]
          /\ out[n + 1] = LazyFrame(n + 1, c)
      BY <2>4, <3>2, <3>3 DEF ReadUpTo
    <3>5. ShadowStack(t)' = out /\ Get(t)'.pops = Get(t).pops
      BY <2>6, <2>7, <2>8 DEF ShadowStack
    <3>6. MirroringOf(t)'
      <4>1. ASSUME NEW i \in 1..(n + 1)
            PROVE  /\ out[i].at = i /\ out[i].code = frames[i].code
                   /\ out[i].state = HAS_NOT_CHANGED => out[i].line = frames[i].line
        <5>1. CASE i \in 1..n
          <6>1. /\ stack[i].at = i /\ stack[i].code = pystack[t][i].code
                /\ stack[i].state = HAS_NOT_CHANGED => stack[i].line = pystack[t][i].line
            BY <1>1, <3>1, <3>2, <5>1 DEF Mirrors, n
          <6> QED BY <1>3, <3>4, <5>1, <6>1
        <5>2. CASE i = n + 1
          BY <1>3, <3>4, <5>2 DEF LazyFrame, ToEmit, NOT_EMITTED, HAS_NOT_CHANGED
        <5> QED BY <1>1, <5>1, <5>2
      <4>2. Mirrors(ShadowStack(t), pystack[t])'
        BY <1>3, <1>4, <3>4, <3>5, <4>1 DEF Mirrors
      <4> QED BY <1>4, <2>7, <3>4, <3>5, <4>1, <4>2 DEF MirroringOf
    <3>7. ReadingOf(t)'
      <4>1. ReadUpTo(emitted[t], out, k, Get(t).pops)
        BY <1>1, <3>3, <3>4 DEF ReadUpTo
      <4> QED BY <1>5, <3>4, <3>5, <4>1 DEF ReadingOf, ReadUpTo, EmittedUpTo
    <3> QED BY <3>6, <3>7
  <2>9. OwnStep(t)
    BY <1>4, <1>5, <1>6, <1>7, <2>7, <2>8 DEF OwnStep, OwnTracker
  <2> QED BY <2>9, ThreadStep
<1> QED BY <1>2, <1>9, <1>10, <1>11
\* forgetPythonStack: every frame that a reader holds for the thread is popped.
LEMMA ForgottenStack ==
    ASSUME IInv, NEW t \in Threads, gen' = gen, ForgetPythonStack(t), Live <=> inst,
           prof'[t] = "none"
    PROVE  /\ inst' \in BOOLEAN /\ (inst' => inst)
           /\ emitted' \in [Threads -> Seq(RawFrame)]
           /\ \A u \in Threads \ {t} : emitted'[u] = emitted[u]
           /\ ~open => emitted'[t] = <<>>
           /\ \/ tls' = tls /\ captured' = captured
              \/ \E s \in [gen : Nat, pops : Nat, stack : Seq(LazilyEmittedFrame)] :
                   s.gen = gen /\ WellFormed(s.stack) /\ UseTracker(t, s)
           /\ inst' => captured'[t] = <<>> /\ MirroringOf(t)' /\ ReadingOf(t)'
<1> DEFINE s == Shadow(gen, 0, <<>>)
<1>1. /\ TypeOK /\ gen \in Nat /\ inst \in BOOLEAN
      /\ emitted \in [Threads -> Seq(RawFrame)]
      /\ ~open => emitted[t] = <<>> /\ ~inst
  BY DEF IInv, TypeOK, Reading, Generations
<1>2. CASE ~inst
  BY <1>1, <1>2 DEF ForgetPythonStack
<1>3. CASE inst
  <2>1. UseTracker(t, s)
    BY <1>3 DEF ForgetPythonStack
  <2>2. <<>> \in Seq(LazilyEmittedFrame) /\ FramesInOrder(<<>>) /\ EmittedUpTo(<<>>, 0)
    BY DEF FramesInOrder, EmittedUpTo
  <2>3. /\ s \in [gen : Nat, pops : Nat, stack : Seq(LazilyEmittedFrame)]
        /\ s.gen = gen /\ WellFormed(s.stack) /\ s.stack = <<>> /\ s.pops = 0
    BY <1>1, <2>2 DEF Shadow, WellFormed
  <2> HIDE DEF s
  <2>4. /\ Get(t)' = s
        /\ (captured'[t] = captured[t] /\ tls[t].gen = gen) \/ captured'[t] = <<>>
    BY <1>1, <2>1, <2>3, TrackerUsed
  <2>5. captured'[t] = <<>>
    BY <1>3, <2>4 DEF IInv, Generations, Live
  <2> DEFINE kept == ReadPops(emitted[t], Get(t).pops + NumEmitted(Get(t).stack))
  <2>6. kept = <<>>
    <3>1. PICK k \in 0..Len(ShadowStack(t)) :
            ReadUpTo(emitted[t], ShadowStack(t), k, Get(t).pops)
      BY <1>3 DEF IInv, Reading, ReadingOf, Live
    <3>2. ShadowStack(t) \in Seq(LazilyEmittedFrame) /\ Get(t).pops \in Nat
          /\ emitted[t] \in Seq(RawFrame)
      BY <1>1, ShadowType
    <3>3. NumEmitted(Get(t).stack) = k /\ Len(emitted[t]) = k + Get(t).pops
      BY <3>1, <3>2, NumEmittedIs DEF ReadUpTo, ShadowStack
    <3>4. kept = SubSeq(emitted[t], 1, 0)
      BY <3>2, <3>3 DEF ReadPops
    <3> QED BY <3>2, <3>4
  <2> HIDE DEF kept
  <2>7. \/ emitted' = [emitted EXCEPT ![t] = <<>>] /\ inst' = inst
        \/ emitted' = emitted /\ inst' = FALSE
    BY <1>3, <2>6 DEF ForgetPythonStack, kept
  <2>8. /\ inst' \in BOOLEAN /\ (inst' => inst)
        /\ emitted' \in [Threads -> Seq(RawFrame)]
        /\ \A u \in Threads \ {t} : emitted'[u] = emitted[u]
        /\ ~open => emitted'[t] = <<>>
        /\ inst' => emitted'[t] = <<>>
    <3>1. <<>> \in Seq(RawFrame)
      OBVIOUS
    <3>2. CASE emitted' = [emitted EXCEPT ![t] = <<>>] /\ inst' = inst
      <4>1. emitted' \in [Threads -> Seq(RawFrame)] /\ emitted'[t] = <<>>
        BY <1>1, <3>1, <3>2
      <4>2. \A u \in Threads \ {t} : emitted'[u] = emitted[u]
        BY <1>1, <3>2
      <4> QED BY <1>1, <3>2, <4>1, <4>2
    <3>3. CASE emitted' = emitted /\ inst' = FALSE
      BY <1>1, <3>3
    <3> QED BY <2>7, <3>2, <3>3
  <2>9. ShadowStack(t)' = <<>> /\ Get(t)'.pops = 0
    BY <2>3, <2>4 DEF ShadowStack
  <2>10. MirroringOf(t)'
    BY <2>9 DEF MirroringOf
  <2>11. inst' => ReadingOf(t)'
    <3>1. ASSUME inst' PROVE ReadUpTo(emitted[t], ShadowStack(t), 0, Get(t).pops)'
      BY <2>2, <2>8, <2>9, <3>1 DEF ReadUpTo, EmittedUpTo
    <3>2. 0 \in 0..Len(ShadowStack(t)')
      BY <2>9
    <3> QED BY <3>1, <3>2 DEF ReadingOf
  <2> QED BY <2>1, <2>3, <2>5, <2>8, <2>10, <2>11
<1> QED BY <1>2, <1>3

\* A thread gets the profile function.
LEMMA SetProfileInv ==
    ASSUME IInv, NEW t \in Threads, SetProfile(t)
    PROVE  IInv'
<1>1. /\ Running(t) /\ ForgetPythonStack(t)
      /\ UNCHANGED <<gil, tstate, pystack, open, hooked, gen, lock, pc>>
  BY DEF SetProfile, InPython
<1>2. /\ prof' \in [Threads -> ProfileFunction] /\ prof'[t] = "none"
      /\ \A u \in Threads \ {t} : prof'[u] = prof[u]
  BY DEF SetProfile, IInv, TypeOK, ProfileFunction
<1>3. /\ gil = t /\ pc[t] = "run" /\ pc' = [pc EXCEPT ![t] = "run"] /\ tstate[t]
      /\ Live <=> inst
  BY <1>1, RunningThread
<1>4. tstate \in [Threads -> BOOLEAN] /\ pystack \in [Threads -> Seq(PyFrame)]
  BY DEF IInv, TypeOK
<1>5. /\ inst' \in BOOLEAN /\ (inst' => inst)
      /\ emitted' \in [Threads -> Seq(RawFrame)]
      /\ \A u \in Threads \ {t} : emitted'[u] = emitted[u]
      /\ ~open => emitted'[t] = <<>>
      /\ \/ tls' = tls /\ captured' = captured
         \/ \E s \in [gen : Nat, pops : Nat, stack : Seq(LazilyEmittedFrame)] :
              s.gen = gen /\ WellFormed(s.stack) /\ UseTracker(t, s)
      /\ inst' => MirroringOf(t)' /\ ReadingOf(t)'
  BY <1>1, <1>2, <1>3, ForgottenStack
<1>6. OwnStep(t)
  BY <1>1, <1>2, <1>3, <1>4, <1>5 DEF OwnStep, OwnTracker
<1> QED BY <1>6, ThreadStep

\* The state of a thread is cleared.
LEMMA DetachInv ==
    ASSUME IInv, NEW t \in Threads, Detach(t)
    PROVE  IInv'
<1>1. /\ Running(t) /\ gil' = NoThread /\ pystack[t] = <<>>
      /\ UNCHANGED <<pystack, open, hooked, gen, lock, pc>>
  BY DEF Detach
<1>2. /\ prof' \in [Threads -> ProfileFunction] /\ prof'[t] = "none"
      /\ \A u \in Threads \ {t} : prof'[u] = prof[u] /\ tstate'[u] = tstate[u]
      /\ tstate' \in [Threads -> BOOLEAN]
  BY DEF Detach, IInv, TypeOK, ProfileFunction
<1>3. /\ gil = t /\ pc[t] = "run" /\ pc' = [pc EXCEPT ![t] = "run"] /\ tstate[t]
      /\ Live <=> inst
      /\ inst => MirroringOf(t) /\ ReadingOf(t)
  BY <1>1, RunningThread
<1>4. /\ pystack \in [Threads -> Seq(PyFrame)] /\ emitted \in [Threads -> Seq(RawFrame)]
      /\ inst \in BOOLEAN
      /\ ~open => emitted[t] = <<>>
  BY DEF IInv, TypeOK, Reading
<1>5. /\ inst' \in BOOLEAN /\ (inst' => inst)
      /\ emitted' \in [Threads -> Seq(RawFrame)]
      /\ \A u \in Threads \ {t} : emitted'[u] = emitted[u]
      /\ ~open => emitted'[t] = <<>>
      /\ \/ tls' = tls /\ captured' = captured
         \/ \E s \in [gen : Nat, pops : Nat, stack : Seq(LazilyEmittedFrame)] :
              s.gen = gen /\ WellFormed(s.stack) /\ UseTracker(t, s)
      /\ inst' => captured'[t] = <<>> /\ MirroringOf(t)' /\ ReadingOf(t)'
  <2>1. CASE prof[t] = "trace"
    BY <1>1, <1>2, <1>3, <2>1, ForgottenStack DEF Detach
  <2>2. CASE prof[t] # "trace"
    <3>1. UNCHANGED <<inst, captured, tls, emitted>>
      BY <2>2 DEF Detach
    <3>2. Get(t)' = Get(t)
      BY <1>1, <3>1 DEF Get
    <3>3. inst => ShadowStack(t) = <<>>
      <4>1. CASE prof[t] = "trampoline"
        <5>1. inst => Len(ShadowStack(t)) = 0
          BY <1>1, <1>3, <4>1 DEF MirroringOf, Mirrors
        <5>2. ShadowStack(t) \in Seq(LazilyEmittedFrame)
          BY ShadowType DEF IInv
        <5> QED BY <5>1, <5>2
      <4>2. CASE prof[t] # "trampoline"
        BY <1>3, <2>2, <4>2 DEF MirroringOf
      <4> QED BY <4>1, <4>2
    <3>4. inst' => captured'[t] = <<>>
      <4>1. CASE tls[t].gen = gen
        BY <3>1, <4>1 DEF IInv, Generations, Live
      <4>2. CASE tls[t].gen # gen
        BY <3>1, <3>3, <4>2 DEF ShadowStack, Get, Shadow
      <4> QED BY <4>1, <4>2
    <3>5. inst' => MirroringOf(t)'
      BY <1>2, <3>1, <3>2, <3>3 DEF MirroringOf, ShadowStack
    <3>6. inst' => ReadingOf(t)'
      BY <1>3, <3>1, <3>2, ReadingKept
    <3> QED BY <1>4, <3>1, <3>4, <3>5, <3>6
  <2> QED BY <2>1, <2>2
<1>6. OwnStep(t)
  BY <1>1, <1>2, <1>3, <1>4, <1>5, ConstantsAssumption DEF OwnStep, OwnTracker
<1> QED BY <1>6, ThreadStep
\* A thread starts.
LEMMA SpawnInv ==
    ASSUME IInv, NEW t \in Threads, Spawn(t)
    PROVE  IInv'
<1>1. /\ ~tstate[t] /\ pc[t] = "run"
      /\ tstate' = [tstate EXCEPT ![t] = TRUE]
      /\ tls' = [tls EXCEPT ![t] = NewTracker]
      /\ emitted' = [emitted EXCEPT ![t] = <<>>]
      /\ UNCHANGED <<gil, pystack, inst, open, hooked, gen, captured, lock, pc>>
  BY DEF Spawn, tracker
<1>2. PICK p \in {"none", "starter"} : prof' = [prof EXCEPT ![t] = p]
  BY DEF Spawn
<1>3. /\ NewTracker \in [gen : Nat, pops : Nat, stack : Seq(LazilyEmittedFrame)]
      /\ NewTracker.gen = 0 /\ NewTracker.pops = 0 /\ NewTracker.stack = <<>>
  BY DEF NewTracker, Shadow
<1>4. /\ tstate' \in [Threads -> BOOLEAN] /\ tstate'[t]
      /\ prof' \in [Threads -> ProfileFunction] /\ prof'[t] \in {"none", "starter"}
      /\ tls' \in [Threads -> [gen : Nat, pops : Nat, stack : Seq(LazilyEmittedFrame)]]
      /\ tls'[t] = NewTracker
      /\ emitted' \in [Threads -> Seq(RawFrame)] /\ emitted'[t] = <<>>
      /\ \A u \in Threads \ {t} : /\ tstate'[u] = tstate[u] /\ prof'[u] = prof[u]
                                  /\ tls'[u] = tls[u] /\ emitted'[u] = emitted[u]
  <2>1. <<>> \in Seq(RawFrame)
    OBVIOUS
  <2>2. /\ tstate' \in [Threads -> BOOLEAN] /\ tstate'[t]
        /\ \A u \in Threads \ {t} : tstate'[u] = tstate[u]
    BY <1>1 DEF IInv, TypeOK
  <2>3. /\ prof' \in [Threads -> ProfileFunction] /\ prof'[t] \in {"none", "starter"}
        /\ \A u \in Threads \ {t} : prof'[u] = prof[u]
    BY <1>2 DEF IInv, TypeOK, ProfileFunction
  <2>4. /\ tls' \in [Threads -> [gen : Nat, pops : Nat, stack : Seq(LazilyEmittedFrame)]]
        /\ tls'[t] = NewTracker
        /\ \A u \in Threads \ {t} : tls'[u] = tls[u]
    BY <1>1, <1>3 DEF IInv, TypeOK
  <2>5. /\ emitted' \in [Threads -> Seq(RawFrame)] /\ emitted'[t] = <<>>
        /\ \A u \in Threads \ {t} : emitted'[u] = emitted[u]
    BY <1>1, <2>1 DEF IInv, TypeOK
  <2> QED BY <2>2, <2>3, <2>4, <2>5
<1>5. TypeOK'
  BY <1>1, <1>4 DEF IInv, TypeOK
<1>6. LockDiscipline'
  BY <1>1 DEF IInv, LockDiscipline, InTracker
<1>7. GILDiscipline'
  <2>1. ASSUME NEW u \in Threads
        PROVE  /\ gil' = u => tstate'[u] /\ pc'[u] # "ensure"
               /\ InLifecycle(u)' => gil' = u /\ open' /\ ~inst'
               /\ ~tstate'[u] => pystack'[u] = <<>> /\ prof'[u] = "none"
    BY <1>1, <1>4 DEF IInv, GILDiscipline, InLifecycle
  <2> QED BY <2>1 DEF GILDiscipline
<1>8. (Live' <=> Live) /\ (Live => gen > 0 /\ captured[t] = <<>>) /\ gen \in Nat
  BY <1>1 DEF IInv, TypeOK, Generations, Live
<1>9. Generations'
  <2>1. ASSUME NEW u \in Threads
        PROVE  /\ tls'[u].gen <= gen'
               /\ Live' => tls'[u].gen = tls[u].gen \/ tls'[u].gen # gen'
               /\ Live' /\ (tls'[u].gen = gen' \/ ~tstate'[u]) => captured'[u] = <<>>
               /\ \A i \in 1..Len(captured'[u]) : captured'[u][i].state = NOT_EMITTED
    BY <1>1, <1>3, <1>4, <1>8 DEF IInv, Generations
  <2>2. ASSUME NEW v \in Threads, pc'[v] = "activate", NEW u \in Threads
        PROVE  tls'[u].gen # gen'
    <3>1. Live' /\ tls[u].gen # gen
      BY <1>1, <2>2 DEF IInv, Generations, Live
    <3> QED BY <1>1, <2>1, <3>1
  <2>3. (inst' => open') /\ (Live' => gen' > 0)
    BY <1>1, <1>8 DEF IInv, Generations
  <2> QED BY <2>1, <2>2, <2>3 DEF Generations
<1>10. ASSUME NEW u \in Threads
       PROVE  /\ FramesInOrder(tls[u].stack)'
              /\ tls'[u].stack # <<>> => tls'[u].stack[Len(tls'[u].stack)].state # HAS_NOT_CHANGED
              /\ Live => MirroringOf(u)' /\ ReadingOf(u)'
  <2>1. CASE u = t
    <3>1. FramesInOrder(tls[u].stack)' /\ tls'[u].stack = <<>>
      BY <1>3, <1>4, <2>1 DEF FramesInOrder, EmittedUpTo
    <3>2. ASSUME Live PROVE MirroringOf(u)' /\ ReadingOf(u)'
      <4>1. Get(t)' = Shadow(gen, 0, <<>>)
        BY <1>1, <1>3, <1>4, <1>8, <3>2 DEF Get
      <4>2. ShadowStack(t)' = <<>> /\ Get(t)'.pops = 0
        BY <4>1 DEF ShadowStack, Shadow
      <4>3. MirroringOf(t)'
        BY <1>4, <4>2 DEF MirroringOf
      <4>4. ReadUpTo(emitted[t], ShadowStack(t), 0, Get(t).pops)'
        BY <1>4, <4>2 DEF ReadUpTo, EmittedUpTo
      <4>5. 0 \in 0..Len(ShadowStack(t)')
        BY <4>2
      <4> QED BY <2>1, <4>3, <4>4, <4>5 DEF ReadingOf
    <3> QED BY <3>1, <3>2
  <2>2. CASE u # t
    <3>1. tls'[u] = tls[u] /\ prof'[u] = prof[u] /\ emitted'[u] = emitted[u]
      BY <1>4, <2>2
    <3>2. Get(u)' = Get(u)
      BY <1>1, <3>1 DEF Get
    <3>3. Live => MirroringOf(u)' /\ ReadingOf(u)'
      BY <1>1, <3>1, <3>2, MirroringKept, ReadingKept DEF IInv, Mirroring, Reading
    <3>4. FramesInOrder(tls[u].stack)
          /\ (tls[u].stack # <<>> => tls[u].stack[Len(tls[u].stack)].state # HAS_NOT_CHANGED)
      BY DEF IInv, FrameOrder, YoungestMayMove
    <3> QED BY <3>1, <3>3, <3>4 DEF FramesInOrder, EmittedUpTo
  <2> QED BY <2>1, <2>2
<1>11. FrameOrder' /\ YoungestMayMove' /\ Mirroring' /\ Reading'
  <2>1. ~open' => \A u \in Threads : emitted'[u] = <<>>
    BY <1>1, <1>4 DEF IInv, Reading
  <2> QED BY <1>8, <1>10, <2>1 DEF FrameOrder, YoungestMayMove, Mirroring, Reading
<1>12. CallbacksAreFresh'
  BY <1>1, <1>4 DEF IInv, CallbacksAreFresh
<1>13. Settled'
  <2>1. ASSUME NEW u \in Threads, pc'[u] = "write", inst'
        PROVE  SettledOf(u)'
    <3>1. u # t /\ SettledOf(u)
      BY <1>1, <2>1 DEF IInv, Settled
    <3> QED BY <1>1, <1>4, <3>1, SettledKept
  <2> QED BY <2>1 DEF Settled
<1> QED BY <1>5, <1>6, <1>7, <1>9, <1>11, <1>12, <1>13 DEF IInv
-----------------------------------------------------------------------------
(* Steps that touch every thread: a tracker is created and destroyed. *)

LEMMA CreateInv ==
    ASSUME IInv, MidCallCallbacks = {}, NEW t \in Threads, Create(t)
    PROVE  IInv'
<1> DEFINE C(u) == IF tstate[u] THEN PythonFrameToStack(pystack[u]) ELSE <<>>
<1>1. /\ gil = t /\ pc[t] = "run" /\ ~open
      /\ \A u \in Threads : pc[u] = "ensure" => pystack[u] = <<>>
      /\ gen' = gen + 1
      /\ captured' = [u \in Threads |-> C(u)]
      /\ prof' = [u \in Threads |-> IF tstate[u] THEN "trampoline" ELSE "none"]
      /\ open' /\ hooked'
      /\ pc' = [pc EXCEPT ![t] = "activate"]
      /\ UNCHANGED <<gil, tstate, pystack, inst, tls, lock, emitted>>
  BY DEF Create, InPython, Running, MayCallBack
<1>2. /\ TypeOK /\ gen \in Nat /\ ~inst
      /\ \A u \in Threads : emitted[u] = <<>> /\ tls[u].gen <= gen /\ tls[u].gen \in Nat
  BY <1>1 DEF IInv, TypeOK, Generations, Reading
<1>3. ASSUME NEW u \in Threads
      PROVE  /\ C(u) \in Seq(LazilyEmittedFrame)
             /\ \A i \in 1..Len(C(u)) : C(u)[i].state = NOT_EMITTED
             /\ Mirrors(C(u), pystack[u])
  <2>1. pystack[u] \in Seq(PyFrame)
    BY <1>2, ShadowType
  <2>2. CASE tstate[u]
    BY <2>1, <2>2, FrameToStack
  <2>3. CASE ~tstate[u]
    <3>1. C(u) = <<>> /\ pystack[u] = <<>>
      BY <2>3 DEF IInv, GILDiscipline
    <3> HIDE DEF C
    <3> QED BY <3>1 DEF Mirrors
  <2> QED BY <2>2, <2>3
<1>4. \A u \in Threads : ~tstate[u] => C(u) = <<>>
  OBVIOUS
<1> HIDE DEF C
<1>5. /\ pc' \in [Threads -> Locations] /\ pc'[t] = "activate"
      /\ \A u \in Threads \ {t} : pc'[u] = pc[u]
  BY <1>1, <1>2 DEF TypeOK, Locations
<1>6. TypeOK'
  <2>1. prof' \in [Threads -> ProfileFunction]
    BY <1>1 DEF ProfileFunction
  <2>2. captured' \in [Threads -> Seq(LazilyEmittedFrame)]
    BY <1>1, <1>3
  <2> QED BY <1>1, <1>2, <1>5, <2>1, <2>2 DEF TypeOK
<1>7. LockDiscipline'
  BY <1>1, <1>5 DEF IInv, LockDiscipline, InTracker
<1>8. GILDiscipline'
  <2>1. ASSUME NEW u \in Threads
        PROVE  /\ gil' = u => tstate'[u] /\ pc'[u] # "ensure"
               /\ InLifecycle(u)' => gil' = u /\ open' /\ ~inst'
               /\ ~tstate'[u] => pystack'[u] = <<>> /\ prof'[u] = "none"
    BY <1>1, <1>2, <1>5 DEF IInv, GILDiscipline, InLifecycle
  <2> QED BY <2>1 DEF GILDiscipline
<1>9. Generations'
  BY <1>1, <1>2, <1>3, <1>4 DEF Generations
<1>10. FrameOrder' /\ YoungestMayMove'
  BY <1>1 DEF IInv, FrameOrder, FramesInOrder, EmittedUpTo, YoungestMayMove
<1>11. CallbacksAreFresh'
  BY <1>1, <1>5 DEF CallbacksAreFresh
<1>12. ASSUME NEW u \in Threads
       PROVE  MirroringOf(u)' /\ ReadingOf(u)'
  <2>1. Get(u)' = Shadow(gen + 1, 0, C(u))
    BY <1>1, <1>2 DEF Get
  <2>2. ShadowStack(u)' = C(u) /\ Get(u)'.pops = 0
    BY <2>1 DEF ShadowStack, Shadow
  <2>3. MirroringOf(u)'
    <3>1. Mirrors(ShadowStack(u), pystack[u])'
      BY <1>1, <1>3, <2>2 DEF Mirrors
    <3>2. \A i \in 1..Len(ShadowStack(u)') : ShadowStack(u)'[i].state # HAS_NOT_CHANGED
      BY <1>3, <2>2 DEF NOT_EMITTED, HAS_NOT_CHANGED
    <3>3. prof'[u] \in {"trampoline", "trace"} \/ ShadowStack(u)' = <<>>
      BY <1>1, <1>4, <2>2
    <3>4. ShadowStack(u)' = <<>> \/ prof'[u] \in {"trampoline", "trace"}
      BY <3>3
    <3>5. CASE prof'[u] \in {"trampoline", "trace"}
      BY <3>1, <3>2, <3>5 DEF MirroringOf
    <3>6. CASE prof'[u] \notin {"trampoline", "trace"}
      BY <3>3, <3>6 DEF MirroringOf
    <3> QED BY <3>5, <3>6
  <2>4. ReadUpTo(emitted[u], ShadowStack(u), 0, Get(u).pops)'
    <3>1. EmittedUpTo(C(u), 0)
      <4>1. \A i \in 1..Len(C(u)) : i \in Nat /\ i > 0
        BY <1>3
      <4> QED BY <1>3, <4>1 DEF EmittedUpTo
    <3>2. EmittedUpTo(ShadowStack(u), 0)'
      BY <2>2, <3>1 DEF EmittedUpTo
    <3>3. Len(emitted'[u]) = 0
      BY <1>1, <1>2
    <3> QED BY <2>2, <3>2, <3>3 DEF ReadUpTo
  <2>5. 0 \in 0..Len(ShadowStack(u)')
    BY <1>3, <2>2
  <2> QED BY <2>3, <2>4, <2>5 DEF ReadingOf
<1>13. Mirroring' /\ Reading' /\ Settled'
  BY <1>1, <1>2, <1>12 DEF Mirroring, Reading, Settled
<1> QED BY <1>6, <1>7, <1>8, <1>9, <1>10, <1>11, <1>13 DEF IInv

\* While a thread destroys the tracker no other thread is doing so, and no
\* tracker is active.
LEMMA Destroying ==
    ASSUME IInv, NEW t \in Threads, pc[t] \in {"unhook", "close"}
    PROVE  /\ gil = t /\ ~inst /\ ~Live
           /\ \A u \in Threads \ {t} : ~InLifecycle(u)
<1>1. gil = t /\ ~inst
  BY DEF IInv, GILDiscipline, InLifecycle
<1>2. \A u \in Threads \ {t} : ~InLifecycle(u)
  BY <1>1 DEF IInv, GILDiscipline
<1> QED BY <1>1, <1>2 DEF Live, InLifecycle

\* The profile function is removed from every thread.
LEMMA RemoveProfileHooksInv ==
    ASSUME IInv, NEW t \in Threads, RemoveProfileHooks(t)
    PROVE  IInv'
<1>1. /\ pc[t] = "unhook"
      /\ prof' = [u \in Threads |-> "none"]
      /\ captured' = [u \in Threads |-> <<>>]
      /\ pc' = [pc EXCEPT ![t] = "close"]
      /\ UNCHANGED <<gil, tstate, pystack, inst, open, hooked, gen, tls, lock, emitted>>
  BY DEF RemoveProfileHooks, tracker
<1>2. /\ gil = t /\ ~inst
      /\ \A u \in Threads \ {t} : ~InLifecycle(u)
  BY <1>1, Destroying
<1>3. /\ pc' \in [Threads -> Locations] /\ pc'[t] = "close"
      /\ \A u \in Threads \ {t} : pc'[u] = pc[u]
  BY <1>1 DEF IInv, TypeOK, Locations
<1>4. TypeOK'
  <2>1. prof' \in [Threads -> ProfileFunction]
    BY <1>1 DEF ProfileFunction
  <2>2. captured' \in [Threads -> Seq(LazilyEmittedFrame)]
    <3>1. <<>> \in Seq(LazilyEmittedFrame)
      OBVIOUS
    <3> QED BY <1>1, <3>1
  <2> QED BY <1>1, <1>3, <2>1, <2>2 DEF IInv, TypeOK
<1>5. LockDiscipline'
  BY <1>1, <1>3 DEF IInv, LockDiscipline, InTracker
<1>6. GILDiscipline'
  <2>1. ASSUME NEW u \in Threads
        PROVE  /\ gil' = u => tstate'[u] /\ pc'[u] # "ensure"
               /\ InLifecycle(u)' => gil' = u /\ open' /\ ~inst'
               /\ ~tstate'[u] => pystack'[u] = <<>> /\ prof'[u] = "none"
    BY <1>1, <1>2, <1>3 DEF IInv, GILDiscipline, InLifecycle
  <2> QED BY <2>1 DEF GILDiscipline
<1>7. ~Live' /\ ~inst'
  BY <1>1, <1>2, <1>3 DEF Live, InLifecycle
<1>8. Generations'
  BY <1>1, <1>7 DEF IInv, Generations, Live
<1>9. FrameOrder' /\ YoungestMayMove'
  BY <1>1 DEF IInv, FrameOrder, FramesInOrder, EmittedUpTo, YoungestMayMove
<1>10. CallbacksAreFresh' /\ Mirroring' /\ Reading' /\ Settled'
  BY <1>1, <1>7 DEF IInv, CallbacksAreFresh, Mirroring, Reading, Settled
<1> QED BY <1>4, <1>5, <1>6, <1>8, <1>9, <1>10 DEF IInv

\* The writer is closed, once no hook can reach it.
LEMMA CloseWriterInv ==
    ASSUME IInv, NEW t \in Threads, CloseWriter(t)
    PROVE  IInv'
<1>1. /\ pc[t] = "close" /\ lock = NoThread /\ open' = FALSE
      /\ emitted' = [u \in Threads |-> <<>>]
      /\ pc' = [pc EXCEPT ![t] = "run"]
      /\ UNCHANGED <<gil, tstate, pystack, prof, inst, hooked, gen, captured, tls, lock>>
  BY DEF CloseWriter, interpreter, shadow
<1>2. /\ gil = t /\ ~inst
      /\ \A u \in Threads \ {t} : ~InLifecycle(u)
  BY <1>1, Destroying
<1>3. /\ pc' \in [Threads -> Locations] /\ pc'[t] = "run"
      /\ \A u \in Threads \ {t} : pc'[u] = pc[u]
  BY <1>1 DEF IInv, TypeOK, Locations
<1>4. TypeOK'
  <2>1. <<>> \in Seq(RawFrame)
    OBVIOUS
  <2> QED BY <1>1, <1>3, <2>1 DEF IInv, TypeOK
<1>5. LockDiscipline'
  BY <1>1, <1>3, ConstantsAssumption DEF IInv, LockDiscipline, InTracker
<1>6. GILDiscipline'
  <2>1. ASSUME NEW u \in Threads
        PROVE  /\ gil' = u => tstate'[u] /\ pc'[u] # "ensure"
               /\ ~InLifecycle(u)'
               /\ ~tstate'[u] => pystack'[u] = <<>> /\ prof'[u] = "none"
    BY <1>1, <1>2, <1>3 DEF IInv, GILDiscipline, InLifecycle
  <2> QED BY <2>1 DEF GILDiscipline
<1>7. ~Live' /\ ~inst'
  BY <1>1, <1>2, <1>3 DEF Live, InLifecycle
<1>8. Generations'
  BY <1>1, <1>3, <1>7 DEF IInv, Generations, Live
<1>9. FrameOrder' /\ YoungestMayMove'
  BY <1>1 DEF IInv, FrameOrder, FramesInOrder, EmittedUpTo, YoungestMayMove
<1>10. CallbacksAreFresh' /\ Mirroring' /\ Reading' /\ Settled'
  BY <1>1, <1>3, <1>7 DEF IInv, CallbacksAreFresh, Mirroring, Reading, Settled
<1> QED BY <1>4, <1>5, <1>6, <1>8, <1>9, <1>10 DEF IInv
-----------------------------------------------------------------------------
(* The emission: emitPendingPushesAndPops. *)

\* What the function leaves of the shadow stack: the same frames, of which the
\* first `last` are emitted.
LEMMA EmittedStack ==
    ASSUME IInv, NEW t \in Threads,
           NEW k \in 0..Len(ShadowStack(t)), EmittedUpTo(ShadowStack(t), k),
           NEW last \in Kept(t, ShadowStack(t))..Len(ShadowStack(t))
    PROVE  LET stack == ShadowStack(t)
               m == Kept(t, stack)
               fresh == Refreshed(t, stack)
               out == InvalidateMostRecentFrameLineNumber(MarkEmitted(fresh, m, last))
           IN /\ WellFormed(out)
              /\ Len(out) = Len(stack)
              /\ EmittedUpTo(out, last)
              /\ last \in 0..Len(stack)
              /\ \A i \in 1..Len(stack) : /\ out[i].at = stack[i].at
                                          /\ out[i].code = stack[i].code
                                          /\ out[i].line = fresh[i].line
<1> DEFINE stack == ShadowStack(t)
           m == Kept(t, stack)
           fresh == Refreshed(t, stack)
           marked == MarkEmitted(fresh, m, last)
           out == InvalidateMostRecentFrameLineNumber(marked)
<1>1. stack \in Seq(LazilyEmittedFrame) /\ TypeOK
  BY GetWellFormed DEF WellFormed, IInv
<1>2. m \in 0..Len(stack)
  BY <1>1, KeptBound
<1>3. /\ fresh \in Seq(LazilyEmittedFrame)
      /\ Len(fresh) = Len(stack)
      /\ \A i \in 1..Len(stack) :
            /\ fresh[i].at = stack[i].at /\ fresh[i].code = stack[i].code
            /\ i <= m => fresh[i].line = stack[i].line /\ fresh[i].state = HAS_NOT_CHANGED
            /\ i > m => fresh[i].line = LineNumber(t, stack[i]) /\ fresh[i].state = NOT_EMITTED
  BY <1>1, RefreshedStack
<1>4. last \in m..Len(stack) /\ last \in 0..Len(stack)
  BY <1>1, <1>2
<1> HIDE DEF stack, m, fresh
<1>5. /\ marked \in Seq(LazilyEmittedFrame)
      /\ Len(marked) = Len(fresh)
      /\ EmittedUpTo(marked, last)
      /\ \A i \in 1..Len(fresh) : /\ marked[i].at = fresh[i].at
                                  /\ marked[i].code = fresh[i].code
                                  /\ marked[i].line = fresh[i].line
  <2>1. m \in 0..Len(fresh) /\ last \in m..Len(fresh)
    BY <1>2, <1>3, <1>4
  <2>2. \A i \in 1..Len(fresh) :
            fresh[i].state = IF i <= m THEN HAS_NOT_CHANGED ELSE NOT_EMITTED
    BY <1>1, <1>2, <1>3
  <2> QED BY <1>3, <2>1, <2>2, MarkedStack
<1> HIDE DEF marked
<1>6. last \in 0..Len(marked)
  BY <1>3, <1>4, <1>5
<1>7. /\ out \in Seq(LazilyEmittedFrame)
      /\ Len(out) = Len(marked)
      /\ EmittedUpTo(out, last)
      /\ out # <<>> => out[Len(out)].state # HAS_NOT_CHANGED
      /\ \A i \in 1..Len(marked) : /\ out[i].at = marked[i].at
                                   /\ out[i].code = marked[i].code
                                   /\ out[i].line = marked[i].line
  BY <1>5, <1>6, InvalidatedStack
<1> HIDE DEF out
<1>8. WellFormed(out)
  <2>1. last \in 0..Len(out)
    BY <1>6, <1>7
  <2> QED BY <1>7, <2>1 DEF WellFormed, FramesInOrder
<1>9. Len(out) = Len(stack)
  BY <1>3, <1>5, <1>7
<1>10. \A i \in 1..Len(stack) : /\ out[i].at = stack[i].at /\ out[i].code = stack[i].code
                                /\ out[i].line = fresh[i].line
  BY <1>3, <1>5, <1>7
<1> QED BY <1>4, <1>7, <1>8, <1>9, <1>10 DEF out, marked, fresh, m, stack

\* Every frame that is up to date has the line of the Python frame.
LEMMA RefreshedLines ==
    ASSUME IInv, NEW t \in Threads, MirroringOf(t), prof[t] \in {"trampoline", "trace"}
    PROVE  LET stack == ShadowStack(t) IN
           \A i \in 1..Len(stack) : Refreshed(t, stack)[i].line = pystack[t][i].line
<1> DEFINE stack == ShadowStack(t)
           m == Kept(t, stack)
           fresh == Refreshed(t, stack)
<1>1. stack \in Seq(LazilyEmittedFrame) /\ TypeOK /\ FramesInOrder(stack)
  BY GetWellFormed DEF WellFormed, IInv
<1>2. PICK k \in 0..Len(stack) : EmittedUpTo(stack, k)
  BY <1>1 DEF FramesInOrder
<1>3. /\ m \in 0..Len(stack) /\ (m = k \/ m = k - 1)
      /\ m > 0 => ~MustEmit(t, stack[m])
  BY <1>1, <1>2, KeptBound
<1>4. \A i \in 1..Len(stack) :
            /\ i <= m => fresh[i].line = stack[i].line
            /\ i > m => fresh[i].line = LineNumber(t, stack[i])
  BY <1>1, <1>2, RefreshedStack
<1>5. /\ Mirrors(stack, pystack[t])
      /\ \A i \in 1..Len(stack) :
            stack[i].state = HAS_NOT_CHANGED => stack[i].line = pystack[t][i].line
  BY DEF MirroringOf
<1> HIDE DEF stack, m, fresh
<1>6. ASSUME NEW i \in 1..Len(stack)
      PROVE  fresh[i].line = pystack[t][i].line
  <2>1. stack[i].at = i /\ i \in 1..Len(pystack[t])
    BY <1>1, <1>5 DEF Mirrors
  <2>2. LineNumber(t, stack[i]) = pystack[t][i].line
    BY <2>1 DEF LineNumber
  <2>3. stack[i].state \in FrameState
    <3>1. stack[i] \in LazilyEmittedFrame
      BY <1>1
    <3> QED BY <3>1 DEF LazilyEmittedFrame
  <2>4. CASE i > m
    BY <1>4, <2>2, <2>4
  <2>5. CASE i = m
    <3>1. i > 0 /\ ~MustEmit(t, stack[i])
      BY <1>3, <2>5
    <3>2. stack[i].state = HAS_NOT_CHANGED \/ LineNumber(t, stack[i]) = stack[i].line
      BY <2>3, <3>1 DEF MustEmit, FrameState
    <3> QED BY <1>3, <1>4, <1>5, <2>2, <2>5, <3>2
  <2>6. CASE i < m
    <3>1. stack[i].state = HAS_NOT_CHANGED
      BY <1>2, <1>3, <2>6 DEF EmittedUpTo
    <3> QED BY <1>3, <1>4, <1>5, <2>6, <3>1
  <2> QED BY <1>1, <1>3, <2>4, <2>5, <2>6
<1> QED BY <1>6 DEF stack, fresh

\* What a reader has after the pops of an emission, and then after its pushes.
LEMMA ReadPopsKeep ==
    ASSUME NEW frames \in Seq(RawFrame), NEW n \in Nat, n <= Len(frames)
    PROVE  LET kept == ReadPops(frames, n)
           IN /\ kept \in Seq(RawFrame)
              /\ Len(kept) = Len(frames) - n
              /\ \A i \in 1..Len(kept) : kept[i] = frames[i]
<1> DEFINE len == Len(frames)
           kept == ReadPops(frames, n)
<1>1. len \in Nat
  OBVIOUS
<1>2. /\ kept \in Seq(RawFrame) /\ Len(kept) = len - n
      /\ \A i \in 1..(len - n) : kept[i] = frames[i]
  <2>1. 1 \in Int /\ len - n \in Int /\ \A i \in 1..(len - n) : frames[i] \in RawFrame
    BY <1>1
  <2>2. /\ SubSeq(frames, 1, len - n) \in Seq(RawFrame)
        /\ Len(SubSeq(frames, 1, len - n)) =
                IF 1 <= len - n THEN (len - n) - 1 + 1 ELSE 0
        /\ \A i \in 1..((len - n) - 1 + 1) : SubSeq(frames, 1, len - n)[i] = frames[1 + i - 1]
    BY <2>1, SubSeqProperties
  <2>3. kept = SubSeq(frames, 1, len - n)
    BY DEF ReadPops
  <2> HIDE DEF kept
  <2>4. Len(kept) = len - n
    <3>1. Len(kept) = IF 1 <= len - n THEN (len - n) - 1 + 1 ELSE 0
      BY <2>2, <2>3
    <3>2. len - n >= 0
      OBVIOUS
    <3> HIDE DEF len
    <3> QED BY <1>1, <3>1, <3>2
  <2>5. ASSUME NEW i \in 1..(len - n) PROVE kept[i] = frames[i]
    <3>1. i \in 1..((len - n) - 1 + 1) /\ 1 + i - 1 = i
      BY <1>1
    <3> QED BY <2>2, <2>3, <3>1
  <2> QED BY <2>2, <2>3, <2>4, <2>5
<1> QED BY <1>2 DEF kept

\* Emitted pushes make the stack a reader has longer, by the frames emitted.
LEMMA ReadPushesAppend ==
    ASSUME NEW kept \in Seq(RawFrame), NEW fresh \in Seq(LazilyEmittedFrame),
           NEW m \in 0..Len(fresh), NEW last \in m..Len(fresh)
    PROVE  LET out == ReadPushes(kept, fresh, m, last)
           IN /\ out \in Seq(RawFrame)
              /\ Len(out) = Len(kept) + (last - m)
              /\ \A i \in 1..Len(kept) : out[i] = kept[i]
              /\ \A i \in 1..(last - m) : out[Len(kept) + i] =
                    [code |-> fresh[m + i].code, line |-> fresh[m + i].line]
<1> DEFINE pushed == [i \in 1..(last - m) |->
                        [code |-> fresh[m + i].code, line |-> fresh[m + i].line]]
           out == ReadPushes(kept, fresh, m, last)
<1>1. m \in Nat /\ last \in Nat /\ last - m \in Nat /\ Len(kept) \in Nat
  OBVIOUS
<1>3. pushed \in Seq(RawFrame) /\ Len(pushed) = last - m
  <2>1. ASSUME NEW i \in 1..(last - m)
        PROVE  [code |-> fresh[m + i].code, line |-> fresh[m + i].line] \in RawFrame
    <3>1. m + i \in 1..Len(fresh)
      BY <1>1
    <3>2. fresh[m + i] \in LazilyEmittedFrame
      BY <3>1
    <3> QED BY <3>2 DEF LazilyEmittedFrame, RawFrame
  <2>2. \A i \in 1..(last - m) : pushed[i] \in RawFrame
    BY <2>1
  <2>3. pushed = [i \in 1..(last - m) |-> pushed[i]]
    OBVIOUS
  <2> HIDE DEF pushed
  <2> DEFINE d == last - m
  <2>4. d \in Nat /\ pushed \in [1..d -> RawFrame]
    BY <1>1, <2>2, <2>3
  <2> HIDE DEF d
  <2>5. pushed \in Seq(RawFrame) /\ Len(pushed) = d
    BY <2>4
  <2> QED BY <2>5 DEF d
<1>4. out = kept \o pushed
  BY DEF ReadPushes
<1>5. \A i \in 1..(last - m) : pushed[i] =
            [code |-> fresh[m + i].code, line |-> fresh[m + i].line]
  OBVIOUS
<1> HIDE DEF pushed, out
<1>6. /\ out \in Seq(RawFrame) /\ Len(out) = Len(kept) + Len(pushed)
      /\ \A i \in 1..(Len(kept) + Len(pushed)) :
            out[i] = IF i <= Len(kept) THEN kept[i] ELSE pushed[i - Len(kept)]
  BY <1>3, <1>4, ConcatProperties
<1>7. \A i \in 1..Len(kept) : out[i] = kept[i]
  <2> SUFFICES ASSUME NEW i \in 1..Len(kept)
               PROVE  out[i] = kept[i]
    OBVIOUS
  <2>1. i \in 1..(Len(kept) + Len(pushed)) /\ i <= Len(kept)
    BY <1>1, <1>3
  <2> QED BY <1>6, <2>1
<1>8. \A i \in 1..(last - m) : out[Len(kept) + i] =
            [code |-> fresh[m + i].code, line |-> fresh[m + i].line]
  <2> SUFFICES ASSUME NEW i \in 1..(last - m)
               PROVE  out[Len(kept) + i] = pushed[i]
    BY <1>5
  <2>1. /\ Len(kept) + i \in 1..(Len(kept) + Len(pushed)) /\ ~(Len(kept) + i <= Len(kept))
        /\ (Len(kept) + i) - Len(kept) = i
    BY <1>1, <1>3
  <2> QED BY <1>6, <2>1
<1> QED BY <1>3, <1>6, <1>7, <1>8 DEF out

\* What is pending is emitted, frame by frame, before an allocation.
LEMMA EmitPendingPushesAndPopsInv ==
    ASSUME IInv, NEW t \in Threads, EmitPendingPushesAndPops(t)
    PROVE  IInv'
<1> DEFINE stack == ShadowStack(t)
           n == Len(stack)
           m == Kept(t, stack)
           fresh == Refreshed(t, stack)
           pops == Get(t).pops + ArtificialPops(t, stack)
           out(last) == InvalidateMostRecentFrameLineNumber(MarkEmitted(fresh, m, last))
           popped == ReadPops(emitted[t], pops)
<1>1. /\ pc[t] = "emit"
      /\ pc' = [pc EXCEPT ![t] = "write"]
      /\ UNCHANGED <<gil, tstate, pystack, prof, open, hooked, gen, lock>>
  BY DEF EmitPendingPushesAndPops, interpreter
<1>2. \/ /\ inst' = inst /\ inst
         /\ UseTracker(t, Shadow(gen, 0, out(n)))
         /\ emitted' = [emitted EXCEPT ![t] = ReadPushes(popped, fresh, m, n)]
      \/ /\ inst' = FALSE /\ inst
         /\ \E b \in BOOLEAN, last \in m..n :
              /\ UseTracker(t, Shadow(gen, 0, out(last)))
              /\ emitted' = [emitted EXCEPT ![t] =
                    ReadPushes(IF b THEN popped ELSE emitted[t], fresh, m, last)]
      \/ /\ inst' = FALSE /\ ~inst /\ emitted' = emitted
         /\ UseTracker(t, Shadow(gen, pops, out(m)))
  <2>1. TypeOK /\ inst \in BOOLEAN /\ emitted \in [Threads -> Seq(RawFrame)]
    BY DEF IInv, TypeOK
  <2> QED BY <2>1 DEF EmitPendingPushesAndPops, ShadowStack
<1>3. /\ TypeOK /\ gen \in Nat /\ inst \in BOOLEAN
      /\ stack \in Seq(LazilyEmittedFrame) /\ FramesInOrder(stack) /\ n \in Nat
      /\ Get(t).pops \in Nat /\ emitted[t] \in Seq(RawFrame)
      /\ emitted \in [Threads -> Seq(RawFrame)]
  <2>1. TypeOK
    BY DEF IInv
  <2>2. stack \in Seq(LazilyEmittedFrame) /\ FramesInOrder(stack)
    BY GetWellFormed DEF WellFormed
  <2>3. n \in Nat
    BY <2>2
  <2>4. gen \in Nat /\ inst \in BOOLEAN /\ emitted \in [Threads -> Seq(RawFrame)]
    BY <2>1 DEF TypeOK
  <2>5. Get(t).pops \in Nat /\ emitted[t] \in Seq(RawFrame)
    BY <2>1, ShadowType
  <2> QED BY <2>1, <2>2, <2>3, <2>4, <2>5
<1>4. PICK k \in 0..n :
        /\ EmittedUpTo(stack, k)
        /\ inst => ReadUpTo(emitted[t], stack, k, Get(t).pops)
  <2>1. CASE inst
    <3>1. ReadingOf(t)
      BY <2>1 DEF IInv, Reading, Live
    <3> QED BY <3>1 DEF ReadingOf, ReadUpTo
  <2>2. CASE ~inst
    BY <1>3, <2>2 DEF FramesInOrder
  <2> QED BY <2>1, <2>2
<1>5. /\ m \in 0..n /\ m <= k
      /\ ArtificialPops(t, stack) = k - m
  <2>1. ArtificialPops(t, stack) = k - m
    BY <1>3, <1>4, ArtificialPopsAre
  <2>2. m \in 0..n /\ (m = k \/ m = k - 1)
    BY <1>3, <1>4, KeptBound
  <2> HIDE DEF m, n
  <2> QED BY <1>3, <1>4, <2>1, <2>2
<1>6. /\ fresh \in Seq(LazilyEmittedFrame) /\ Len(fresh) = n
      /\ \A i \in 1..n :
            /\ fresh[i].code = stack[i].code
            /\ i <= m => fresh[i].line = stack[i].line
  BY <1>3, <1>4, RefreshedStack
<1>7. ASSUME NEW last \in m..n
      PROVE  /\ WellFormed(out(last)) /\ Len(out(last)) = n
             /\ EmittedUpTo(out(last), last) /\ last \in 0..n
             /\ \A i \in 1..n : /\ out(last)[i].at = stack[i].at
                                /\ out(last)[i].code = stack[i].code
                                /\ out(last)[i].line = fresh[i].line
  BY <1>4, EmittedStack
<1> HIDE DEF stack, n, m, fresh, out
<1>8. /\ pops \in Nat /\ popped \in Seq(RawFrame)
      /\ inst => pops <= Len(emitted[t]) /\ Len(emitted[t]) - pops = m
  <2>1. pops = Get(t).pops + (k - m)
    BY <1>5
  <2>2. pops \in Nat
    BY <1>3, <1>5, <2>1
  <2>3. inst => Len(emitted[t]) = k + Get(t).pops
    BY <1>4 DEF ReadUpTo
  <2>4. popped \in Seq(RawFrame)
    <3> DEFINE e == Len(emitted[t]) - pops
    <3>1. 1 \in Int /\ e \in Int /\ \A i \in 1..e : emitted[t][i] \in RawFrame
      BY <1>3, <2>2
    <3> HIDE DEF e
    <3>2. SubSeq(emitted[t], 1, e) \in Seq(RawFrame)
      BY <3>1, SubSeqProperties
    <3> QED BY <3>2 DEF ReadPops, e
  <2> QED BY <1>3, <1>5, <2>1, <2>2, <2>3, <2>4
<1> HIDE DEF pops
<1>9. /\ m \in m..n /\ n \in m..n
  BY <1>3, <1>5
<1>10. PICK s \in [gen : Nat, pops : Nat, stack : Seq(LazilyEmittedFrame)] :
        /\ s.gen = gen /\ WellFormed(s.stack) /\ UseTracker(t, s)
        /\ inst' => s.pops = 0 /\ s.stack = out(n)
  <2>1. \A last \in m..n, p \in Nat :
            /\ Shadow(gen, p, out(last)) \in [gen : Nat, pops : Nat, stack : Seq(LazilyEmittedFrame)]
            /\ Shadow(gen, p, out(last)).gen = gen
            /\ Shadow(gen, p, out(last)).pops = p
            /\ Shadow(gen, p, out(last)).stack = out(last)
            /\ WellFormed(out(last))
    BY <1>3, <1>7 DEF Shadow, WellFormed
  <2> QED BY <1>2, <1>8, <1>9, <2>1
<1>11. /\ emitted' \in [Threads -> Seq(RawFrame)]
       /\ \A u \in Threads \ {t} : emitted'[u] = emitted[u]
       /\ inst' => emitted'[t] = ReadPushes(popped, fresh, m, n)
  <2>1. PICK r \in Seq(RawFrame) :
            /\ emitted' = [emitted EXCEPT ![t] = r]
            /\ inst' => r = ReadPushes(popped, fresh, m, n)
    <3>1. ASSUME NEW last \in m..n, NEW b \in BOOLEAN
          PROVE  ReadPushes(IF b THEN popped ELSE emitted[t], fresh, m, last) \in Seq(RawFrame)
      <4> DEFINE f == IF b THEN popped ELSE emitted[t]
      <4>1. f \in Seq(RawFrame)
        BY <1>3, <1>8
      <4> HIDE DEF f
      <4>2. fresh \in Seq(LazilyEmittedFrame) /\ m \in 0..Len(fresh) /\ last \in m..Len(fresh)
        BY <1>5, <1>6
      <4>3. ReadPushes(f, fresh, m, last) \in Seq(RawFrame)
        BY <4>1, <4>2, ReadPushesAppend
      <4> QED BY <4>3 DEF f
    <3>2. ReadPushes(popped, fresh, m, n) \in Seq(RawFrame)
      <4>1. ReadPushes(IF TRUE THEN popped ELSE emitted[t], fresh, m, n) \in Seq(RawFrame)
        BY <1>9, <3>1
      <4> QED BY <4>1
    <3>3. emitted = [emitted EXCEPT ![t] = emitted[t]]
      BY <1>3
    <3> HIDE DEF popped
    <3> QED BY <1>2, <1>3, <3>1, <3>2, <3>3
  <2> QED BY <1>3, <2>1
<1>12. Get(t)' = s /\ tls'[t] = s
  BY <1>1, <1>3, <1>10, TrackerUsed
<1>13. /\ lock = t /\ open
       /\ \A u \in Threads : pc[u] # "activate" /\ pc'[u] # "activate"
       /\ pc'[t] = "write" /\ pc' \in [Threads -> Locations]
       /\ \A u \in Threads \ {t} : pc'[u] = pc[u]
  BY <1>1 DEF IInv, TypeOK, LockDiscipline, InTracker, Locations
<1>14. inst' => inst
  BY <1>2
<1>15. OwnTracker(t)
  BY <1>10 DEF OwnTracker
<1>16. ASSUME inst'
       PROVE  MirroringOf(t)' /\ ReadingOf(t)' /\ SettledOf(t)'
  <2>1. inst /\ MirroringOf(t) /\ ReadUpTo(emitted[t], stack, k, Get(t).pops)
    BY <1>4, <1>14, <1>16 DEF IInv, Mirroring, Live
  <2>2. /\ WellFormed(out(n)) /\ Len(out(n)) = n /\ EmittedUpTo(out(n), n)
        /\ \A i \in 1..n : /\ out(n)[i].at = stack[i].at /\ out(n)[i].code = stack[i].code
                           /\ out(n)[i].line = fresh[i].line
    BY <1>7, <1>9
  <2>3. ShadowStack(t)' = out(n) /\ Get(t)'.pops = 0 /\ tls'[t].stack = out(n)
    BY <1>10, <1>12, <1>16 DEF ShadowStack
  <2>4. prof[t] \in {"trampoline", "trace"} =>
            /\ Mirrors(stack, pystack[t])
            /\ \A i \in 1..n : out(n)[i].line = pystack[t][i].line
    BY <2>1, <2>2, RefreshedLines DEF MirroringOf, stack, fresh, n
  <2>5. MirroringOf(t)'
    <3>1. CASE prof[t] \in {"trampoline", "trace"}
      <4>1. Mirrors(out(n), pystack[t])
        BY <1>3, <2>2, <2>4, <3>1 DEF Mirrors, n
      <4>2. Mirrors(ShadowStack(t), pystack[t])'
        BY <1>1, <2>3, <4>1 DEF Mirrors
      <4> QED BY <1>1, <2>2, <2>3, <2>4, <3>1, <4>2 DEF MirroringOf
    <3>2. CASE prof[t] \notin {"trampoline", "trace"}
      <4>1. stack = <<>> /\ n = 0
        BY <2>1, <3>2 DEF MirroringOf, stack, n
      <4>2. out(n) = <<>>
        BY <2>2, <4>1 DEF WellFormed
      <4> QED BY <1>1, <2>3, <3>2, <4>2 DEF MirroringOf
    <3> QED BY <3>1, <3>2
  <2>6. /\ Len(popped) = m /\ n \in Nat
        /\ Len(emitted'[t]) = n
        /\ \A i \in 1..m : emitted'[t][i] = emitted[t][i]
        /\ \A i \in 1..(n - m) : emitted'[t][m + i] =
                [code |-> fresh[m + i].code, line |-> fresh[m + i].line]
    <3>1. /\ emitted[t] \in Seq(RawFrame) /\ pops \in Nat /\ pops <= Len(emitted[t])
          /\ fresh \in Seq(LazilyEmittedFrame)
          /\ m \in 0..Len(fresh) /\ n \in m..Len(fresh)
      BY <1>3, <1>5, <1>6, <1>8, <1>9, <2>1
    <3>2. /\ Len(popped) = Len(emitted[t]) - pops
          /\ Len(ReadPushes(popped, fresh, m, n)) = Len(popped) + (n - m)
          /\ \A i \in 1..Len(popped) : ReadPushes(popped, fresh, m, n)[i] = emitted[t][i]
          /\ \A i \in 1..(n - m) : ReadPushes(popped, fresh, m, n)[Len(popped) + i] =
                    [code |-> fresh[m + i].code, line |-> fresh[m + i].line]
      <4> DEFINE f == emitted[t]
      <4>1. f \in Seq(RawFrame) /\ pops <= Len(f) /\ popped = ReadPops(f, pops)
        BY <3>1
      <4>2. /\ pops \in Nat /\ fresh \in Seq(LazilyEmittedFrame)
            /\ m \in 0..Len(fresh) /\ n \in m..Len(fresh)
        BY <3>1
      <4> HIDE DEF f, pops, fresh, m, n
      <4>3. /\ popped \in Seq(RawFrame)
            /\ Len(popped) = Len(f) - pops
            /\ \A i \in 1..Len(popped) : popped[i] = f[i]
        BY <4>1, <4>2, ReadPopsKeep
      <4> DEFINE read == ReadPushes(popped, fresh, m, n)
      <4> HIDE DEF popped
      <4>4. /\ Len(read) = Len(popped) + (n - m)
            /\ \A i \in 1..Len(popped) : read[i] = popped[i]
            /\ \A i \in 1..(n - m) : read[Len(popped) + i] =
                    [code |-> fresh[m + i].code, line |-> fresh[m + i].line]
        BY <4>2, <4>3, ReadPushesAppend
      <4> QED BY <4>3, <4>4 DEF f
    <3> HIDE DEF popped
    <3>3. Len(popped) = m
      BY <1>8, <2>1, <3>2
    <3>4. m + (n - m) = n
      BY <1>3, <1>5
    <3> QED BY <1>3, <1>11, <1>16, <3>2, <3>3, <3>4
  <2>7. \A i \in 1..n : emitted'[t][i] = [code |-> out(n)[i].code, line |-> out(n)[i].line]
    <3> SUFFICES ASSUME NEW i \in 1..n
                 PROVE  emitted'[t][i] = [code |-> out(n)[i].code, line |-> out(n)[i].line]
      OBVIOUS
    <3>1. CASE i <= m
      <4>1. emitted'[t][i] = [code |-> stack[i].code, line |-> stack[i].line]
        <5>1. i \in 1..m /\ i \in 1..k
          BY <1>3, <1>5, <3>1
        <5> QED BY <2>1, <2>6, <5>1 DEF ReadUpTo
      <4> QED BY <1>6, <2>2, <3>1, <4>1
    <3>2. CASE i > m
      <4>1. i - m \in 1..(n - m) /\ m + (i - m) = i
        BY <1>3, <1>5, <3>2
      <4>2. emitted'[t][i] = [code |-> fresh[i].code, line |-> fresh[i].line]
        BY <2>6, <4>1
      <4> QED BY <1>6, <2>2, <4>2
    <3> QED BY <1>3, <1>5, <3>1, <3>2
  <2>8. ReadingOf(t)'
    <3>1. ReadUpTo(emitted'[t], out(n), n, 0)
      BY <2>2, <2>6, <2>7 DEF ReadUpTo
    <3>2. ReadUpTo(emitted'[t], ShadowStack(t)', n, Get(t)'.pops)
      BY <2>3, <3>1
    <3>3. n \in 0..Len(ShadowStack(t)')
      BY <2>2, <2>3, <2>6
    <3> QED BY <3>2, <3>3 DEF ReadingOf
  <2>9. SettledOf(t)'
    <3>1. EmittedUpTo(tls[t].stack, Len(tls[t].stack))'
      BY <2>2, <2>3 DEF EmittedUpTo
    <3>2. prof[t] \in {"trampoline", "trace"} /\ out(n) # <<>> =>
                out(n)[n].line = pystack[t][n].line
      <4>1. out(n) # <<>> => n \in 1..n
        BY <2>2, <2>6 DEF WellFormed
      <4> QED BY <2>4, <4>1
    <3>3. tls'[t].gen = gen' /\ tls'[t].pops = 0
      BY <1>1, <1>10, <1>12, <1>16
    <3> QED BY <1>1, <2>2, <2>3, <3>1, <3>2, <3>3 DEF SettledOf
  <2> QED BY <2>5, <2>8, <2>9
<1>17. /\ tls' \in [Threads -> [gen : Nat, pops : Nat, stack : Seq(LazilyEmittedFrame)]]
       /\ captured' \in [Threads -> Seq(LazilyEmittedFrame)]
       /\ \A u \in Threads \ {t} : tls'[u] = tls[u] /\ Get(u)' = Get(u)
  BY <1>1, <1>15, OnlyOwnTracker
<1>18. TypeOK'
  <2>1. inst' \in BOOLEAN
    BY <1>2
  <2> QED BY <1>1, <1>3, <1>11, <1>13, <1>17, <2>1 DEF TypeOK
<1>19. LockDiscipline'
  BY <1>1, <1>13 DEF IInv, LockDiscipline, InTracker
<1>20. GILDiscipline'
  BY <1>1, <1>13, <1>14 DEF IInv, GILDiscipline, InLifecycle
<1>21. Generations' /\ FrameOrder' /\ YoungestMayMove'
  <2>1. ~tstate'[t] /\ inst' => captured'[t] = <<>>
    <3>1. ~tstate[t] /\ inst => captured[t] = <<>>
      BY DEF IInv, Generations, Live
    <3>2. captured'[t] = captured[t] \/ captured'[t] = <<>>
      BY <1>1, <1>3, <1>10, TrackerUsed
    <3> QED BY <1>1, <1>14, <3>1, <3>2
  <2> QED BY <1>1, <1>13, <1>14, <1>15, <2>1, ShadowsKept
<1>22. CallbacksAreFresh'
  BY <1>1, <1>13 DEF IInv, CallbacksAreFresh
<1>23. Mirroring' /\ Reading'
  <2>1. Live' => inst'
    BY <1>13 DEF Live
  <2>2. ASSUME NEW u \in Threads \ {t}, inst'
        PROVE  MirroringOf(u)' /\ ReadingOf(u)'
    <3>1. MirroringOf(u) /\ ReadingOf(u)
      BY <1>14, <2>2 DEF IInv, Mirroring, Reading, Live
    <3> QED BY <1>1, <1>11, <1>17, <3>1, MirroringKept, ReadingKept
  <2>3. open'
    BY <1>1, <1>13
  <2> QED BY <1>16, <2>1, <2>2, <2>3 DEF Mirroring, Reading
<1>24. Settled'
  <2>1. ASSUME NEW u \in Threads \ {t}, inst', pc'[u] = "write"
        PROVE  SettledOf(u)'
    <3>1. SettledOf(u)
      BY <1>13, <1>14, <2>1 DEF IInv, Settled
    <3> QED BY <1>1, <1>17, <3>1, SettledKept
  <2> QED BY <1>16, <2>1 DEF Settled
<1> QED BY <1>18, <1>19, <1>20, <1>21, <1>22, <1>23, <1>24 DEF IInv
-----------------------------------------------------------------------------
(* The theorems. *)

\* A step that changes nothing the specification knows of.
LEMMA StutterInv ==
    ASSUME IInv, UNCHANGED vars
    PROVE  IInv'
<1> USE DEF vars, interpreter, tracker, shadow
<1>1. TypeOK' /\ LockDiscipline' /\ GILDiscipline' /\ Generations' /\ CallbacksAreFresh'
  BY DEF IInv, TypeOK, LockDiscipline, GILDiscipline, Generations, CallbacksAreFresh,
         InTracker, InLifecycle, Live
<1>2. FrameOrder' /\ YoungestMayMove' /\ Mirroring' /\ Reading'
  BY StacksKept DEF Live
<1>3. Settled'
  BY SettledKept DEF IInv, Settled
<1> QED BY <1>1, <1>2, <1>3 DEF IInv

\* Every step keeps the invariant.
LEMMA NextInv ==
    ASSUME IInv, MidCallCallbacks = {}, [Next]_vars
    PROVE  IInv'
<1>1. CASE RssUnavailable
  BY <1>1, RssUnavailableInv
<1>2. ASSUME NEW t \in Threads, TrackerStep(t)
      PROVE  IInv'
  <2>1. CASE LockTracker(t)
    BY <2>1, LockTrackerInv
  <2>2. CASE EmitPendingPushesAndPops(t)
    BY <2>2, EmitPendingPushesAndPopsInv
  <2>3. CASE WriteAllocation(t)
    BY <2>3, WriteAllocationInv
  <2>4. CASE Activate(t)
    BY <2>4, ActivateInv
  <2>5. CASE RestoreSymbols(t)
    BY <2>5, RestoreSymbolsInv
  <2>6. CASE RemoveProfileHooks(t)
    BY <2>6, RemoveProfileHooksInv
  <2>7. CASE CloseWriter(t)
    BY <2>7, CloseWriterInv
  <2> QED BY <1>2, <2>1, <2>2, <2>3, <2>4, <2>5, <2>6, <2>7 DEF TrackerStep
<1>3. ASSUME NEW t \in Threads, Spawn(t) PROVE IInv'
  BY <1>3, SpawnInv
<1>4. ASSUME NEW t \in Threads, TakeGIL(t) PROVE IInv'
  BY <1>4, TakeGILInv
<1>5. ASSUME NEW t \in Threads, DropGIL(t) PROVE IInv'
  BY <1>5, DropGILInv
<1>6. ASSUME NEW t \in Threads, EnsureCall(t) PROVE IInv'
  BY <1>6, EnsureCallInv
<1>7. ASSUME NEW t \in Threads, EnsureReturn(t) PROVE IInv'
  BY <1>7, EnsureReturnInv
<1>8. ASSUME NEW t \in Threads, Detach(t) PROVE IInv'
  BY <1>8, DetachInv
<1>9. ASSUME NEW t \in Threads, SetProfile(t) PROVE IInv'
  BY <1>9, SetProfileInv
<1>10. ASSUME NEW t \in Threads, Call(t) PROVE IInv'
  BY <1>10, CallInv
<1>11. ASSUME NEW t \in Threads, Return(t) PROVE IInv'
  BY <1>11, ReturnInv
<1>12. ASSUME NEW t \in Threads, CCall(t) PROVE IInv'
  BY <1>12, CCallInv
<1>13. ASSUME NEW t \in Threads, CReturn(t) PROVE IInv'
  BY <1>13, CReturnInv
<1>14. ASSUME NEW t \in Threads, NextLine(t) PROVE IInv'
  BY <1>14, NextLineInv
<1>15. ASSUME NEW t \in Threads, TrackAllocation(t) PROVE IInv'
  BY <1>15, TrackAllocationInv
<1>16. ASSUME NEW t \in Threads, Create(t) PROVE IInv'
  BY <1>16, CreateInv
<1>17. ASSUME NEW t \in Threads, Deactivate(t) PROVE IInv'
  BY <1>17, DeactivateInv
<1>18. CASE UNCHANGED vars
  BY <1>18, StutterInv
<1> QED
  BY <1>1, <1>2, <1>3, <1>4, <1>5, <1>6, <1>7, <1>8, <1>9, <1>10, <1>11, <1>12, <1>13,
     <1>14, <1>15, <1>16, <1>17, <1>18 DEF Next

\* Everything the steps of the tracker, the interpreter and the reader preserve
\* together is an invariant, as long as no C code calls back into Python from
\* the middle of a call that was in progress when the tracker started.
THEOREM Invariance == MidCallCallbacks = {} => (Spec => []IInv)
<1> SUFFICES ASSUME MidCallCallbacks = {} PROVE Spec => []IInv
  OBVIOUS
<1>1. Init => IInv
  BY InitInv
<1>2. IInv /\ [Next]_vars => IInv'
  BY NextInv
<1> QED BY <1>1, <1>2, PTL DEF Spec

\* Type correctness: every thread-local tracker stays one, whichever thread
\* starts, destroys or outlives a tracker.
THEOREM TypeCorrect == MidCallCallbacks = {} => (Spec => []TypeOK)
<1>1. IInv => TypeOK
  BY DEF IInv
<1> QED BY <1>1, Invariance, PTL

\* The loop of emitPendingPushesAndPops may stop early: the states of the
\* frames of every shadow stack keep their order.
THEOREM FramesStayInOrder == MidCallCallbacks = {} => (Spec => []FrameOrder)
<1>1. IInv => FrameOrder
  BY DEF IInv
<1> QED BY <1>1, Invariance, PTL

\* The mirror copy of the Python stack is one, for every thread.
THEOREM ShadowIsFaithful == MidCallCallbacks = {} => (Spec => []ShadowIsPythonStack)
BY InvShadow, Invariance, PTL

\* The writer of FramePush and FramePop records and their reader stay in step.
THEOREM ReaderFollows == MidCallCallbacks = {} => (Spec => []ReaderInSync)
BY InvReader, Invariance, PTL

\* An allocation recorded while the tracker is active is attributed to the
\* exact stack, line for line, of the thread that made it.
THEOREM AttributionIsExact == MidCallCallbacks = {} => (Spec => []Attribution)
BY InvAttribution, Invariance, PTL

\* No thread inside the tracker ever sees it destroyed under it.
THEOREM NoUseAfterFree == MidCallCallbacks = {} => (Spec => []NoUseAfterClose)
BY InvNoUse, Invariance, PTL
=============================================================================
