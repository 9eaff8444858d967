------------------------- MODULE RecordStreamProofs -------------------------
(***************************************************************************)
(* A reader of the stream is in lockstep with its writer, and fails on     *)
(* nothing but a torn record, and the two together are the log of          *)
(* RecordLog, for any threads, frames, traces, widths and lengths of the   *)
(* stream.                                                                 *)
(*                                                                         *)
(* The argument has three parts.  Tells says what a record adds to the     *)
(* tables its writer had told, and Hears that a reader which follows those *)
(* tables follows the next ones once it has read it: deltas come back as   *)
(* the values they were made of, numbers stand for the frames they were    *)
(* given to, and no pop is longer than the stack.  The invariant then      *)
(* carries the history of the tables next to the stream, and each method   *)
(* of the tracker is shown to write only records that tell what it does.   *)
(* The log then needs one thing more, that what the reader has heard is    *)
(* where it stands in the history: a record is one action of the log.      *)
(***************************************************************************)
EXTENDS RecordStream, SequenceTheorems, WellFoundedInduction, TLAPS

\* A set of numbers has a least one.
LEMMA Least ==
    ASSUME NEW T \in SUBSET Nat, T # {}
    PROVE  \E m \in T : \A k \in T : m <= k
<1>1. PICK m \in T : \A k \in T : ~(<<k, m>> \in OpToRel(<, Nat))
  <2> DEFINE R == OpToRel(<, Nat)
  <2>1. IsWellFoundedOn(R, Nat)
    BY NatLessThanWellFounded
  <2> HIDE DEF R
  <2>2. \E x \in T : \A y \in T : ~(<<y, x>> \in R)
    BY <2>1, WFMin
  <2> QED BY <2>2 DEF R
<1>2. m \in Nat /\ \A k \in T : k \in Nat
  OBVIOUS
<1>3. \A k \in T : ~(k < m)
  BY <1>1, <1>2 DEF OpToRel
<1> QED BY <1>2, <1>3

-----------------------------------------------------------------------------
(* The tree of native frames *)

\* A tree whose nodes come after their parents.
Tree == {natives \in Seq([ip : Ips, index : Nat]) :
            \A i \in 1..Len(natives) : natives[i].index \in 0..(i - 1)}

\* Node n's trace goes on from its parent's.
Grows(natives, trace, n) ==
    trace[n] = IF n = 0 THEN <<>> ELSE Append(trace[natives[n].index], natives[n].ip)

\* The first nodes of a tree have traces.
LEMMA SomeTraces ==
    ASSUME NEW natives \in Tree, NEW k \in 0..Len(natives)
    PROVE  \E trace : trace = [n \in 0..k |->
                IF n = 0 THEN <<>> ELSE Append(trace[natives[n].index], natives[n].ip)]
<1> DEFINE Has(m) == \E trace : trace = [n \in 0..m |->
                IF n = 0 THEN <<>> ELSE Append(trace[natives[n].index], natives[n].ip)]
           T == {m \in 0..Len(natives) : ~Has(m)}
<1>1. Len(natives) \in Nat /\ \A i \in 1..Len(natives) : natives[i].index \in 0..(i - 1)
  BY DEF Tree
<1>2. Has(0)
  <2> DEFINE f == [n \in 0..0 |-> <<>>]
  <2>1. f = [n \in 0..0 |-> IF n = 0 THEN <<>> ELSE Append(f[natives[n].index], natives[n].ip)]
    OBVIOUS
  <2> QED BY <2>1
<1>3. ASSUME NEW m \in 1..Len(natives), Has(m - 1) PROVE Has(m)
  <2>1. PICK f : f = [n \in 0..(m - 1) |->
                IF n = 0 THEN <<>> ELSE Append(f[natives[n].index], natives[n].ip)]
    BY <1>3
  <2> DEFINE g == [n \in 0..m |-> IF n = m THEN Append(f[natives[m].index], natives[m].ip) ELSE f[n]]
  <2>2. ASSUME NEW n \in 0..m
        PROVE  g[n] = IF n = 0 THEN <<>> ELSE Append(g[natives[n].index], natives[n].ip)
    <3>1. CASE n = 0
      <4>1. 0 \in 0..(m - 1) /\ 0 \in 0..m /\ m # 0
        OBVIOUS
      <4>2. f[0] = <<>>
        BY <2>1, <4>1
      <4>3. g[0] = f[0]
        BY <4>1
      <4> HIDE DEF g
      <4> QED BY <3>1, <4>2, <4>3
    <3>2. CASE n # 0
      <4>1. natives[n].index \in 0..(n - 1)
        BY <1>1, <3>2
      <4>2. g[natives[n].index] = f[natives[n].index]
        BY <4>1
      <4>3. CASE n = m
        BY <3>2, <4>2, <4>3
      <4>4. CASE n # m
        <5>1. \A j \in 0..(m - 1) :
                f[j] = IF j = 0 THEN <<>> ELSE Append(f[natives[j].index], natives[j].ip)
          BY <2>1
        <5>2. n \in 0..(m - 1) /\ g[n] = f[n]
          BY <4>4
        <5> HIDE DEF g
        <5> QED BY <3>2, <4>2, <5>1, <5>2
      <4> QED BY <4>3, <4>4
    <3> QED BY <3>1, <3>2
  <2>3. g = [n \in 0..m |-> IF n = 0 THEN <<>> ELSE Append(g[natives[n].index], natives[n].ip)]
    BY <2>2
  <2> HIDE DEF g
  <2> QED BY <2>3
<1> HIDE DEF Has
<1>4. T = {}
  <2> SUFFICES ASSUME T # {} PROVE FALSE
    OBVIOUS
  <2>1. PICK m \in T : \A j \in T : m <= j
    <3>1. T \in SUBSET Nat
      BY <1>1
    <3> HIDE DEF T
    <3> QED BY <3>1, Least
  <2>2. m \in 1..Len(natives) /\ m - 1 \notin T
    BY <1>1, <1>2, <2>1
  <2> QED BY <1>1, <1>3, <2>1, <2>2
<1>5. Has(k)
  BY <1>4
<1> QED BY <1>5 DEF Has

\* Traces is what its recursive definition says.
LEMMA TracesGrow ==
    ASSUME NEW natives \in Tree
    PROVE  /\ DOMAIN Traces(natives) = 0..Len(natives)
           /\ \A n \in 0..Len(natives) : Grows(natives, Traces(natives), n)
<1>1. Traces(natives) = [n \in 0..Len(natives) |->
            IF n = 0 THEN <<>> ELSE Append(Traces(natives)[natives[n].index], natives[n].ip)]
  <2>1. \E trace : trace = [n \in 0..Len(natives) |->
                IF n = 0 THEN <<>> ELSE Append(trace[natives[n].index], natives[n].ip)]
    <3>1. Len(natives) \in 0..Len(natives)
      BY DEF Tree
    <3> QED BY <3>1, SomeTraces
  <2> QED BY <2>1 DEF Traces
<1> QED BY <1>1 DEF Grows

\* Two functions that grow alike along the first nodes are the same there.
LEMMA TracesAgree ==
    ASSUME NEW natives \in Tree, NEW k \in 0..Len(natives), NEW f, NEW g,
           \A n \in 0..k : Grows(natives, f, n) /\ Grows(natives, g, n)
    PROVE  \A n \in 0..k : f[n] = g[n]
<1> DEFINE T == {n \in 0..k : f[n] # g[n]}
<1>1. Len(natives) \in Nat /\ \A i \in 1..Len(natives) : natives[i].index \in 0..(i - 1)
  BY DEF Tree
<1> SUFFICES ASSUME T # {} PROVE FALSE
  OBVIOUS
<1>2. T \in SUBSET Nat
  BY <1>1
<1>3. PICK m \in T : \A n \in T : m <= n
  <2> HIDE DEF T
  <2> QED BY <1>2, Least
<1>4. m \in 0..k /\ m # 0
  BY DEF Grows
<1>5. natives[m].index \in 0..k /\ natives[m].index < m
  BY <1>1, <1>4
<1>6. f[natives[m].index] = g[natives[m].index]
  BY <1>3, <1>4, <1>5
<1> QED
  BY <1>4, <1>6 DEF Grows

\* Traces are sequences of instruction pointers.
LEMMA TracesType ==
    ASSUME NEW natives \in Tree
    PROVE  \A n \in 0..Len(natives) : Traces(natives)[n] \in Seq(Ips)
<1> DEFINE f == Traces(natives)
           T == {n \in 0..Len(natives) : f[n] \notin Seq(Ips)}
<1>1. /\ Len(natives) \in Nat
      /\ \A i \in 1..Len(natives) : natives[i].index \in 0..(i - 1) /\ natives[i].ip \in Ips
  <2> DEFINE Nodes == [ip : Ips, index : Nat]
  <2>1. natives \in Seq(Nodes) /\ \A i \in 1..Len(natives) : natives[i].index \in 0..(i - 1)
    BY DEF Tree
  <2>2. \A x \in Nodes : x.ip \in Ips
    OBVIOUS
  <2> HIDE DEF Nodes
  <2> QED BY <2>1, <2>2
<1>2. \A n \in 0..Len(natives) : Grows(natives, f, n)
  BY TracesGrow
<1> HIDE DEF f
<1> SUFFICES ASSUME T # {} PROVE FALSE
  BY DEF f
<1>3. T \in SUBSET Nat
  BY <1>1
<1>4. PICK m \in T : \A n \in T : m <= n
  <2> HIDE DEF T
  <2> QED BY <1>3, Least
<1>5. m \in 0..Len(natives) /\ m # 0
  <2>1. <<>> \in Seq(Ips) /\ f[0] = <<>>
    BY <1>1, <1>2 DEF Grows
  <2> QED BY <2>1
<1>6. natives[m].index \in 0..Len(natives) /\ natives[m].index < m /\ natives[m].ip \in Ips
  BY <1>1, <1>5
<1>7. f[natives[m].index] \in Seq(Ips)
  BY <1>4, <1>5, <1>6
<1>8. f[m] = Append(f[natives[m].index], natives[m].ip)
  BY <1>2, <1>5 DEF Grows
<1>9. f[m] \in Seq(Ips)
  BY <1>6, <1>7, <1>8
<1> QED
  BY <1>9

\* A new node leaves the traces of the others as they are.
LEMMA TracesOfMore ==
    ASSUME NEW natives \in Tree, NEW ip \in Ips, NEW index \in 0..Len(natives)
    PROVE  LET more == Append(natives, Node(ip, index)) IN
           /\ more \in Tree
           /\ \A n \in 0..Len(natives) : Traces(more)[n] = Traces(natives)[n]
           /\ Traces(more)[Len(natives) + 1] = Append(Traces(natives)[index], ip)
<1> DEFINE more == Append(natives, Node(ip, index))
           N == Len(natives)
           Nodes == [ip : Ips, index : Nat]
<1>1. /\ N \in Nat /\ natives \in Seq(Nodes) /\ Node(ip, index) \in Nodes
      /\ \A i \in 1..N : natives[i].index \in 0..(i - 1)
  BY DEF Tree, Node
<1>2. /\ more \in Seq(Nodes) /\ Len(more) = N + 1 /\ more[N + 1] = Node(ip, index)
      /\ \A i \in 1..N : more[i] = natives[i]
  <2> HIDE DEF Nodes
  <2> QED BY <1>1
<1>3. more \in Tree
  <2>1. ASSUME NEW i \in 1..(N + 1) PROVE more[i].index \in 0..(i - 1)
    <3>1. CASE i = N + 1
      BY <1>1, <1>2, <3>1 DEF Node
    <3>2. CASE i # N + 1
      <4>1. i \in 1..N
        BY <1>1, <3>2
      <4> HIDE DEF more, N
      <4> QED BY <1>1, <1>2, <4>1
    <3> QED BY <3>1, <3>2
  <2> HIDE DEF more
  <2> QED BY <1>2, <2>1 DEF Tree
<1>4. \A n \in 0..N : Grows(natives, Traces(natives), n)
  BY TracesGrow
<1>5. \A n \in 0..(N + 1) : Grows(more, Traces(more), n)
  <2> HIDE DEF more
  <2> QED BY <1>2, <1>3, TracesGrow
<1>6. \A n \in 0..N : Grows(natives, Traces(more), n)
  <2> HIDE DEF more
  <2> QED BY <1>1, <1>2, <1>5 DEF Grows
<1>7. \A n \in 0..N : Traces(more)[n] = Traces(natives)[n]
  <2>1. N \in 0..Len(natives)
    BY <1>1
  <2> HIDE DEF more, N
  <2> QED BY <1>4, <1>6, <2>1, TracesAgree
<1>8. Traces(more)[N + 1] = Append(Traces(more)[index], ip)
  <2>1. more[N + 1].index = index /\ more[N + 1].ip = ip
    BY <1>2 DEF Node
  <2>2. N + 1 \in 0..(N + 1) /\ N + 1 # 0
    BY <1>1
  <2> HIDE DEF more, N
  <2> QED BY <1>5, <2>1, <2>2 DEF Grows
<1>9. Traces(more)[index] = Traces(natives)[index]
  BY <1>7
<1> HIDE DEF more
<1> QED
  BY <1>3, <1>7, <1>8, <1>9 DEF more

-----------------------------------------------------------------------------
(* Sequences, views and deltas *)

\* A sequence, of whatever it holds.
Sequence(s) == s \in Seq({s[i] : i \in 1..Len(s)})

\* To append to a sequence leaves the rest as it is.
LEMMA AppendSequence ==
    ASSUME NEW s, Sequence(s), NEW x
    PROVE  LET more == Append(s, x) IN
           /\ Sequence(more) /\ Len(s) \in Nat /\ Len(more) = Len(s) + 1
           /\ more[Len(s) + 1] = x /\ \A i \in 1..Len(s) : more[i] = s[i]
<1> DEFINE S == {s[i] : i \in 1..Len(s)} \cup {x}
           more == Append(s, x)
<1>1. s \in Seq(S) /\ x \in S
  BY DEF Sequence
<1>2. /\ more \in Seq(S) /\ Len(s) \in Nat /\ Len(more) = Len(s) + 1
      /\ more[Len(s) + 1] = x /\ \A i \in 1..Len(s) : more[i] = s[i]
  <2> HIDE DEF S
  <2> QED BY <1>1
<1> HIDE DEF more
<1> QED BY <1>2 DEF more, Sequence

\* What each of the functions that change a view leaves alone.
Same(v, u, changed) ==
    /\ changed # "tid" => u.tid = v.tid
    /\ changed # "last" => u.last = v.last
    /\ changed # "frames" => u.frames = v.frames
    /\ changed # "natives" => u.natives = v.natives
    /\ changed # "stacks" => u.stacks = v.stacks
    /\ changed # "names" => u.names = v.names
    /\ changed # "images" => u.images = v.images
    /\ changed # "events" => u.events = v.events

\* Each of those functions changes what it is named for and nothing else.
LEMMA ChangedTid ==
    ASSUME NEW v, NEW t
    PROVE  Same(v, WithTid(v, t), "tid") /\ WithTid(v, t).tid = t
BY DEF Same, WithTid, View

\* A reader with another base of its deltas, and otherwise the same.
LEMMA ChangedLast ==
    ASSUME NEW v, NEW last
    PROVE  Same(v, WithLast(v, last), "last") /\ WithLast(v, last).last = last
BY DEF Same, WithLast, View

\* A reader with other frames, and otherwise the same.
LEMMA ChangedFrames ==
    ASSUME NEW v, NEW frames
    PROVE  Same(v, WithFrames(v, frames), "frames") /\ WithFrames(v, frames).frames = frames
BY DEF Same, WithFrames, View

\* A reader with other native frames, and otherwise the same.
LEMMA ChangedNatives ==
    ASSUME NEW v, NEW natives
    PROVE  Same(v, WithNatives(v, natives), "natives") /\ WithNatives(v, natives).natives = natives
BY DEF Same, WithNatives, View

\* A reader with another stack of one thread, and otherwise the same.
LEMMA ChangedStack ==
    ASSUME NEW v, NEW t, NEW stack
    PROVE  /\ Same(v, WithStack(v, t, stack), "stacks")
           /\ WithStack(v, t, stack).stacks = [v.stacks EXCEPT ![t] = stack]
BY DEF Same, WithStack, View

\* The names once t has one.
Renamed(names, t, name) == [u \in DOMAIN names \cup {t} |-> IF u = t THEN name ELSE names[u]]

\* A reader with another name of one thread, and otherwise the same.
LEMMA ChangedName ==
    ASSUME NEW v, NEW t, NEW name
    PROVE  /\ Same(v, WithName(v, t, name), "names")
           /\ WithName(v, t, name).names = Renamed(v.names, t, name)
BY DEF Same, WithName, View, Renamed

\* A reader with another list of images, and otherwise the same.
LEMMA ChangedImages ==
    ASSUME NEW v, NEW images
    PROVE  Same(v, WithImages(v, images), "images") /\ WithImages(v, images).images = images
BY DEF Same, WithImages, View

\* A reader that has yielded one event more, and is otherwise the same.
LEMMA ChangedEvents ==
    ASSUME NEW v, NEW event
    PROVE  /\ Same(v, WithEvent(v, event), "events")
           /\ WithEvent(v, event).events = Append(v.events, event)
BY DEF Same, WithEvent, View

\* A reader that has the last values gets back the values from their deltas.
LEMMA WrapBack ==
    ASSUME NEW l \in Words, NEW n \in Words
    PROVE  Wrap(n - l) \in Words /\ Wrap(l + Wrap(n - l)) = n
BY WordAssumption DEF Wrap, Words

\* The same of all the values of a record.
LEMMA DeltasBack ==
    ASSUME NEW v, v.last \in [Fields -> Words], NEW S \in SUBSET Fields, NEW values \in [S -> Words]
    PROVE  /\ Deltas(v, values) \in [S -> Words]
           /\ \A u : u.last = v.last => Values(u, Deltas(v, values)) = values
<1>1. \A f \in S : v.last[f] \in Words /\ values[f] \in Words
  OBVIOUS
<1>2. \A f \in S : /\ Wrap(values[f] - v.last[f]) \in Words
                   /\ Wrap(v.last[f] + Wrap(values[f] - v.last[f])) = values[f]
  BY <1>1, WrapBack
<1>3. Deltas(v, values) = [f \in S |-> Wrap(values[f] - v.last[f])]
  BY DEF Deltas
<1>4. ASSUME NEW u, u.last = v.last PROVE Values(u, Deltas(v, values)) = values
  BY <1>2, <1>3, <1>4 DEF Values
<1> QED BY <1>2, <1>3, <1>4

\* The last values stay words.
LEMMA UpdatedLast ==
    ASSUME NEW v, v.last \in [Fields -> Words], NEW S \in SUBSET Fields, NEW values \in [S -> Words]
    PROVE  /\ Same(v, Updated(v, values), "last")
           /\ Updated(v, values).last \in [Fields -> Words]
           /\ \A u : u.last = v.last => Updated(u, values).last = Updated(v, values).last
<1>1. \A u : Updated(u, values).last
               = [f \in Fields |-> IF f \in DOMAIN values THEN values[f] ELSE u.last[f]]
  BY ChangedLast DEF Updated
<1>2. Same(v, Updated(v, values), "last")
  BY ChangedLast DEF Updated
<1> QED BY <1>1, <1>2

-----------------------------------------------------------------------------
(* What a record tells *)

\* x, written to what v has told, leaves u told.
SwitchTold(v, x, u) ==
    x.kind = "CONTEXT_SWITCH" /\ x.data \in Tids /\ u = WithTid(v, x.data)

NameTold(v, x, u) ==
    /\ x.kind = "THREAD_RECORD" /\ v.tid \in Tids /\ x.data \in Names
    /\ u = WithName(v, v.tid, x.data)

PopTold(v, x, u) ==
    /\ x.kind = "FRAME_POP" /\ v.tid \in Tids
    /\ x.data \in Nat /\ x.data + 1 <= Len(v.stacks[v.tid])
    /\ u = WithStack(v, v.tid, SubSeq(v.stacks[v.tid], 1, Len(v.stacks[v.tid]) - (x.data + 1)))

FrameTold(v, x, u) ==
    /\ x.kind = "FRAME_INDEX" /\ Len(v.frames) < Word
    /\ \E f \in RawFrame :
          LET values == [python_frame_id |-> Len(v.frames), python_line_number |-> f.line]
          IN /\ x.deltas = Deltas(v, values) /\ x.data = f.code
             /\ u = WithFrames(Updated(v, values), Append(v.frames, f))

PushTold(v, x, u) ==
    /\ x.kind = "FRAME_PUSH" /\ v.tid \in Tids
    /\ \E i \in 1..Len(v.frames) :
          LET values == [python_frame_id |-> i - 1]
          IN /\ x.deltas = Deltas(v, values)
             /\ u = WithStack(Updated(v, values), v.tid, Append(v.stacks[v.tid], v.frames[i]))

NodeTold(v, x, u) ==
    /\ x.kind = "NATIVE_TRACE_INDEX" /\ Len(v.natives) < Word - 1
    /\ \E ip \in Ips, index \in 0..Len(v.natives) :
          LET values == [instruction_pointer |-> ip, native_frame_id |-> index]
          IN /\ x.deltas = Deltas(v, values)
             /\ u = WithNatives(Updated(v, values), Append(v.natives, Node(ip, index)))

AllocationTold(v, x, u) ==
    /\ x.kind = "ALLOCATION" /\ v.tid \in Tids
    /\ \E a \in AllocationRecord :
          LET values == [data_pointer |-> a.address]
              stack == IF IsDeallocator(a.allocator) THEN <<>> ELSE v.stacks[v.tid]
          IN /\ a.allocator = "free" => a.size = 0
             /\ x.deltas = Deltas(v, values) /\ x.data = <<a.allocator, a.size>>
             /\ u = WithEvent(Updated(v, values), Event(v.tid, a, 0, 0, stack))

NativeAllocationTold(v, x, u) ==
    /\ x.kind = "ALLOCATION_WITH_NATIVE" /\ v.tid \in Tids /\ NativeTraces
    /\ \E a \in AllocationRecord, node \in Words :
          LET values == [data_pointer |-> a.address, native_frame_id |-> node]
          IN /\ a.allocator = "free" => a.size = 0
             /\ x.deltas = Deltas(v, values) /\ x.data = <<a.allocator, a.size>>
             /\ u = WithEvent(Updated(v, values),
                              Event(v.tid, a, node, Len(v.images), v.stacks[v.tid]))

MemoryTold(v, x, u) ==
    x.kind = "MEMORY_RECORD" /\ x.data \in Sizes /\ u = WithEvent(v, [rss |-> x.data])

MapTold(v, x, u) ==
    /\ x.kind = "MEMORY_MAP_START" /\ Len(v.images) < MaxRecords
    /\ u = WithImages(v, Append(v.images, <<>>))

ImageTold(v, x, u) ==
    /\ x.kind = "SEGMENT_HEADER" /\ x.data \in Images /\ Len(v.images) > 0
    /\ u = WithImages(v, [v.images EXCEPT ![Len(v.images)] = Append(@, x.data)])

Tells(v, x, u) ==
    \/ SwitchTold(v, x, u) \/ NameTold(v, x, u) \/ PopTold(v, x, u) \/ FrameTold(v, x, u)
    \/ PushTold(v, x, u) \/ NodeTold(v, x, u) \/ AllocationTold(v, x, u)
    \/ NativeAllocationTold(v, x, u) \/ MemoryTold(v, x, u) \/ MapTold(v, x, u)
    \/ ImageTold(v, x, u)

\* A view that a tracker can have.
ViewOK(v) ==
    /\ v.tid \in Tids \cup {NoTid}
    /\ v.last \in [Fields -> Words]
    /\ v.frames \in Seq(RawFrame) /\ Len(v.frames) <= Word
    /\ v.natives \in Tree /\ Len(v.natives) < Word
    /\ v.stacks \in [Tids \cup {NoTid} -> Seq(RawFrame)]
    /\ v.images \in Seq(Seq(Images)) /\ Len(v.images) <= MaxRecords

\* The values that travel as deltas are words.
LEMMA FrameValues ==
    ASSUME NEW v, ViewOK(v), Len(v.frames) < Word, NEW f \in RawFrame
    PROVE  [python_frame_id |-> Len(v.frames), python_line_number |-> f.line]
             \in [{"python_frame_id", "python_line_number"} -> Words]
<1>1. Len(v.frames) \in Words
  BY WordAssumption DEF ViewOK, Words
<1>2. f.line \in Words
  BY FieldAssumption DEF RawFrame, Words
<1> QED BY <1>1, <1>2

\* The number of a frame is a word.
LEMMA PushValues ==
    ASSUME NEW v, ViewOK(v), NEW i \in 1..Len(v.frames)
    PROVE  [python_frame_id |-> i - 1] \in [{"python_frame_id"} -> Words]
<1>1. i - 1 \in Words
  BY WordAssumption DEF ViewOK, Words
<1> QED BY <1>1

\* So are the parts of a node.
LEMMA NodeValues ==
    ASSUME NEW v, ViewOK(v), NEW ip \in Ips, NEW index \in 0..Len(v.natives)
    PROVE  [instruction_pointer |-> ip, native_frame_id |-> index]
             \in [{"instruction_pointer", "native_frame_id"} -> Words]
<1>1. index \in Words
  BY WordAssumption DEF ViewOK, Words, Tree
<1>2. ip \in Words
  BY FieldAssumption DEF Words
<1> QED BY <1>1, <1>2

\* So are an address and the node of an allocation.
LEMMA AllocationValues ==
    ASSUME NEW a \in AllocationRecord, NEW node \in Words
    PROVE  /\ [data_pointer |-> a.address] \in [{"data_pointer"} -> Words]
           /\ [data_pointer |-> a.address, native_frame_id |-> node]
                \in [{"data_pointer", "native_frame_id"} -> Words]
<1>1. a.address \in Words
  BY FieldAssumption DEF AllocationRecord, Words
<1> QED BY <1>1

\* The fields of each kind of record.
LEMMA FieldSets ==
    /\ {"python_frame_id", "python_line_number"} \in SUBSET Fields
    /\ {"python_frame_id"} \in SUBSET Fields
    /\ {"instruction_pointer", "native_frame_id"} \in SUBSET Fields
    /\ {"data_pointer"} \in SUBSET Fields
    /\ {"data_pointer", "native_frame_id"} \in SUBSET Fields
BY DEF Fields

\* What has been told is a view again.
LEMMA ToldIsView ==
    ASSUME NEW v, NEW x, NEW u, ViewOK(v), Tells(v, x, u)
    PROVE  ViewOK(u)
<1> USE DEF ViewOK
<1>1. CASE SwitchTold(v, x, u)
  BY <1>1, ChangedTid DEF SwitchTold, Same
<1>2. CASE NameTold(v, x, u)
  <2>1. Same(v, u, "names")
    BY <1>2, ChangedName DEF NameTold
  <2> QED BY <2>1 DEF Same
<1>3. CASE PopTold(v, x, u)
  <2> DEFINE stack == v.stacks[v.tid]
             less == SubSeq(stack, 1, Len(stack) - (x.data + 1))
  <2>1. stack \in Seq(RawFrame)
    BY <1>3 DEF PopTold
  <2>2. less \in Seq(RawFrame)
    <3>1. x.data \in Nat /\ x.data + 1 <= Len(stack)
      BY <1>3 DEF PopTold
    <3> HIDE DEF stack
    <3>2. Len(stack) - (x.data + 1) \in 0..Len(stack)
      BY <2>1, <3>1
    <3> QED BY <2>1, <3>2
  <2>3. u = WithStack(v, v.tid, less)
    BY <1>3 DEF PopTold
  <2>4. Same(v, u, "stacks") /\ u.stacks = [v.stacks EXCEPT ![v.tid] = less]
    BY <2>3, ChangedStack
  <2> HIDE DEF less
  <2> QED BY <2>2, <2>4 DEF Same
<1>4. CASE FrameTold(v, x, u)
  <2>1. PICK f \in RawFrame :
            u = WithFrames(Updated(v, [python_frame_id |-> Len(v.frames), python_line_number |-> f.line]),
                           Append(v.frames, f))
    BY <1>4 DEF FrameTold
  <2> DEFINE values == [python_frame_id |-> Len(v.frames), python_line_number |-> f.line]
             m == Updated(v, values)
  <2>2. Same(v, m, "last") /\ m.last \in [Fields -> Words]
    BY <1>4, FrameValues, UpdatedLast, FieldSets DEF FrameTold
  <2> HIDE DEF m
  <2>3. Append(v.frames, f) \in Seq(RawFrame) /\ Len(Append(v.frames, f)) <= Word
    BY <1>4, WordAssumption DEF FrameTold
  <2>4. Same(m, u, "frames") /\ u.frames = Append(v.frames, f)
    BY <2>1, ChangedFrames DEF m
  <2> QED BY <2>2, <2>3, <2>4 DEF Same
<1>5. CASE PushTold(v, x, u)
  <2>1. PICK i \in 1..Len(v.frames) :
            u = WithStack(Updated(v, [python_frame_id |-> i - 1]), v.tid,
                          Append(v.stacks[v.tid], v.frames[i]))
    BY <1>5 DEF PushTold
  <2> DEFINE m == Updated(v, [python_frame_id |-> i - 1])
             more == Append(v.stacks[v.tid], v.frames[i])
  <2>2. Same(v, m, "last") /\ m.last \in [Fields -> Words]
    BY PushValues, UpdatedLast, FieldSets
  <2>3. v.stacks[v.tid] \in Seq(RawFrame) /\ v.frames[i] \in RawFrame
    BY <1>5 DEF PushTold
  <2>4. more \in Seq(RawFrame)
    BY <2>3
  <2>5. Same(m, u, "stacks") /\ u.stacks = [m.stacks EXCEPT ![v.tid] = more]
    BY <2>1, ChangedStack
  <2> HIDE DEF m, more
  <2> QED BY <2>2, <2>4, <2>5 DEF Same
<1>6. CASE NodeTold(v, x, u)
  <2>1. PICK ip \in Ips, index \in 0..Len(v.natives) :
            u = WithNatives(Updated(v, [instruction_pointer |-> ip, native_frame_id |-> index]),
                            Append(v.natives, Node(ip, index)))
    BY <1>6 DEF NodeTold
  <2> DEFINE m == Updated(v, [instruction_pointer |-> ip, native_frame_id |-> index])
             more == Append(v.natives, Node(ip, index))
  <2>2. Same(v, m, "last") /\ m.last \in [Fields -> Words]
    BY NodeValues, UpdatedLast, FieldSets
  <2>3. more \in Tree
    BY TracesOfMore
  <2>4. Len(more) < Word
    BY <1>6, WordAssumption DEF NodeTold, Tree
  <2>5. Same(m, u, "natives") /\ u.natives = more
    BY <2>1, ChangedNatives
  <2> HIDE DEF m, more
  <2> QED BY <2>2, <2>3, <2>4, <2>5 DEF Same
<1>7. CASE AllocationTold(v, x, u)
  <2>0. PICK a \in AllocationRecord : \E e : u = WithEvent(Updated(v, [data_pointer |-> a.address]), e)
    BY <1>7 DEF AllocationTold
  <2>1. PICK e : u = WithEvent(Updated(v, [data_pointer |-> a.address]), e)
    BY <2>0
  <2> DEFINE m == Updated(v, [data_pointer |-> a.address])
  <2>2. 0 \in Words
    BY WordAssumption DEF Words
  <2>3. Same(v, m, "last") /\ m.last \in [Fields -> Words]
    BY <2>2, AllocationValues, UpdatedLast, FieldSets
  <2>4. Same(m, u, "events")
    BY <2>1, ChangedEvents
  <2> HIDE DEF m
  <2> QED BY <2>3, <2>4 DEF Same
<1>8. CASE NativeAllocationTold(v, x, u)
  <2>0. PICK a \in AllocationRecord, node \in Words : \E e :
            u = WithEvent(Updated(v, [data_pointer |-> a.address, native_frame_id |-> node]), e)
    BY <1>8 DEF NativeAllocationTold
  <2>1. PICK e : u = WithEvent(Updated(v, [data_pointer |-> a.address, native_frame_id |-> node]), e)
    BY <2>0
  <2> DEFINE m == Updated(v, [data_pointer |-> a.address, native_frame_id |-> node])
  <2>2. Same(v, m, "last") /\ m.last \in [Fields -> Words]
    BY AllocationValues, UpdatedLast, FieldSets
  <2>3. Same(m, u, "events")
    BY <2>1, ChangedEvents
  <2> HIDE DEF m
  <2> QED BY <2>2, <2>3 DEF Same
<1>9. CASE MemoryTold(v, x, u)
  BY <1>9, ChangedEvents DEF MemoryTold, Same
<1>10. CASE MapTold(v, x, u)
  <2>1. <<>> \in Seq(Images)
    OBVIOUS
  <2>2. Append(v.images, <<>>) \in Seq(Seq(Images))
    BY <2>1
  <2>3. Same(v, u, "images") /\ u.images = Append(v.images, <<>>)
    BY <1>10, ChangedImages DEF MapTold
  <2>4. Len(Append(v.images, <<>>)) <= MaxRecords
    BY <1>10, LimitAssumption DEF MapTold
  <2> QED BY <2>2, <2>3, <2>4 DEF Same
<1>11. CASE ImageTold(v, x, u)
  <2> DEFINE g == Len(v.images)
             more == [v.images EXCEPT ![g] = Append(@, x.data)]
  <2>1. g \in 1..Len(v.images) /\ x.data \in Images
    BY <1>11 DEF ImageTold
  <2>2. Append(v.images[g], x.data) \in Seq(Images)
    BY <2>1
  <2>3. more \in Seq(Seq(Images)) /\ Len(more) = g
    BY <2>1, <2>2
  <2>4. Same(v, u, "images") /\ u.images = more
    BY <1>11, ChangedImages DEF ImageTold
  <2> HIDE DEF more
  <2> QED BY <2>3, <2>4 DEF Same
<1> QED
  BY <1>1, <1>2, <1>3, <1>4, <1>5, <1>6, <1>7, <1>8, <1>9, <1>10, <1>11 DEF Tells

-----------------------------------------------------------------------------
(* What a reader hears *)

\* Frame numbers that stand for the frames of a stack.
StandFor(frames, ids, stack) ==
    /\ Len(ids) = Len(stack)
    /\ \A i \in 1..Len(stack) : ids[i] \in DOMAIN frames /\ frames[ids[i]] = stack[i]

\* The reader has built what p has told, and knows every frame of the stacks.
Follows(p) ==
    /\ r.tid = p.tid /\ r.last = p.last /\ r.natives = p.natives
    /\ r.names = p.names /\ r.images = p.images /\ r.events = p.events
    /\ r.frames = [i \in 0..(Len(p.frames) - 1) |-> p.frames[i + 1]]
    /\ r.stacks \in [Tids \cup {NoTid} -> Seq(Nat)]
    /\ \A t \in Tids : StandFor(r.frames, r.stacks[t], p.stacks[t])

\* Numbers that stand for a stack resolve to it.
LEMMA StacksResolve ==
    ASSUME NEW v, NEW ids \in Seq(Nat), NEW stack \in Seq(RawFrame), StandFor(v.frames, ids, stack)
    PROVE  Resolved(v, ids) = stack
<1>1. stack = [i \in 1..Len(stack) |-> stack[i]]
  OBVIOUS
<1>2. Resolved(v, ids) = [i \in 1..Len(stack) |-> stack[i]]
  BY DEF Resolved, StandFor
<1> QED BY <1>1, <1>2

\* Who follows the tables is in step with them.
LEMMA FollowsInStep ==
    ASSUME NEW p, ViewOK(p), Follows(p)
    PROVE  InStep(p)
<1>1. ASSUME NEW t \in Tids PROVE Resolved(r, r.stacks[t]) = p.stacks[t]
  <2>1. r.stacks[t] \in Seq(Nat) /\ p.stacks[t] \in Seq(RawFrame)
    BY DEF Follows, ViewOK
  <2>2. StandFor(r.frames, r.stacks[t], p.stacks[t])
    BY DEF Follows
  <2> QED BY <2>1, <2>2, StacksResolve
<1> QED BY <1>1 DEF Follows, InStep

\* The records that are about no frames.
LEMMA HearsPlain ==
    ASSUME NEW p, NEW u, Follows(p),
           \/ SwitchTold(p, Current, u) /\ ReadContextSwitch
           \/ NameTold(p, Current, u) /\ ReadThreadRecord
           \/ MemoryTold(p, Current, u) /\ ReadMemoryRecord
           \/ MapTold(p, Current, u) /\ ReadMemoryMapStart
    PROVE  Follows(u)' /\ rstate' = rstate
<1>1. CASE SwitchTold(p, Current, u) /\ ReadContextSwitch
  <2>1. Same(p, u, "tid") /\ u.tid = Current.data
    BY <1>1, ChangedTid DEF SwitchTold
  <2>2. Same(r, r', "tid") /\ r'.tid = Current.data /\ rstate' = rstate
    BY <1>1, ChangedTid DEF ReadContextSwitch, Goes
  <2> QED BY <2>1, <2>2 DEF Follows, Same
<1>2. CASE NameTold(p, Current, u) /\ ReadThreadRecord
  <2>1. Same(p, u, "names") /\ u.names = Renamed(p.names, p.tid, Current.data)
    BY <1>2, ChangedName DEF NameTold
  <2>2. Same(r, r', "names") /\ r'.names = Renamed(r.names, r.tid, Current.data) /\ rstate' = rstate
    BY <1>2, ChangedName DEF ReadThreadRecord, Goes
  <2> QED BY <2>1, <2>2 DEF Follows, Same
<1>3. CASE MemoryTold(p, Current, u) /\ ReadMemoryRecord
  <2>1. Same(p, u, "events") /\ u.events = Append(p.events, [rss |-> Current.data])
    BY <1>3, ChangedEvents DEF MemoryTold
  <2>2. Same(r, r', "events") /\ r'.events = Append(r.events, [rss |-> Current.data]) /\ rstate' = rstate
    BY <1>3, ChangedEvents DEF ReadMemoryRecord, Goes
  <2> QED BY <2>1, <2>2 DEF Follows, Same
<1>4. CASE MapTold(p, Current, u) /\ ReadMemoryMapStart
  <2>1. Same(p, u, "images") /\ u.images = Append(p.images, <<>>)
    <3>1. u = WithImages(p, Append(p.images, <<>>))
      BY <1>4 DEF MapTold
    <3> QED BY <3>1, ChangedImages
  <2>2. Same(r, r', "images") /\ r'.images = Append(r.images, <<>>) /\ rstate' = rstate
    <3>1. r' = WithImages(r, Append(r.images, <<>>)) /\ rstate' = rstate
      BY <1>4 DEF ReadMemoryMapStart, Goes
    <3> QED BY <3>1, ChangedImages
  <2> QED BY <2>1, <2>2 DEF Follows, Same
<1> QED BY <1>1, <1>2, <1>3, <1>4

\* An image is heard of in the generation it was told for.
LEMMA HearsImage ==
    ASSUME NEW p, NEW u, Follows(p), ImageTold(p, Current, u), ReadSegmentHeader
    PROVE  Follows(u)' /\ rstate' = rstate
<1> USE DEF Follows
<1> DEFINE more == [p.images EXCEPT ![Len(p.images)] = Append(@, Current.data)]
<1>1. Same(p, u, "images") /\ u.images = more
  BY ChangedImages DEF ImageTold
<1>2. rstate' = rstate /\ r' = WithImages(r, more)
  BY DEF ImageTold, ReadSegmentHeader, Goes
<1>3. Same(r, r', "images") /\ r'.images = more
  BY <1>2, ChangedImages
<1> HIDE DEF more
<1> QED BY <1>1, <1>2, <1>3 DEF Same

\* Popped frames were there.
LEMMA HearsPop ==
    ASSUME NEW p, NEW u, ViewOK(p), Follows(p), PopTold(p, Current, u), ReadFramePop
    PROVE  Follows(u)' /\ rstate' = rstate
<1> DEFINE stack == p.stacks[p.tid]
           ids == r.stacks[r.tid]
           left == Len(stack) - (Current.data + 1)
<1>1. /\ p.tid \in Tids /\ r.tid = p.tid /\ stack \in Seq(RawFrame) /\ ids \in Seq(Nat)
      /\ StandFor(r.frames, ids, stack)
  BY DEF PopTold, Follows, ViewOK
<1>2. left \in 0..Len(stack) /\ Len(ids) = Len(stack) /\ left = Len(ids) - (Current.data + 1)
  <2>1. Current.data \in Nat /\ Current.data + 1 <= Len(stack) /\ Len(stack) \in Nat
    BY <1>1 DEF PopTold
  <2> HIDE DEF stack, ids
  <2> QED BY <1>1, <2>1 DEF StandFor
<1>3. Same(p, u, "stacks") /\ u.stacks = [p.stacks EXCEPT ![p.tid] = SubSeq(stack, 1, left)]
  <2>1. u = WithStack(p, p.tid, SubSeq(stack, 1, left))
    BY DEF PopTold
  <2> HIDE DEF stack, left
  <2> QED BY <2>1 DEF Same, WithStack, View
<1>4. r' = WithStack(r, r.tid, SubSeq(ids, 1, left)) /\ rstate' = rstate
  <2>1. ~(Current.data + 1 > Len(ids))
    BY <1>1, <1>2 DEF PopTold
  <2> HIDE DEF ids
  <2>2. r' = WithStack(r, r.tid, SubSeq(ids, 1, Len(ids) - (Current.data + 1))) /\ rstate' = rstate
    BY <2>1 DEF ReadFramePop, Goes, ids
  <2> QED BY <1>2, <2>2
<1>5. Same(r, r', "stacks") /\ r'.stacks = [r.stacks EXCEPT ![r.tid] = SubSeq(ids, 1, left)]
  <2> HIDE DEF ids, left
  <2> QED BY <1>4 DEF Same, WithStack, View
<1>6. /\ SubSeq(ids, 1, left) \in Seq(Nat) /\ SubSeq(stack, 1, left) \in Seq(RawFrame)
      /\ StandFor(r.frames, SubSeq(ids, 1, left), SubSeq(stack, 1, left))
  <2> HIDE DEF ids, stack, left
  <2>1. /\ Len(SubSeq(ids, 1, left)) = left /\ Len(SubSeq(stack, 1, left)) = left
        /\ \A i \in 1..left : SubSeq(ids, 1, left)[i] = ids[i] /\ SubSeq(stack, 1, left)[i] = stack[i]
        /\ SubSeq(ids, 1, left) \in Seq(Nat) /\ SubSeq(stack, 1, left) \in Seq(RawFrame)
    BY <1>1, <1>2
  <2>2. ASSUME NEW i \in 1..left
        PROVE  /\ SubSeq(ids, 1, left)[i] \in DOMAIN r.frames
               /\ r.frames[SubSeq(ids, 1, left)[i]] = SubSeq(stack, 1, left)[i]
    <3>1. i \in 1..Len(stack)
      BY <1>1, <1>2
    <3> QED BY <1>1, <2>1, <3>1 DEF StandFor
  <2> QED BY <2>1, <2>2 DEF StandFor
<1> HIDE DEF ids, stack, left
<1>7. r'.stacks \in [Tids \cup {NoTid} -> Seq(Nat)]
  BY <1>5, <1>6 DEF Follows
<1>8. ASSUME NEW t \in Tids PROVE StandFor(r'.frames, r'.stacks[t], u.stacks[t])
  <2>1. r.stacks[t] = r.stacks[t] /\ r'.frames = r.frames
    BY <1>5 DEF Same
  <2>2. CASE t = p.tid
    <3>1. r'.stacks[t] = SubSeq(ids, 1, left) /\ u.stacks[t] = SubSeq(stack, 1, left)
      BY <1>1, <1>3, <1>5, <2>2 DEF Follows, ViewOK
    <3> QED BY <1>6, <2>1, <3>1
  <2>3. CASE t # p.tid
    <3>1. r'.stacks[t] = r.stacks[t] /\ u.stacks[t] = p.stacks[t]
      BY <1>1, <1>3, <1>5, <2>3 DEF Follows, ViewOK
    <3> QED BY <2>1, <3>1 DEF Follows
  <2> QED BY <2>2, <2>3
<1> QED BY <1>3, <1>4, <1>5, <1>7, <1>8 DEF Follows, Same

\* The values of a record are those that were written, and the last values
\* agree afterwards.
LEMMA HearsValues ==
    ASSUME NEW p, ViewOK(p), r.last = p.last,
           NEW S \in SUBSET Fields, NEW values \in [S -> Words], Current.deltas = Deltas(p, values)
    PROVE  /\ Values(r, Current.deltas) = values
           /\ Same(r, Updated(r, values), "last") /\ Same(p, Updated(p, values), "last")
           /\ Updated(r, values).last = Updated(p, values).last
<1>1. p.last \in [Fields -> Words]
  BY DEF ViewOK
<1>2. r.last \in [Fields -> Words]
  BY <1>1
<1> QED BY <1>1, <1>2, DeltasBack, UpdatedLast

\* A pushed number stands for the frame that was pushed.
LEMMA HearsPush ==
    ASSUME NEW p, NEW u, ViewOK(p), Follows(p), PushTold(p, Current, u), ReadFramePush
    PROVE  Follows(u)' /\ rstate' = rstate
<1>1. PICK i \in 1..Len(p.frames) :
          /\ Current.deltas = Deltas(p, [python_frame_id |-> i - 1])
          /\ u = WithStack(Updated(p, [python_frame_id |-> i - 1]), p.tid,
                           Append(p.stacks[p.tid], p.frames[i]))
  BY DEF PushTold
<1> DEFINE values == [python_frame_id |-> i - 1]
           mp == Updated(p, values)
           mr == Updated(r, values)
           stack == p.stacks[p.tid]
           ids == r.stacks[p.tid]
<1>2. values \in [{"python_frame_id"} -> Words] /\ values.python_frame_id = i - 1
  BY PushValues
<1>3. r.last = p.last
  BY DEF Follows
<1>4. /\ Values(r, Current.deltas) = values
      /\ Same(r, mr, "last") /\ Same(p, mp, "last") /\ mr.last = mp.last
  <2>1. Current.deltas = Deltas(p, values)
    BY <1>1
  <2> HIDE DEF values
  <2> QED BY <1>2, <1>3, <2>1, HearsValues, FieldSets
<1>5. /\ p.tid \in Tids /\ r.tid = p.tid /\ stack \in Seq(RawFrame) /\ ids \in Seq(Nat)
      /\ StandFor(r.frames, ids, stack) /\ p.frames[i] \in RawFrame /\ i - 1 \in Nat
  <2>1. p.tid \in Tids /\ r.tid = p.tid
    BY DEF PushTold, Follows
  <2>2. stack \in Seq(RawFrame) /\ ids \in Seq(Nat) /\ StandFor(r.frames, ids, stack)
    BY <2>1 DEF Follows, ViewOK
  <2>3. p.frames[i] \in RawFrame /\ i - 1 \in Nat
    BY DEF ViewOK
  <2> QED BY <2>1, <2>2, <2>3
<1>6. Same(mp, u, "stacks") /\ u.stacks = [mp.stacks EXCEPT ![p.tid] = Append(stack, p.frames[i])]
  <2>1. u = WithStack(mp, p.tid, Append(stack, p.frames[i]))
    BY <1>1
  <2> HIDE DEF mp, stack
  <2> QED BY <2>1 DEF Same, WithStack, View
<1>7. r' = WithStack(mr, r.tid, Append(r.stacks[r.tid], i - 1)) /\ rstate' = rstate
  <2> HIDE DEF values
  <2>1. r' = WithStack(mr, r.tid, Append(r.stacks[r.tid], values.python_frame_id)) /\ rstate' = rstate
    BY <1>4 DEF ReadFramePush, Goes
  <2> QED BY <1>2, <2>1
<1>8. Same(mr, r', "stacks") /\ r'.stacks = [mr.stacks EXCEPT ![p.tid] = Append(ids, i - 1)]
  <2>1. r' = WithStack(mr, p.tid, Append(ids, i - 1))
    BY <1>5, <1>7
  <2> HIDE DEF mr, ids
  <2> QED BY <2>1 DEF Same, WithStack, View
<1> HIDE DEF values, mp, mr, stack, ids
<1>9. r.frames[i - 1] = p.frames[i] /\ i - 1 \in DOMAIN r.frames
  BY <1>1, <1>5 DEF Follows, ViewOK
<1>10. /\ Append(ids, i - 1) \in Seq(Nat)
       /\ StandFor(r.frames, Append(ids, i - 1), Append(stack, p.frames[i]))
  <2>1. /\ Append(ids, i - 1) \in Seq(Nat) /\ Len(Append(ids, i - 1)) = Len(ids) + 1
        /\ Append(ids, i - 1)[Len(ids) + 1] = i - 1
        /\ \A j \in 1..Len(ids) : Append(ids, i - 1)[j] = ids[j]
        /\ Len(ids) \in Nat
    BY <1>5
  <2>2. /\ Len(Append(stack, p.frames[i])) = Len(stack) + 1
        /\ Append(stack, p.frames[i])[Len(stack) + 1] = p.frames[i]
        /\ \A j \in 1..Len(stack) : Append(stack, p.frames[i])[j] = stack[j]
    BY <1>5
  <2> QED BY <1>5, <1>9, <2>1, <2>2 DEF StandFor
<1>11. mr.stacks = r.stacks /\ mp.stacks = p.stacks /\ mr.frames = r.frames
  BY <1>4 DEF Same
<1>12. r'.stacks \in [Tids \cup {NoTid} -> Seq(Nat)]
  <2>1. r'.stacks = [r.stacks EXCEPT ![p.tid] = Append(ids, i - 1)]
    BY <1>8, <1>11
  <2>2. r.stacks \in [Tids \cup {NoTid} -> Seq(Nat)]
    BY DEF Follows
  <2> QED BY <1>10, <2>1, <2>2
<1>13. ASSUME NEW t \in Tids PROVE StandFor(r'.frames, r'.stacks[t], u.stacks[t])
  <2>1. r'.frames = r.frames
    BY <1>8, <1>11 DEF Same
  <2>2. CASE t = p.tid
    <3>1. r.stacks \in [Tids \cup {NoTid} -> Seq(Nat)] /\ p.stacks \in [Tids \cup {NoTid} -> Seq(RawFrame)]
      BY DEF Follows, ViewOK
    <3>2. r'.stacks[t] = Append(ids, i - 1) /\ u.stacks[t] = Append(stack, p.frames[i])
      BY <1>5, <1>6, <1>8, <1>11, <2>2, <3>1
    <3> QED BY <1>10, <2>1, <3>2
  <2>3. CASE t # p.tid
    <3>1. r.stacks \in [Tids \cup {NoTid} -> Seq(Nat)] /\ p.stacks \in [Tids \cup {NoTid} -> Seq(RawFrame)]
      BY DEF Follows, ViewOK
    <3>2. /\ r'.stacks = [r.stacks EXCEPT ![p.tid] = Append(ids, i - 1)]
          /\ u.stacks = [p.stacks EXCEPT ![p.tid] = Append(stack, p.frames[i])]
      BY <1>6, <1>8, <1>11
    <3>3. r'.stacks[t] = r.stacks[t] /\ u.stacks[t] = p.stacks[t]
      BY <2>3, <3>1, <3>2
    <3> QED BY <2>1, <3>3 DEF Follows
  <2> QED BY <2>2, <2>3
<1> QED
  <2>1. /\ u.last = mp.last /\ u.tid = p.tid /\ u.natives = p.natives /\ u.names = p.names
        /\ u.images = p.images /\ u.events = p.events /\ u.frames = p.frames
    BY <1>4, <1>6 DEF Same
  <2>2. /\ r'.last = mr.last /\ r'.tid = r.tid /\ r'.natives = r.natives /\ r'.names = r.names
        /\ r'.images = r.images /\ r'.events = r.events /\ r'.frames = r.frames
    BY <1>4, <1>8 DEF Same
  <2> QED BY <1>4, <1>7, <1>12, <1>13, <2>1, <2>2 DEF Follows

\* The number of a new frame is one that the reader has not heard of.
LEMMA HearsFrame ==
    ASSUME NEW p, NEW u, ViewOK(p), Follows(p), FrameTold(p, Current, u), ReadFrameIndex
    PROVE  Follows(u)' /\ rstate' = rstate
<1> DEFINE n == Len(p.frames)
<1>1. PICK f \in RawFrame :
          /\ Current.deltas = Deltas(p, [python_frame_id |-> n, python_line_number |-> f.line])
          /\ Current.data = f.code
          /\ u = WithFrames(Updated(p, [python_frame_id |-> n, python_line_number |-> f.line]),
                            Append(p.frames, f))
  BY DEF FrameTold
<1> DEFINE values == [python_frame_id |-> n, python_line_number |-> f.line]
           mp == Updated(p, values)
           mr == Updated(r, values)
           heard == [code |-> Current.data, line |-> f.line]
           frames == [i \in DOMAIN r.frames \cup {n} |-> IF i = n THEN heard ELSE r.frames[i]]
<1>2. /\ values \in [{"python_frame_id", "python_line_number"} -> Words]
      /\ values.python_frame_id = n /\ values.python_line_number = f.line
  BY FrameValues DEF FrameTold
<1>3. r.last = p.last
  BY DEF Follows
<1>4. /\ Values(r, Current.deltas) = values
      /\ Same(r, mr, "last") /\ Same(p, mp, "last") /\ mr.last = mp.last
  <2>1. Current.deltas = Deltas(p, values)
    BY <1>1
  <2> HIDE DEF values
  <2> QED BY <1>2, <1>3, <2>1, HearsValues, FieldSets
<1>5. /\ p.frames \in Seq(RawFrame) /\ n \in Nat /\ DOMAIN r.frames = 0..(n - 1)
      /\ \A i \in 0..(n - 1) : r.frames[i] = p.frames[i + 1]
  BY DEF Follows, ViewOK
<1>6. heard = f
  BY <1>1 DEF RawFrame
<1>7. r' = WithFrames(mr, frames) /\ rstate' = rstate
  <2> HIDE DEF values
  <2>1. values.python_frame_id \notin DOMAIN r.frames
    BY <1>2, <1>5
  <2>2. /\ rstate' = rstate
        /\ r' = WithFrames(mr, [i \in DOMAIN r.frames \cup {values.python_frame_id} |->
                    IF i = values.python_frame_id
                    THEN [code |-> Current.data, line |-> values.python_line_number]
                    ELSE r.frames[i]])
    BY <1>4, <2>1 DEF ReadFrameIndex, Goes
  <2> QED BY <1>2, <2>2
<1>8. Same(mr, r', "frames") /\ r'.frames = frames
  BY <1>7, ChangedFrames
<1>9. Same(mp, u, "frames") /\ u.frames = Append(p.frames, f)
  BY <1>1, ChangedFrames
<1> HIDE DEF values, mp, mr
<1>10. /\ frames = [i \in 0..(Len(u.frames) - 1) |-> u.frames[i + 1]]
       /\ \A i \in DOMAIN r.frames : i \in DOMAIN frames /\ frames[i] = r.frames[i]
  <2>1. /\ Len(u.frames) = n + 1 /\ u.frames[n + 1] = f
        /\ \A i \in 1..n : u.frames[i] = p.frames[i]
    BY <1>5, <1>9
  <2>2. DOMAIN r.frames \cup {n} = 0..(Len(u.frames) - 1)
    BY <1>5, <2>1
  <2>3. ASSUME NEW i \in 0..n PROVE frames[i] = u.frames[i + 1]
    <3>1. CASE i = n
      BY <1>6, <2>1, <3>1
    <3>2. CASE i # n
      <4>1. i \in 0..(n - 1) /\ i + 1 \in 1..n
        BY <1>5, <3>2
      <4> HIDE DEF n, heard
      <4> QED BY <1>5, <2>1, <3>2, <4>1
    <3> QED BY <3>1, <3>2
  <2>4. \A i \in DOMAIN r.frames : i # n
    BY <1>5
  <2>5. Len(u.frames) - 1 = n
    BY <1>5, <2>1
  <2> HIDE DEF n, heard
  <2> QED BY <2>2, <2>3, <2>4, <2>5
<1> HIDE DEF frames
<1>11. r'.stacks = r.stacks /\ u.stacks = p.stacks
  BY <1>4, <1>8, <1>9 DEF Same
<1>12. ASSUME NEW t \in Tids PROVE StandFor(r'.frames, r'.stacks[t], u.stacks[t])
  <2>1. StandFor(r.frames, r.stacks[t], p.stacks[t])
    BY DEF Follows
  <2>2. StandFor(frames, r.stacks[t], p.stacks[t])
    BY <1>10, <2>1 DEF StandFor
  <2> QED BY <1>8, <1>11, <2>2
<1> QED
  <2>1. /\ u.last = mp.last /\ u.tid = p.tid /\ u.natives = p.natives /\ u.names = p.names
        /\ u.images = p.images /\ u.events = p.events
    BY <1>4, <1>9 DEF Same
  <2>2. /\ r'.last = mr.last /\ r'.tid = r.tid /\ r'.natives = r.natives /\ r'.names = r.names
        /\ r'.images = r.images /\ r'.events = r.events
    BY <1>4, <1>8 DEF Same
  <2>3. r'.stacks \in [Tids \cup {NoTid} -> Seq(Nat)]
    BY <1>11 DEF Follows
  <2> QED BY <1>4, <1>7, <1>8, <1>10, <1>12, <2>1, <2>2, <2>3 DEF Follows

\* A node of the native tree is heard of with its address and its parent.
LEMMA HearsNode ==
    ASSUME NEW p, NEW u, ViewOK(p), Follows(p), NodeTold(p, Current, u), ReadNativeFrameIndex
    PROVE  Follows(u)' /\ rstate' = rstate
<1>1. PICK ip \in Ips, index \in 0..Len(p.natives) :
          /\ Current.deltas = Deltas(p, [instruction_pointer |-> ip, native_frame_id |-> index])
          /\ u = WithNatives(Updated(p, [instruction_pointer |-> ip, native_frame_id |-> index]),
                             Append(p.natives, Node(ip, index)))
  BY DEF NodeTold
<1> DEFINE values == [instruction_pointer |-> ip, native_frame_id |-> index]
           mp == Updated(p, values)
           mr == Updated(r, values)
<1>2. /\ values \in [{"instruction_pointer", "native_frame_id"} -> Words]
      /\ values.instruction_pointer = ip /\ values.native_frame_id = index
  BY NodeValues
<1>3. r.last = p.last
  BY DEF Follows
<1>4. /\ Values(r, Current.deltas) = values
      /\ Same(r, mr, "last") /\ Same(p, mp, "last") /\ mr.last = mp.last
  <2>1. Current.deltas = Deltas(p, values)
    BY <1>1
  <2> HIDE DEF values
  <2> QED BY <1>2, <1>3, <2>1, HearsValues, FieldSets
<1>5. r' = WithNatives(mr, Append(r.natives, Node(ip, index))) /\ rstate' = rstate
  <2> HIDE DEF values
  <2>1. /\ r' = WithNatives(mr, Append(r.natives, Node(values.instruction_pointer, values.native_frame_id)))
        /\ rstate' = rstate
    BY <1>4 DEF ReadNativeFrameIndex, Goes
  <2> QED BY <1>2, <2>1
<1>6. Same(mr, r', "natives") /\ r'.natives = Append(r.natives, Node(ip, index))
  BY <1>5, ChangedNatives
<1>7. Same(mp, u, "natives") /\ u.natives = Append(p.natives, Node(ip, index))
  BY <1>1, ChangedNatives
<1> HIDE DEF values, mp, mr
<1> QED
  <2>1. /\ u.last = mp.last /\ u.tid = p.tid /\ u.names = p.names /\ u.images = p.images
        /\ u.events = p.events /\ u.frames = p.frames /\ u.stacks = p.stacks
    BY <1>4, <1>7 DEF Same
  <2>2. /\ r'.last = mr.last /\ r'.tid = r.tid /\ r'.names = r.names /\ r'.images = r.images
        /\ r'.events = r.events /\ r'.frames = r.frames /\ r'.stacks = r.stacks
    BY <1>4, <1>6 DEF Same
  <2> QED BY <1>4, <1>5, <1>6, <1>7, <2>1, <2>2 DEF Follows

\* The event that the reader reports is the one that was meant.
LEMMA HearsAllocation ==
    ASSUME NEW p, NEW u, ViewOK(p), Follows(p), AllocationTold(p, Current, u), ReadAllocation
    PROVE  Follows(u)' /\ rstate' = rstate
<1>1. PICK a \in AllocationRecord :
          /\ a.allocator = "free" => a.size = 0
          /\ Current.deltas = Deltas(p, [data_pointer |-> a.address])
          /\ Current.data = <<a.allocator, a.size>>
          /\ u = WithEvent(Updated(p, [data_pointer |-> a.address]),
                           Event(p.tid, a, 0, 0,
                                 IF IsDeallocator(a.allocator) THEN <<>> ELSE p.stacks[p.tid]))
  BY DEF AllocationTold
<1> DEFINE values == [data_pointer |-> a.address]
           mp == Updated(p, values)
           mr == Updated(r, values)
           latest == Latest(values)
           stack == IF IsDeallocator(a.allocator) THEN <<>> ELSE p.stacks[p.tid]
<1>2. values \in [{"data_pointer"} -> Words] /\ values.data_pointer = a.address
  <2>1. 0 \in Words
    BY WordAssumption DEF Words
  <2> QED BY <2>1, AllocationValues
<1>3. r.last = p.last
  BY DEF Follows
<1>4. /\ Values(r, Current.deltas) = values
      /\ Same(r, mr, "last") /\ Same(p, mp, "last") /\ mr.last = mp.last
  <2>1. Current.deltas = Deltas(p, values)
    BY <1>1
  <2> HIDE DEF values
  <2> QED BY <1>2, <1>3, <2>1, HearsValues, FieldSets
<1>5. latest.allocator = a.allocator /\ latest.address = a.address /\ latest.size = a.size
  BY <1>1 DEF Latest
<1>6. Resolved(r, r.stacks[r.tid]) = p.stacks[p.tid]
  <2>1. /\ r.tid = p.tid /\ r.stacks[p.tid] \in Seq(Nat) /\ p.stacks[p.tid] \in Seq(RawFrame)
        /\ StandFor(r.frames, r.stacks[p.tid], p.stacks[p.tid])
    BY DEF AllocationTold, Follows, ViewOK
  <2> QED BY <2>1, StacksResolve
<1>7. r' = WithEvent(mr, Event(r.tid, latest, 0, 0, stack)) /\ rstate' = rstate
  <2> HIDE DEF values
  <2>1. /\ rstate' = rstate
        /\ r' = WithEvent(mr, Event(r.tid, latest, 0, 0,
                    IF IsDeallocator(latest.allocator) THEN <<>> ELSE Resolved(r, r.stacks[r.tid])))
    BY <1>4 DEF ReadAllocation, Goes
  <2> HIDE DEF latest, mr
  <2> QED BY <1>5, <1>6, <2>1
<1>8. Event(r.tid, latest, 0, 0, stack) = Event(p.tid, a, 0, 0, stack)
  <2> HIDE DEF latest, stack
  <2> QED BY <1>5 DEF Event, Follows
<1>9. Same(mr, r', "events") /\ r'.events = Append(mr.events, Event(p.tid, a, 0, 0, stack))
  <2> HIDE DEF latest, stack, mr
  <2> QED BY <1>7, <1>8, ChangedEvents
<1>10. Same(mp, u, "events") /\ u.events = Append(mp.events, Event(p.tid, a, 0, 0, stack))
  BY <1>1, ChangedEvents
<1> HIDE DEF values, mp, mr, latest, stack
<1> QED
  <2>1. /\ u.last = mp.last /\ u.tid = p.tid /\ u.natives = p.natives /\ u.names = p.names
        /\ u.images = p.images /\ u.frames = p.frames /\ u.stacks = p.stacks
    BY <1>4, <1>10 DEF Same
  <2>2. /\ r'.last = mr.last /\ r'.tid = r.tid /\ r'.natives = r.natives /\ r'.names = r.names
        /\ r'.images = r.images /\ r'.frames = r.frames /\ r'.stacks = r.stacks
    BY <1>4, <1>9 DEF Same
  <2>3. u.events = r'.events /\ mp.last = mr.last
    BY <1>4, <1>9, <1>10 DEF Same, Follows
  <2> QED BY <1>7, <2>1, <2>2, <2>3 DEF Follows

\* The same of an allocation with a native trace.
LEMMA HearsNativeAllocation ==
    ASSUME NEW p, NEW u, ViewOK(p), Follows(p), NativeAllocationTold(p, Current, u),
           ReadNativeAllocation
    PROVE  Follows(u)' /\ rstate' = rstate
<1>1. PICK a \in AllocationRecord, node \in Words :
          /\ a.allocator = "free" => a.size = 0
          /\ Current.deltas = Deltas(p, [data_pointer |-> a.address, native_frame_id |-> node])
          /\ Current.data = <<a.allocator, a.size>>
          /\ u = WithEvent(Updated(p, [data_pointer |-> a.address, native_frame_id |-> node]),
                           Event(p.tid, a, node, Len(p.images), p.stacks[p.tid]))
  BY DEF NativeAllocationTold
<1> DEFINE values == [data_pointer |-> a.address, native_frame_id |-> node]
           mp == Updated(p, values)
           mr == Updated(r, values)
           latest == Latest(values)
           event == Event(p.tid, a, node, Len(p.images), p.stacks[p.tid])
<1>2. /\ values \in [{"data_pointer", "native_frame_id"} -> Words]
      /\ values.data_pointer = a.address /\ values.native_frame_id = node
  BY AllocationValues
<1>3. r.last = p.last
  BY DEF Follows
<1>4. /\ Values(r, Current.deltas) = values
      /\ Same(r, mr, "last") /\ Same(p, mp, "last") /\ mr.last = mp.last
  <2>1. Current.deltas = Deltas(p, values)
    BY <1>1
  <2> HIDE DEF values
  <2> QED BY <1>2, <1>3, <2>1, HearsValues, FieldSets
<1>5. latest.allocator = a.allocator /\ latest.address = a.address /\ latest.size = a.size
  BY <1>1 DEF Latest
<1>6. Resolved(r, r.stacks[r.tid]) = p.stacks[p.tid]
  <2>1. /\ r.tid = p.tid /\ r.stacks[p.tid] \in Seq(Nat) /\ p.stacks[p.tid] \in Seq(RawFrame)
        /\ StandFor(r.frames, r.stacks[p.tid], p.stacks[p.tid])
    BY DEF NativeAllocationTold, Follows, ViewOK
  <2> QED BY <2>1, StacksResolve
<1>7. r' = WithEvent(mr, Event(r.tid, latest, node, Len(r.images), p.stacks[p.tid])) /\ rstate' = rstate
  <2> HIDE DEF values
  <2>1. /\ rstate' = rstate
        /\ r' = WithEvent(mr, Event(r.tid, latest, values.native_frame_id, Len(r.images),
                                    Resolved(r, r.stacks[r.tid])))
    BY <1>4 DEF ReadNativeAllocation, Goes
  <2> HIDE DEF latest, mr
  <2> QED BY <1>2, <1>6, <2>1
<1>8. Event(r.tid, latest, node, Len(r.images), p.stacks[p.tid]) = event
  <2> HIDE DEF latest
  <2> QED BY <1>5 DEF Event, Follows
<1>9. Same(mr, r', "events") /\ r'.events = Append(mr.events, event)
  <2> HIDE DEF latest, event, mr
  <2> QED BY <1>7, <1>8, ChangedEvents
<1>10. Same(mp, u, "events") /\ u.events = Append(mp.events, event)
  BY <1>1, ChangedEvents
<1> HIDE DEF values, mp, mr, latest, event
<1> QED
  <2>1. /\ u.last = mp.last /\ u.tid = p.tid /\ u.natives = p.natives /\ u.names = p.names
        /\ u.images = p.images /\ u.frames = p.frames /\ u.stacks = p.stacks
    BY <1>4, <1>10 DEF Same
  <2>2. /\ r'.last = mr.last /\ r'.tid = r.tid /\ r'.natives = r.natives /\ r'.names = r.names
        /\ r'.images = r.images /\ r'.frames = r.frames /\ r'.stacks = r.stacks
    BY <1>4, <1>9 DEF Same
  <2>3. u.events = r'.events /\ mp.last = mr.last
    BY <1>4, <1>9, <1>10 DEF Same, Follows
  <2> QED BY <1>7, <2>1, <2>2, <2>3 DEF Follows

\* A reader that has followed the tracker so far goes on to do so.
LEMMA Hears ==
    ASSUME NEW p, NEW u, ViewOK(p), Follows(p), Tells(p, Current, u), pos < Len(stream), ReaderStep
    PROVE  Follows(u)' /\ rstate' = rstate /\ pos' = pos + 1 /\ UNCHANGED writer
<1> DEFINE kinds == {"CONTEXT_SWITCH", "THREAD_RECORD", "FRAME_POP", "FRAME_INDEX", "FRAME_PUSH",
                     "NATIVE_TRACE_INDEX", "ALLOCATION", "ALLOCATION_WITH_NATIVE", "MEMORY_RECORD",
                     "MEMORY_MAP_START", "SEGMENT_HEADER"}
<1>1. Current.kind \in kinds
  BY DEF Tells, SwitchTold, NameTold, PopTold, FrameTold, PushTold, NodeTold, AllocationTold,
     NativeAllocationTold, MemoryTold, MapTold, ImageTold
<1>2. Current.kind # "TORN" /\ Current.kind # "TRAILER"
  BY <1>1
<1>3. ~ReadTrailer /\ ~ReadEndOfFile /\ ~ReadTorn
  BY <1>2 DEF ReadTrailer, ReadEndOfFile, ReadTorn, Reads
<1>4. pos' = pos + 1 /\ UNCHANGED writer
  BY <1>3 DEF ReaderStep, ReadContextSwitch, ReadFrameIndex, ReadFramePush, ReadFramePop,
     ReadNativeFrameIndex, ReadAllocation, ReadNativeAllocation, ReadThreadRecord, ReadMemoryRecord,
     ReadMemoryMapStart, ReadSegmentHeader, Reads
<1>5. \/ SwitchTold(p, Current, u) /\ ReadContextSwitch
      \/ NameTold(p, Current, u) /\ ReadThreadRecord
      \/ PopTold(p, Current, u) /\ ReadFramePop
      \/ FrameTold(p, Current, u) /\ ReadFrameIndex
      \/ PushTold(p, Current, u) /\ ReadFramePush
      \/ NodeTold(p, Current, u) /\ ReadNativeFrameIndex
      \/ AllocationTold(p, Current, u) /\ ReadAllocation
      \/ NativeAllocationTold(p, Current, u) /\ ReadNativeAllocation
      \/ MemoryTold(p, Current, u) /\ ReadMemoryRecord
      \/ MapTold(p, Current, u) /\ ReadMemoryMapStart
      \/ ImageTold(p, Current, u) /\ ReadSegmentHeader
  <2>1. /\ ReadContextSwitch => Current.kind = "CONTEXT_SWITCH"
        /\ ReadThreadRecord => Current.kind = "THREAD_RECORD"
        /\ ReadFramePop => Current.kind = "FRAME_POP"
        /\ ReadFrameIndex => Current.kind = "FRAME_INDEX"
        /\ ReadFramePush => Current.kind = "FRAME_PUSH"
        /\ ReadNativeFrameIndex => Current.kind = "NATIVE_TRACE_INDEX"
        /\ ReadAllocation => Current.kind = "ALLOCATION"
        /\ ReadNativeAllocation => Current.kind = "ALLOCATION_WITH_NATIVE"
        /\ ReadMemoryRecord => Current.kind = "MEMORY_RECORD"
        /\ ReadMemoryMapStart => Current.kind = "MEMORY_MAP_START"
        /\ ReadSegmentHeader => Current.kind = "SEGMENT_HEADER"
    BY DEF ReadContextSwitch, ReadFrameIndex, ReadFramePush, ReadFramePop,
       ReadNativeFrameIndex, ReadAllocation, ReadNativeAllocation, ReadThreadRecord,
       ReadMemoryRecord, ReadMemoryMapStart, ReadSegmentHeader, Reads
  <2>2. /\ SwitchTold(p, Current, u) => Current.kind = "CONTEXT_SWITCH"
        /\ NameTold(p, Current, u) => Current.kind = "THREAD_RECORD"
        /\ PopTold(p, Current, u) => Current.kind = "FRAME_POP"
        /\ FrameTold(p, Current, u) => Current.kind = "FRAME_INDEX"
        /\ PushTold(p, Current, u) => Current.kind = "FRAME_PUSH"
        /\ NodeTold(p, Current, u) => Current.kind = "NATIVE_TRACE_INDEX"
        /\ AllocationTold(p, Current, u) => Current.kind = "ALLOCATION"
        /\ NativeAllocationTold(p, Current, u) => Current.kind = "ALLOCATION_WITH_NATIVE"
        /\ MemoryTold(p, Current, u) => Current.kind = "MEMORY_RECORD"
        /\ MapTold(p, Current, u) => Current.kind = "MEMORY_MAP_START"
        /\ ImageTold(p, Current, u) => Current.kind = "SEGMENT_HEADER"
    BY DEF SwitchTold, NameTold, PopTold, FrameTold, PushTold, NodeTold, AllocationTold,
       NativeAllocationTold, MemoryTold, MapTold, ImageTold
  <2> QED BY <1>3, <2>1, <2>2 DEF ReaderStep, Tells
<1>6. Follows(u)' /\ rstate' = rstate
  BY <1>5, HearsPlain, HearsImage, HearsPop, HearsPush, HearsFrame, HearsNode, HearsAllocation,
     HearsNativeAllocation
<1> QED BY <1>4, <1>6

-----------------------------------------------------------------------------
(* The inductive invariant *)

\* What a method may have left to write when v has been told.
WorkOK(c, v) ==
    /\ c.tid \in Tids \cup {NoTid} /\ c.name \in Names \cup {NoName}
    /\ c.pops \in Nat /\ c.pops <= Len(v.stacks[c.tid])
    /\ c.pushes \in Seq(RawFrame) /\ c.images \in Seq(Images) /\ c.trace \in Seq(Ips)
    /\ c.images # <<>> => Len(v.images) > 0
    /\ c.found \in 0..Len(c.trace)
    /\ c.node \in 0..(Len(v.natives) + 1) /\ c.node \in Words
    /\ c.allocation \in AllocationRecord \cup {NoAllocation}
    /\ c.allocation.allocator = "free" => c.allocation.size = 0

\* The node that was found is that of the frames that were looked for.
RightNode(c, v) ==
    c.node <= Len(v.natives) /\ Traces(v.natives)[c.node] = SubSeq(c.trace, 1, c.found)

NoTwins(natives) ==
    \A m, n \in 0..Len(natives) : Traces(natives)[m] = Traces(natives)[n] => m = n

RecordOK(x) ==
    /\ x.kind = "CONTEXT_SWITCH" => x.data \in Tids
    /\ \A f \in DOMAIN x.deltas : x.deltas[f] \in Words

\* The tracker: its flags, its tables and its method.
Tracking ==
    /\ active \in BOOLEAN /\ failed \in BOOLEAN /\ closed \in BOOLEAN
    /\ ~active \/ lost # {} => failed
    /\ closed => call = Idle
    /\ ViewOK(w) /\ WorkOK(call, w) /\ Len(w.images) <= Len(stream)
    /\ ~failed => RightNode(call, w)
    /\ NoTwins(w.natives)
    /\ \A e \in lost : e.child \in 1..(Len(w.natives) + 1) /\ e.child \in Words

\* The stream: each of its records up to the first failure tells what the history
\* says; one more may follow when the writer is gone.
History ==
    /\ Sequence(stream) /\ Sequence(past) /\ Len(past) >= 1 /\ Len(past) <= Len(stream) + 1
    /\ \A i \in 1..Len(stream) : RecordOK(stream[i])
    /\ \A i \in 1..Len(past) : ViewOK(past[i])
    /\ \A i \in 1..(Len(past) - 1) : Tells(past[i], stream[i], past[i + 1])
    /\ ~failed =>
         /\ past[Len(past)] = w
         /\ \/ Len(stream) = Len(past) - 1
            \/ /\ closed /\ Len(stream) = Len(past)
               /\ stream[Len(stream)].kind \in {"TORN", "TRAILER"}

\* The reader, which may be anywhere in the stream.
Reading ==
    /\ pos \in 0..Len(stream)
    /\ rstate \in {"reading", "end", "error", "garbled", "undefined"}
    /\ r.tid \in Tids \cup {NoTid} /\ r.last \in [Fields -> Words]
    /\ rstate = "reading" /\ pos < Len(past) => Follows(past[pos + 1])
    /\ rstate \in {"garbled", "undefined"} => failed
    /\ rstate = "error" /\ ~failed => closed /\ pos + 1 = Len(stream) /\ Current.kind = "TORN"

IInv == Tracking /\ History /\ Reading

-----------------------------------------------------------------------------
(* The stream and its reader, whatever the tracker does *)

\* A record that was written whole.
Written(x) ==
    /\ ~closed /\ closed' = closed /\ failed' = failed
    /\ Tells(w, x, w') /\ RecordOK(x)
    /\ stream' = Append(stream, x)
    /\ past' = IF failed THEN past ELSE Append(past, w')
    /\ UNCHANGED reader

\* A record begins one generation of images at the most.
LEMMA ImagesGrow ==
    ASSUME NEW v, NEW x, NEW u, ViewOK(v), Tells(v, x, u)
    PROVE  Len(u.images) <= Len(v.images) + 1 /\ Len(v.images) \in Nat /\ Len(u.images) \in Nat
<1>1. v.images \in Seq(Seq(Images)) /\ u.images \in Seq(Seq(Images))
  BY ToldIsView DEF ViewOK
<1>2. CASE u.images = v.images
  BY <1>1, <1>2
<1>3. CASE MapTold(v, x, u)
  <2>1. u.images = Append(v.images, <<>>)
    BY <1>3, ChangedImages DEF MapTold
  <2> QED BY <1>1, <2>1
<1>4. CASE ImageTold(v, x, u)
  <2>1. u.images = [v.images EXCEPT ![Len(v.images)] = Append(@, x.data)]
    BY <1>4, ChangedImages DEF ImageTold
  <2> QED BY <1>1, <2>1
<1>5. ASSUME NEW m, m.images = v.images, NEW what \in {"tid", "natives", "stacks", "names", "frames", "events"},
             Same(m, u, what)
      PROVE  u.images = v.images
  BY <1>5 DEF Same
<1>6. \A values : Updated(v, values).images = v.images
  BY ChangedLast DEF Updated, Same
<1>7. CASE SwitchTold(v, x, u)
  BY <1>2, <1>5, <1>7, ChangedTid DEF SwitchTold
<1>8. CASE NameTold(v, x, u)
  BY <1>2, <1>5, <1>8, ChangedName DEF NameTold
<1>9. CASE PopTold(v, x, u)
  <2>1. PICK stack : u = WithStack(v, v.tid, stack)
    BY <1>9 DEF PopTold
  <2>2. Same(v, u, "stacks")
    BY <2>1, ChangedStack
  <2> QED BY <1>2, <1>5, <2>2
<1>10. CASE FrameTold(v, x, u)
  <2>1. \E values, frames : u = WithFrames(Updated(v, values), frames)
    BY <1>10 DEF FrameTold
  <2> QED BY <1>2, <1>5, <1>6, <2>1, ChangedFrames
<1>11. CASE PushTold(v, x, u)
  <2>1. PICK values, stack : u = WithStack(Updated(v, values), v.tid, stack)
    BY <1>11 DEF PushTold
  <2>2. Same(Updated(v, values), u, "stacks")
    BY <2>1, ChangedStack
  <2> QED BY <1>2, <1>5, <1>6, <2>2
<1>12. CASE NodeTold(v, x, u)
  <2>1. \E values, natives : u = WithNatives(Updated(v, values), natives)
    BY <1>12 DEF NodeTold
  <2> QED BY <1>2, <1>5, <1>6, <2>1, ChangedNatives
<1>13. CASE AllocationTold(v, x, u) \/ NativeAllocationTold(v, x, u)
  <2>1. \E values, e : u = WithEvent(Updated(v, values), e)
    BY <1>13 DEF AllocationTold, NativeAllocationTold
  <2> QED BY <1>2, <1>5, <1>6, <2>1, ChangedEvents
<1>14. CASE MemoryTold(v, x, u)
  BY <1>2, <1>5, <1>14, ChangedEvents DEF MemoryTold
<1> QED BY <1>3, <1>4, <1>7, <1>8, <1>9, <1>10, <1>11, <1>12, <1>13, <1>14 DEF Tells

\* It adds to the history what it tells, and the reader is not concerned.
LEMMA WrittenStream ==
    ASSUME IInv, NEW x, Written(x)
    PROVE  History' /\ Reading' /\ ViewOK(w') /\ Len(w'.images) <= Len(stream')
<1> DEFINE n == Len(stream)
           m == Len(past)
<1>1. /\ Sequence(stream') /\ n \in Nat /\ Len(stream') = n + 1 /\ stream'[n + 1] = x
      /\ \A i \in 1..n : stream'[i] = stream[i]
  BY AppendSequence DEF IInv, History, Written
<1>2. ViewOK(w')
  BY ToldIsView DEF IInv, Tracking, Written
<1>3. m \in Nat /\ m >= 1 /\ m <= n + 1
  BY AppendSequence DEF IInv, History
<1>4. /\ Sequence(past') /\ Len(past') \in Nat /\ Len(past') >= m /\ Len(past') <= n + 2
      /\ \A i \in 1..m : past'[i] = past[i]
      /\ failed => past' = past
      /\ ~failed => Len(past') = m + 1 /\ past'[m + 1] = w' /\ n = m - 1 /\ past[m] = w
  <2>1. CASE failed
    BY <1>3, <2>1 DEF IInv, History, Written
  <2>2. CASE ~failed
    <3>1. past' = Append(past, w')
      BY <2>2 DEF Written
    <3>2. Sequence(past') /\ Len(past') = m + 1 /\ past'[m + 1] = w' /\ \A i \in 1..m : past'[i] = past[i]
      BY <3>1, AppendSequence DEF IInv, History
    <3>3. n = m - 1 /\ past[m] = w
      BY <1>3, <2>2 DEF IInv, History, Written
    <3> QED BY <1>3, <2>2, <3>2, <3>3
  <2> QED BY <2>1, <2>2 DEF IInv, Tracking
<1>5. \A i \in 1..Len(stream') : RecordOK(stream'[i])
  <2> SUFFICES ASSUME NEW i \in 1..(n + 1) PROVE RecordOK(stream'[i])
    BY <1>1
  <2>1. CASE i = n + 1
    BY <1>1, <2>1 DEF Written
  <2>2. CASE i # n + 1
    <3>1. i \in 1..n
      BY <1>1, <2>2
    <3> QED BY <1>1, <3>1 DEF IInv, History
  <2> QED BY <2>1, <2>2
<1>6. \A i \in 1..Len(past') : ViewOK(past'[i])
  <2>1. CASE failed
    BY <1>4, <2>1 DEF IInv, History
  <2>2. CASE ~failed
    <3> SUFFICES ASSUME NEW i \in 1..(m + 1) PROVE ViewOK(past'[i])
      BY <1>4, <2>2
    <3>1. CASE i = m + 1
      BY <1>2, <1>4, <2>2, <3>1
    <3>2. CASE i # m + 1
      <4>1. i \in 1..m
        BY <1>3, <3>2
      <4> QED BY <1>4, <4>1 DEF IInv, History
    <3> QED BY <3>1, <3>2
  <2> QED BY <2>1, <2>2
<1>7. \A i \in 1..(Len(past') - 1) : Tells(past'[i], stream'[i], past'[i + 1])
  <2>1. ASSUME NEW i \in 1..(m - 1) PROVE Tells(past'[i], stream'[i], past'[i + 1])
    <3>1. i \in 1..m /\ i + 1 \in 1..m /\ i \in 1..n
      BY <1>3, <1>1
    <3>2. past'[i] = past[i] /\ past'[i + 1] = past[i + 1] /\ stream'[i] = stream[i]
      BY <1>1, <1>4, <3>1
    <3> QED BY <3>2 DEF IInv, History
  <2>2. CASE failed
    BY <1>4, <2>1, <2>2
  <2>3. CASE ~failed
    <3>1. past'[m] = w /\ past'[m + 1] = w' /\ stream'[m] = x
      BY <1>1, <1>3, <1>4, <2>3
    <3>2. Tells(past'[m], stream'[m], past'[m + 1])
      BY <3>1 DEF Written
    <3>3. \A i \in 1..(Len(past') - 1) : i = m \/ i \in 1..(m - 1)
      BY <1>3, <1>4, <2>3
    <3> QED BY <2>1, <3>2, <3>3
  <2> QED BY <2>2, <2>3
<1>8. History'
  <2>1. Len(past') >= 1 /\ Len(past') <= Len(stream') + 1
    BY <1>1, <1>3, <1>4
  <2>2. ~failed => past'[Len(past')] = w' /\ Len(stream') = Len(past') - 1
    BY <1>1, <1>3, <1>4
  <2> QED BY <1>1, <1>4, <1>5, <1>6, <1>7, <2>1, <2>2 DEF History, Written
<1>9. Reading'
  <2>1. pos \in 0..n
    BY DEF IInv, Reading
  <2>2. pos \in 0..Len(stream')
    BY <1>1, <2>1
  <2>3. rstate = "reading" /\ pos < Len(past') => Follows(past'[pos + 1])
    <3> SUFFICES ASSUME rstate = "reading", pos < Len(past') PROVE Follows(past'[pos + 1])
      OBVIOUS
    <3>1. pos < m
      BY <1>3, <1>4, <2>1
    <3>2. pos + 1 \in 1..m
      BY <1>3, <2>1, <3>1
    <3> QED BY <1>4, <3>1, <3>2 DEF IInv, Reading
  <2>4. r' = r /\ pos' = pos /\ rstate' = rstate
    BY DEF Written, reader
  <2>5. (rstate = "reading" /\ pos < Len(past) => Follows(past[pos + 1]))'
    BY <2>3, <2>4 DEF Follows
  <2>6. ~(rstate = "error" /\ ~failed)
    BY DEF IInv, Reading, Written
  <2>7. /\ rstate \in {"reading", "end", "error", "garbled", "undefined"}
        /\ r.tid \in Tids \cup {NoTid} /\ r.last \in [Fields -> Words]
        /\ rstate \in {"garbled", "undefined"} => failed
    BY DEF IInv, Reading
  <2>8. failed' = failed
    BY DEF Written
  <2> QED BY <2>2, <2>4, <2>5, <2>6, <2>7, <2>8 DEF Reading
<1>10. Len(w'.images) <= Len(stream')
  <2>1. Len(w'.images) <= Len(w.images) + 1 /\ Len(w.images) \in Nat /\ Len(w'.images) \in Nat
    BY ImagesGrow DEF IInv, Tracking, Written
  <2>2. Len(w.images) <= n
    BY DEF IInv, Tracking
  <2> QED BY <1>1, <2>1, <2>2
<1> QED BY <1>2, <1>8, <1>9, <1>10

\* A record that was lost, or of which a part was written: what was told is
\* history.
Missed ==
    /\ failed' = TRUE /\ past' = past /\ closed' = closed
    /\ stream' \in {stream, Append(stream, Torn)}
    /\ UNCHANGED reader

\* The writer is gone, with a trailer, a torn record or neither.
Ended ==
    /\ failed' = failed /\ past' = past /\ w' = w
    /\ closed' = TRUE /\ (stream' # stream => ~closed)
    /\ stream' \in {stream, Append(stream, Torn), Append(stream, Trailer)}
    /\ UNCHANGED reader

\* The records that end a stream.
LEMMA TornOK ==
    /\ RecordOK(Torn) /\ RecordOK(Trailer)
    /\ Torn.kind = "TORN" /\ Trailer.kind = "TRAILER"
BY DEF RecordOK, Torn, Trailer, Record, NoValues

\* Neither changes what was told before.
LEMMA MissedStream ==
    ASSUME IInv, Missed \/ Ended
    PROVE  History' /\ Reading' /\ Len(w.images) <= Len(stream')
<1> DEFINE n == Len(stream)
           m == Len(past)
<1>1. /\ Sequence(stream') /\ n \in Nat /\ Len(stream') \in n..(n + 1)
      /\ \A i \in 1..n : stream'[i] = stream[i]
      /\ stream' # stream => Len(stream') = n + 1 /\ stream'[n + 1] \in {Torn, Trailer}
  <2>1. n \in Nat
    BY AppendSequence DEF IInv, History
  <2>2. CASE stream' = stream
    BY <2>1, <2>2 DEF IInv, History
  <2>3. ASSUME NEW x \in {Torn, Trailer}, stream' = Append(stream, x)
        PROVE  /\ Sequence(stream') /\ Len(stream') = n + 1 /\ stream'[n + 1] = x
               /\ \A i \in 1..n : stream'[i] = stream[i]
    BY <2>3, AppendSequence DEF IInv, History
  <2>4. \/ stream' = stream
        \/ \E x \in {Torn, Trailer} : stream' = Append(stream, x)
    BY DEF Missed, Ended
  <2> QED BY <2>1, <2>2, <2>3, <2>4
<1>2. past' = past /\ r' = r /\ pos' = pos /\ rstate' = rstate
  BY DEF Missed, Ended, reader
<1>3. m \in Nat /\ m >= 1 /\ m <= n + 1
  BY AppendSequence DEF IInv, History
<1>4. \A i \in 1..Len(stream') : RecordOK(stream'[i])
  <2> SUFFICES ASSUME NEW i \in 1..Len(stream') PROVE RecordOK(stream'[i])
    OBVIOUS
  <2>1. CASE i \in 1..n
    BY <1>1, <2>1 DEF IInv, History
  <2>2. CASE i \notin 1..n
    <3>1. i = n + 1 /\ stream' # stream
      BY <1>1, <2>2
    <3> QED BY <1>1, <3>1, TornOK
  <2> QED BY <2>1, <2>2
<1>5. \A i \in 1..(m - 1) : Tells(past'[i], stream'[i], past'[i + 1])
  <2> SUFFICES ASSUME NEW i \in 1..(m - 1) PROVE Tells(past'[i], stream'[i], past'[i + 1])
    OBVIOUS
  <2>1. stream'[i] = stream[i]
    BY <1>1, <1>3
  <2> QED BY <1>2, <2>1 DEF IInv, History
<1>6. ~failed' =>
         /\ past'[m] = w'
         /\ \/ Len(stream') = m - 1
            \/ /\ closed' /\ Len(stream') = m
               /\ stream'[Len(stream')].kind \in {"TORN", "TRAILER"}
  <2> SUFFICES ASSUME ~failed' PROVE
         /\ past'[m] = w'
         /\ \/ Len(stream') = m - 1
            \/ /\ closed' /\ Len(stream') = m
               /\ stream'[Len(stream')].kind \in {"TORN", "TRAILER"}
    OBVIOUS
  <2>1. ~failed /\ w' = w /\ closed' /\ (stream' # stream => ~closed)
    BY DEF Missed, Ended
  <2>2. past[m] = w
    BY <2>1 DEF IInv, History
  <2>3. n = m - 1 \/ (closed /\ n = m /\ stream[n].kind \in {"TORN", "TRAILER"})
    BY <2>1 DEF IInv, History
  <2>4. CASE stream' = stream
    BY <1>2, <2>1, <2>2, <2>3, <2>4
  <2>5. CASE stream' # stream
    BY <1>1, <1>2, <1>3, <2>1, <2>2, <2>3, <2>5, TornOK
  <2> QED BY <2>4, <2>5
<1>7. History'
  BY <1>1, <1>2, <1>3, <1>4, <1>5, <1>6 DEF IInv, History
<1>8. Reading'
  <2>1. pos \in 0..Len(stream')
    BY <1>1 DEF IInv, Reading
  <2>2. (rstate = "reading" /\ pos < Len(past) => Follows(past[pos + 1]))'
    BY <1>2 DEF IInv, Reading, Follows
  <2>3. ASSUME rstate = "error", ~failed'
        PROVE  closed' /\ pos + 1 = Len(stream') /\ Current'.kind = "TORN"
    <3>1. ~failed /\ (stream' # stream => ~closed) /\ closed'
      BY <2>3 DEF Missed, Ended
    <3>2. closed /\ pos + 1 = n /\ Current.kind = "TORN"
      BY <2>3, <3>1 DEF IInv, Reading
    <3> QED BY <1>2, <3>1, <3>2 DEF Current
  <2>4. rstate \in {"garbled", "undefined"} => failed'
    BY DEF IInv, Reading, Missed, Ended
  <2>5. /\ rstate \in {"reading", "end", "error", "garbled", "undefined"}
        /\ r.tid \in Tids \cup {NoTid} /\ r.last \in [Fields -> Words]
    BY DEF IInv, Reading
  <2> QED BY <1>2, <2>1, <2>2, <2>3, <2>4, <2>5 DEF Reading
<1>9. Len(w.images) <= Len(stream')
  <2>1. Len(w.images) <= n /\ Len(w.images) \in Nat
    BY DEF IInv, Tracking, ViewOK
  <2> QED BY <1>1, <2>1
<1> QED BY <1>7, <1>8, <1>9

\* A step that writes nothing.
LEMMA QuietStream ==
    ASSUME IInv, UNCHANGED <<w, stream, past, failed, closed, reader>>
    PROVE  History' /\ Reading'
BY DEF IInv, History, Reading, reader, Follows, Current

-----------------------------------------------------------------------------
(* The tracker's methods *)

\* No method is under way once the writer is gone.
LEMMA RunningIsOpen ==
    ASSUME IInv, WriterStep
    PROVE  ~closed
<1> SUFFICES ASSUME call = Idle PROVE FALSE
  BY DEF IInv, Tracking
<1>1. /\ call.tid = NoTid /\ call.pushes = <<>> /\ call.images = <<>>
      /\ call.found = Len(call.trace)
  BY DEF Idle, Work
<1> QED
  BY <1>1 DEF WriterStep, WriteContextSwitch, WriteThreadRecord, WriteFramePop, RegisterFrame,
     PushFrame, FindNode, RegisterNode, FollowLostEdge, WriteAllocation, WriteNativeAllocation,
     WriteSegments, InThread, MayFindNode, MayWriteAllocation, TraceFound

\* A method that begins has work that fits the tables.
LEMMA FreshWork ==
    ASSUME NEW v, ViewOK(v), NEW t \in Tids \cup {NoTid}, NEW name \in Names \cup {NoName},
           NEW pops \in Nat, pops <= Len(v.stacks[t]), NEW pushes \in Seq(RawFrame),
           NEW images \in Seq(Images), images # <<>> => Len(v.images) > 0,
           NEW trace \in Seq(Ips), NEW a \in AllocationRecord \cup {NoAllocation},
           a.allocator = "free" => a.size = 0
    PROVE  LET c == Work(t, name, pops, pushes, images, trace, 0, 0, a)
           IN WorkOK(c, v) /\ RightNode(c, v)
<1> DEFINE c == Work(t, name, pops, pushes, images, trace, 0, 0, a)
<1>1. /\ c.tid = t /\ c.name = name /\ c.pops = pops /\ c.pushes = pushes /\ c.images = images
      /\ c.trace = trace /\ c.found = 0 /\ c.node = 0 /\ c.allocation = a
  BY DEF Work
<1> HIDE DEF c
<1>2. Len(v.natives) \in Nat /\ Len(trace) \in Nat
  BY DEF ViewOK, Tree
<1>3. 0 \in Words /\ 0 \in 0..(Len(v.natives) + 1) /\ 0 \in 0..Len(trace)
  BY <1>2, WordAssumption DEF Words
<1>4. WorkOK(c, v)
  BY <1>1, <1>3 DEF WorkOK
<1>5. Traces(v.natives)[0] = <<>>
  BY <1>2, TracesGrow DEF Grows, ViewOK
<1>6. SubSeq(trace, 1, 0) = <<>>
  BY SubSeqEmpty
<1>7. RightNode(c, v)
  BY <1>1, <1>2, <1>5, <1>6 DEF RightNode
<1> QED BY <1>4, <1>7 DEF c

\* To have nothing to write fits any tables.
LEMMA IdleWork ==
    ASSUME NEW v, ViewOK(v)
    PROVE  WorkOK(Idle, v) /\ RightNode(Idle, v)
<1>1. 0 <= Len(v.stacks[NoTid])
  BY DEF ViewOK
<1>2. NoAllocation.allocator # "free"
  BY DEF NoAllocation
<1>3. NoTid \in Tids \cup {NoTid} /\ NoName \in Names \cup {NoName} /\ 0 \in Nat
      /\ <<>> \in Seq(RawFrame) /\ <<>> \in Seq(Images) /\ <<>> \in Seq(Ips)
      /\ NoAllocation \in AllocationRecord \cup {NoAllocation}
  OBVIOUS
<1> QED BY <1>1, <1>2, <1>3, FreshWork DEF Idle

\* What is left once a record about a thread is written, or was lost.
LEMMA WorkLeft ==
    ASSUME IInv, ViewOK(w'), w'.natives = w.natives,
           NEW pops \in Nat, NEW pushes \in Seq(RawFrame), call' \in {Idle, After(pops, pushes)},
           pops <= Len(w'.stacks[call.tid])
    PROVE  WorkOK(call', w') /\ (~failed => RightNode(call', w'))
<1> DEFINE left == After(pops, pushes)
<1>1. CASE call' = Idle
  BY <1>1, IdleWork
<1>2. CASE call' = left
  <2>1. /\ left.tid = call.tid /\ left.name = NoName /\ left.pops = pops /\ left.pushes = pushes
        /\ left.images = <<>> /\ left.trace = call.trace /\ left.found = call.found
        /\ left.node = call.node /\ left.allocation = call.allocation
    BY DEF After, Work
  <2>2. WorkOK(call, w) /\ (~failed => RightNode(call, w))
    BY DEF IInv, Tracking
  <2> HIDE DEF left
  <2>3. WorkOK(left, w')
    BY <2>1, <2>2 DEF WorkOK
  <2> QED BY <1>2, <2>1, <2>2, <2>3 DEF RightNode
<1> QED BY <1>1, <1>2

\* A record that could not be written leaves less to write than there was.
LEMMA AbandonedWork ==
    ASSUME IInv, Proceed(Abandoned), ViewOK(w'), w'.natives = w.natives, w'.stacks = w.stacks
    PROVE  WorkOK(call', w') /\ (~failed => RightNode(call', w'))
<1>1. \E pops \in {call.pops, 0}, pushes \in {call.pushes, <<>>} : call' \in {Idle, After(pops, pushes)}
  BY DEF Proceed, Abandoned, AfterName, AfterPops, AfterPush
<1>2. PICK pops \in {call.pops, 0}, pushes \in {call.pushes, <<>>} :
          call' \in {Idle, After(pops, pushes)}
  BY <1>1
<1>3. /\ call.tid \in Tids \cup {NoTid} /\ call.pops \in Nat /\ call.pushes \in Seq(RawFrame)
      /\ call.pops <= Len(w.stacks[call.tid]) /\ Len(w.stacks[call.tid]) \in Nat
  <2>1. call.tid \in Tids \cup {NoTid} /\ w.stacks \in [Tids \cup {NoTid} -> Seq(RawFrame)]
    BY DEF IInv, Tracking, WorkOK, ViewOK
  <2>2. call.pops \in Nat /\ call.pushes \in Seq(RawFrame) /\ call.pops <= Len(w.stacks[call.tid])
    BY DEF IInv, Tracking, WorkOK
  <2> QED BY <2>1, <2>2
<1> DEFINE depth == Len(w.stacks[call.tid])
<1>4. pops \in Nat /\ pops <= Len(w'.stacks[call.tid])
  <2>1. depth = Len(w'.stacks[call.tid])
    OBVIOUS
  <2>2. call.pops \in Nat /\ depth \in Nat /\ call.pops <= depth
    BY <1>3
  <2> HIDE DEF depth
  <2>3. CASE pops = call.pops
    BY <2>1, <2>2, <2>3
  <2>4. CASE pops = 0
    BY <2>1, <2>2, <2>4
  <2> QED BY <2>3, <2>4
<1>5. pushes \in Seq(RawFrame)
  <2>1. <<>> \in Seq(RawFrame)
    OBVIOUS
  <2>2. pushes = call.pushes \/ pushes = <<>>
    OBVIOUS
  <2> QED BY <1>3, <2>1, <2>2
<1> QED BY <1>2, <1>4, <1>5, WorkLeft

\* A view of which only the last values change.
LEMMA LastIsView ==
    ASSUME NEW v, NEW u, ViewOK(v), Same(v, u, "last"), u.last \in [Fields -> Words]
    PROVE  ViewOK(u)
BY DEF ViewOK, Same

\* A record that is lost may leave some of its values cached.
LEMMA CachedViews ==
    ASSUME ViewOK(w), NEW S \in SUBSET Fields, NEW values \in [S -> Words], NEW order \in Seq(S),
           NEW v \in Cached(values, order)
    PROVE  ViewOK(v) /\ Same(w, v, "last")
<1>1. PICK k \in 0..Len(order) : v = Updated(w, [f \in {order[i] : i \in 1..k} |-> values[f]])
  BY DEF Cached
<1> DEFINE T == {order[i] : i \in 1..k}
           some == [f \in T |-> values[f]]
<1>2. T \in SUBSET S
  OBVIOUS
<1>3. T \in SUBSET Fields
  BY <1>2
<1> HIDE DEF T
<1>4. some \in [T -> Words]
  BY <1>2
<1>5. w.last \in [Fields -> Words]
  BY DEF ViewOK
<1>6. v = Updated(w, some)
  BY <1>1 DEF T
<1> HIDE DEF some
<1>7. Same(w, v, "last") /\ v.last \in [Fields -> Words]
  BY <1>3, <1>4, <1>5, <1>6, UpdatedLast
<1> QED BY <1>7, LastIsView

\* A record is written by a method that goes on.
LEMMA WriteKeeps ==
    ASSUME IInv, ~closed, NEW kind, NEW values, NEW data, NEW after,
           Write(kind, values, data, after), UNCHANGED <<closed, reader>>,
           Tells(w, Record(kind, Deltas(w, values), data), after),
           RecordOK(Record(kind, Deltas(w, values), data)),
           after.natives = w.natives, WorkOK(call', w'), ~failed => RightNode(call', w')
    PROVE  IInv'
<1>1. Written(Record(kind, Deltas(w, values), data))
  BY DEF Written, Write
<1>2. History' /\ Reading' /\ ViewOK(w') /\ Len(w'.images) <= Len(stream')
  BY <1>1, WrittenStream
<1>3. w' = after /\ UNCHANGED <<active, lost, failed, closed>>
  BY DEF Write
<1>4. Tracking'
  BY <1>2, <1>3 DEF IInv, Tracking
<1> QED BY <1>2, <1>4 DEF IInv

\* A record is lost, and tracking ends.
LEMMA FailKeeps ==
    ASSUME IInv, ~closed, NEW left, Fail(left), UNCHANGED <<closed, reader>>,
           ViewOK(w'), w'.natives = w.natives, w'.images = w.images, WorkOK(call', w')
    PROVE  IInv'
<1>1. Missed
  BY DEF Missed, Fail, Loses
<1>2. History' /\ Reading' /\ Len(w'.images) <= Len(stream')
  BY <1>1, MissedStream
<1>3. failed' = TRUE /\ active' = FALSE /\ lost' = lost /\ closed' = closed
  BY DEF Fail, Loses
<1>4. /\ active' \in BOOLEAN /\ failed' \in BOOLEAN /\ closed' \in BOOLEAN
      /\ ~active' \/ lost' # {} => failed'
      /\ closed' => call' = Idle
  <2>1. closed' = FALSE
    BY <1>3 DEF IInv, Tracking
  <2>2. active' \in BOOLEAN /\ failed' \in BOOLEAN
    BY <1>3
  <2> QED BY <1>3, <2>1, <2>2
<1>5. NoTwins(w'.natives) /\ \A e \in lost' : e.child \in 1..(Len(w'.natives) + 1) /\ e.child \in Words
  BY <1>3 DEF IInv, Tracking
<1>6. Tracking'
  BY <1>2, <1>3, <1>4, <1>5 DEF Tracking
<1> QED BY <1>2, <1>6 DEF IInv

\* Work that fits the tables fits others with the same stacks, nodes and images.
LEMMA SameWork ==
    ASSUME IInv, ViewOK(w'), w'.stacks = w.stacks, w'.natives = w.natives, w'.images = w.images,
           call' = call
    PROVE  WorkOK(call', w') /\ (~failed => RightNode(call', w'))
<1>1. WorkOK(call, w) /\ (~failed => RightNode(call, w))
  BY DEF IInv, Tracking
<1> QED BY <1>1 DEF WorkOK, RightNode

\* A record without deltas.
LEMMA PlainRecord ==
    ASSUME NEW kind, NEW data, kind = "CONTEXT_SWITCH" => data \in Tids
    PROVE  LET x == Record(kind, Deltas(w, NoValues), data)
           IN x.kind = kind /\ x.data = data /\ RecordOK(x)
<1>1. DOMAIN Deltas(w, NoValues) = {}
  BY DEF Deltas, NoValues
<1> QED BY <1>1 DEF Record, RecordOK

\* A record with deltas.
LEMMA DeltaRecord ==
    ASSUME ViewOK(w), NEW x, x.kind # "CONTEXT_SWITCH",
           NEW S \in SUBSET Fields, NEW values \in [S -> Words], x.deltas = Deltas(w, values)
    PROVE  RecordOK(x)
<1>1. Deltas(w, values) \in [S -> Words]
  BY DeltasBack DEF ViewOK
<1> QED BY <1>1 DEF RecordOK

\* The records of the tracker's methods, one by one.  The switch to a thread names
\* one that exists.
LEMMA KeepsContextSwitch ==
    ASSUME IInv, WriteContextSwitch
    PROVE  IInv'
<1> DEFINE after == WithTid(w, call.tid)
           x == Record("CONTEXT_SWITCH", Deltas(w, NoValues), call.tid)
<1>1. ~closed /\ UNCHANGED <<closed, reader>>
  BY RunningIsOpen DEF WriterStep, WriteContextSwitch
<1>2. call.tid \in Tids /\ ViewOK(w)
  BY DEF IInv, Tracking, WorkOK, WriteContextSwitch
<1>3. Same(w, after, "tid") /\ after.tid = call.tid
  BY ChangedTid
<1>4. ViewOK(after)
  BY <1>2, <1>3 DEF ViewOK, Same
<1>5. /\ after.natives = w.natives /\ after.stacks = w.stacks /\ after.images = w.images
  BY <1>3 DEF Same
<1>6. CASE Write("CONTEXT_SWITCH", NoValues, call.tid, after) /\ UNCHANGED call
  <2>1. x.kind = "CONTEXT_SWITCH" /\ x.data = call.tid /\ RecordOK(x)
    BY <1>2, PlainRecord
  <2>2. Tells(w, x, after)
    BY <1>2, <2>1 DEF Tells, SwitchTold
  <2>3. w' = after
    BY <1>6 DEF Write
  <2> HIDE DEF after
  <2>4. WorkOK(call', w') /\ (~failed => RightNode(call', w'))
    BY <1>4, <1>5, <1>6, <2>3, SameWork
  <2> QED BY <1>1, <1>5, <1>6, <2>1, <2>2, <2>4, WriteKeeps
<1>7. CASE Fail({after}) /\ Proceed(Abandoned)
  <2>1. w' = after
    BY <1>7 DEF Fail, Loses
  <2> HIDE DEF after
  <2>2. WorkOK(call', w')
    BY <1>4, <1>5, <1>7, <2>1, AbandonedWork
  <2> QED BY <1>1, <1>4, <1>5, <1>7, <2>1, <2>2, FailKeeps
<1> QED BY <1>6, <1>7 DEF WriteContextSwitch

\* A name is told of the current thread.
LEMMA KeepsThreadRecord ==
    ASSUME IInv, WriteThreadRecord
    PROVE  IInv'
<1> DEFINE after == WithName(w, call.tid, call.name)
           x == Record("THREAD_RECORD", Deltas(w, NoValues), call.name)
<1>1. ~closed /\ UNCHANGED <<closed, reader>>
  BY RunningIsOpen DEF WriterStep, WriteThreadRecord
<1>2. call.tid \in Tids /\ w.tid = call.tid /\ ViewOK(w) /\ call.name \in Names
  BY DEF IInv, Tracking, WorkOK, WriteThreadRecord, InThread
<1>3. Same(w, after, "names")
  BY ChangedName
<1>4. ViewOK(after)
  BY <1>2, <1>3 DEF ViewOK, Same
<1>5. after.natives = w.natives /\ after.stacks = w.stacks
  BY <1>3 DEF Same
<1>6. call' \in {Idle, After(call.pops, call.pushes)}
  BY DEF WriteThreadRecord, Proceed, AfterName
<1>7. /\ call.pops \in Nat /\ call.pushes \in Seq(RawFrame)
      /\ call.pops <= Len(w.stacks[call.tid])
  BY DEF IInv, Tracking, WorkOK
<1>8. CASE Write("THREAD_RECORD", NoValues, call.name, after)
  <2>1. x.kind = "THREAD_RECORD" /\ x.data = call.name /\ RecordOK(x)
    BY PlainRecord
  <2>2. Tells(w, x, after)
    BY <1>2, <2>1 DEF Tells, NameTold
  <2>3. w' = after
    BY <1>8 DEF Write
  <2> HIDE DEF after
  <2>4. WorkOK(call', w') /\ (~failed => RightNode(call', w'))
    BY <1>4, <1>5, <1>6, <1>7, <2>3, WorkLeft
  <2> QED BY <1>1, <1>5, <1>8, <2>1, <2>2, <2>4, WriteKeeps
<1>9. CASE Fail({w})
  <2>1. w' = w
    BY <1>9 DEF Fail, Loses
  <2>2. WorkOK(call', w')
    BY <1>2, <1>6, <1>7, <2>1, WorkLeft
  <2> QED BY <1>1, <1>2, <1>9, <2>1, <2>2, FailKeeps
<1> QED BY <1>8, <1>9 DEF WriteThreadRecord

\* A record pops no more frames than the thread has.
LEMMA KeepsFramePop ==
    ASSUME IInv, WriteFramePop
    PROVE  IInv'
<1> DEFINE n == IF call.pops > PopLimit THEN PopLimit ELSE call.pops
           stack == w.stacks[call.tid]
           less == SubSeq(stack, 1, Len(stack) - n)
           after == WithStack(w, call.tid, less)
           x == Record("FRAME_POP", Deltas(w, NoValues), n - 1)
<1>1. ~closed /\ UNCHANGED <<closed, reader>>
  BY RunningIsOpen DEF WriterStep, WriteFramePop
<1>2. call.tid \in Tids /\ w.tid = call.tid /\ ViewOK(w)
  BY DEF IInv, Tracking, WorkOK, WriteFramePop, InThread
<1>3. /\ stack \in Seq(RawFrame) /\ Len(stack) \in Nat
  BY <1>2 DEF ViewOK
<1>4. call.pops \in Nat /\ call.pops > 0 /\ call.pops <= Len(stack) /\ call.pushes \in Seq(RawFrame)
  BY DEF IInv, Tracking, WorkOK, WriteFramePop
<1>5. n \in 1..call.pops
  BY <1>4, LimitAssumption
<1>6. CASE Write("FRAME_POP", NoValues, n - 1, after) /\ Proceed(AfterPops(call.pops - n))
  <2>1. x.kind = "FRAME_POP" /\ x.data = n - 1 /\ RecordOK(x)
    BY PlainRecord
  <2>2. w' = after
    BY <1>6 DEF Write
  <2>3. Same(w, after, "stacks") /\ after.stacks = [w.stacks EXCEPT ![call.tid] = less]
    <3> HIDE DEF less
    <3> QED BY ChangedStack
  <2>4. Tells(w, x, after)
    <3>1. n - 1 \in Nat /\ (n - 1) + 1 = n
      BY <1>4, <1>5
    <3> HIDE DEF n, x, stack
    <3>2. PopTold(w, x, after)
      BY <1>2, <1>3, <1>4, <1>5, <2>1, <3>1 DEF PopTold, stack
    <3> QED BY <3>2 DEF Tells
  <2>5. ViewOK(after)
    <3> HIDE DEF after
    <3> QED BY <1>2, <2>4, ToldIsView
  <2>6. call.pops - n \in Nat /\ call.pops - n <= Len(w'.stacks[call.tid])
    <3>1. after.stacks[call.tid] = less
      BY <1>2, <2>3 DEF ViewOK
    <3> HIDE DEF n, stack
    <3>2. Len(less) = Len(stack) - n
      BY <1>3, <1>4, <1>5
    <3> HIDE DEF less, after
    <3> QED BY <1>3, <1>4, <1>5, <2>2, <3>1, <3>2
  <2> HIDE DEF n, after
  <2>7. call' \in {Idle, After(call.pops - n, call.pushes)}
    BY <1>6 DEF Proceed, AfterPops
  <2>8. after.natives = w.natives
    BY <2>3 DEF Same
  <2>9. WorkOK(call', w') /\ (~failed => RightNode(call', w'))
    BY <1>4, <2>2, <2>5, <2>6, <2>7, <2>8, WorkLeft
  <2> QED BY <1>1, <1>6, <2>1, <2>4, <2>8, <2>9, WriteKeeps
<1>7. CASE Fail({w}) /\ Proceed(Abandoned)
  <2>1. w' = w
    BY <1>7 DEF Fail, Loses
  <2>2. WorkOK(call', w')
    BY <1>2, <1>7, <2>1, AbandonedWork
  <2> QED BY <1>1, <1>2, <1>7, <2>1, <2>2, FailKeeps
<1> QED BY <1>6, <1>7 DEF WriteFramePop

\* A new frame gets the number that comes next.
LEMMA KeepsFrame ==
    ASSUME IInv, RegisterFrame
    PROVE  IInv'
<1> DEFINE f == Head(call.pushes)
           values == [python_frame_id |-> Len(w.frames), python_line_number |-> f.line]
           order == <<"python_frame_id", "python_line_number">>
           S == {"python_frame_id", "python_line_number"}
           frames == Append(w.frames, f)
           after == WithFrames(Updated(w, values), frames)
           x == Record("FRAME_INDEX", Deltas(w, values), f.code)
<1>1. ~closed /\ UNCHANGED <<call, closed, reader>>
  BY RunningIsOpen DEF WriterStep, RegisterFrame
<1>2. ViewOK(w) /\ f \in RawFrame /\ Len(w.frames) < Word
  <2>1. call.pushes \in Seq(RawFrame) /\ call.pushes # <<>> /\ ViewOK(w)
    BY DEF IInv, Tracking, WorkOK, RegisterFrame
  <2> QED BY <2>1 DEF RegisterFrame
<1>3. values \in [S -> Words]
  BY <1>2, FrameValues
<1>4. order \in Seq(S)
  OBVIOUS
<1> HIDE DEF f, order
<1>5. frames \in Seq(RawFrame) /\ Len(frames) <= Word
  BY <1>2, WordAssumption DEF ViewOK
<1>6. ASSUME NEW v, ViewOK(v), Same(w, v, "last")
      PROVE  LET u == WithFrames(v, frames) IN
             /\ ViewOK(u) /\ u.stacks = w.stacks /\ u.natives = w.natives /\ u.images = w.images
  <2> DEFINE u == WithFrames(v, frames)
  <2> HIDE DEF frames
  <2>1. Same(v, u, "frames") /\ u.frames = frames
    BY ChangedFrames
  <2> HIDE DEF u
  <2>2. ViewOK(u) /\ u.stacks = w.stacks /\ u.natives = w.natives /\ u.images = w.images
    BY <1>5, <1>6, <2>1 DEF ViewOK, Same
  <2> QED BY <2>2 DEF u
<1>7. Same(w, Updated(w, values), "last") /\ ViewOK(Updated(w, values))
  <2> HIDE DEF values
  <2> QED BY <1>2, <1>3, UpdatedLast, LastIsView, FieldSets DEF ViewOK
<1>8. CASE Write("FRAME_INDEX", values, f.code, after)
  <2>1. /\ ViewOK(after) /\ after.stacks = w.stacks /\ after.natives = w.natives
        /\ after.images = w.images
    BY <1>6, <1>7
  <2>2. x.kind = "FRAME_INDEX" /\ x.data = f.code /\ x.deltas = Deltas(w, values) /\ RecordOK(x)
    <3> HIDE DEF values
    <3>1. x.kind = "FRAME_INDEX" /\ x.data = f.code /\ x.deltas = Deltas(w, values)
      BY DEF Record
    <3> HIDE DEF x
    <3> QED BY <1>2, <1>3, <3>1, DeltaRecord, FieldSets
  <2>3. Tells(w, x, after)
    <3>1. FrameTold(w, x, after)
      BY <1>2, <2>2 DEF FrameTold
    <3> QED BY <3>1 DEF Tells
  <2>4. w' = after
    BY <1>8 DEF Write
  <2> HIDE DEF after, values
  <2>5. WorkOK(call', w') /\ (~failed => RightNode(call', w'))
    BY <1>1, <2>1, <2>4, SameWork
  <2> QED BY <1>1, <1>8, <2>1, <2>2, <2>3, <2>5, WriteKeeps
<1>9. CASE Fail({WithFrames(v, frames) : v \in Cached(values, order)})
  <2>1. PICK v \in Cached(values, order) : w' = WithFrames(v, frames)
    BY <1>9 DEF Fail, Loses
  <2>2. ViewOK(v) /\ Same(w, v, "last")
    <3> HIDE DEF values
    <3> QED BY <1>2, <1>3, <1>4, CachedViews, FieldSets
  <2>3. ViewOK(w') /\ w'.stacks = w.stacks /\ w'.natives = w.natives /\ w'.images = w.images
    BY <1>6, <2>1, <2>2
  <2>4. WorkOK(call', w')
    BY <1>1, <2>3, SameWork
  <2> QED BY <1>1, <1>9, <2>3, <2>4, FailKeeps
<1> QED BY <1>8, <1>9 DEF RegisterFrame, f, order

\* A frame that is pushed has a number.
LEMMA KeepsPush ==
    ASSUME IInv, PushFrame
    PROVE  IInv'
<1> DEFINE f == Head(call.pushes)
           values == [python_frame_id |-> FrameId(f)]
           order == <<"python_frame_id">>
           stack == Append(w.stacks[call.tid], f)
           after == WithStack(Updated(w, values), call.tid, stack)
           data == <<>>
           x == Record("FRAME_PUSH", Deltas(w, values), data)
<1>1. ~closed /\ UNCHANGED <<closed, reader>>
  BY RunningIsOpen DEF WriterStep, PushFrame
<1>2. call.tid \in Tids /\ w.tid = call.tid /\ ViewOK(w)
  BY DEF IInv, Tracking, WorkOK, PushFrame, InThread
<1>3. /\ call.pushes \in Seq(RawFrame) /\ call.pushes # <<>>
      /\ Tail(call.pushes) \in Seq(RawFrame) /\ w.stacks[call.tid] \in Seq(RawFrame)
  <2>1. call.pushes \in Seq(RawFrame) /\ call.pushes # <<>>
    BY DEF IInv, Tracking, WorkOK, PushFrame
  <2> QED BY <1>2, <2>1 DEF ViewOK
<1>4. PICK i \in 1..Len(w.frames) : w.frames[i] = f /\ FrameId(f) = i - 1
  <2>1. Registered(f)
    BY DEF PushFrame, InThread, NeedsThread
  <2> QED BY <2>1 DEF Registered, FrameId
<1>5. values \in [{"python_frame_id"} -> Words]
  BY <1>2, <1>4, PushValues
<1>6. order \in Seq({"python_frame_id"})
  OBVIOUS
<1> HIDE DEF f, order
<1>7. CASE Write("FRAME_PUSH", values, <<>>, after) /\ Proceed(AfterPush(Tail(call.pushes)))
  <2>1. x.kind = "FRAME_PUSH" /\ x.deltas = Deltas(w, values) /\ RecordOK(x)
    <3> HIDE DEF values, data
    <3>1. x.kind = "FRAME_PUSH" /\ x.deltas = Deltas(w, values)
      BY DEF Record
    <3> HIDE DEF x
    <3> QED BY <1>2, <1>5, <3>1, DeltaRecord, FieldSets
  <2>2. Tells(w, x, after)
    <3>1. PushTold(w, x, after)
      BY <1>2, <1>4, <2>1 DEF PushTold
    <3> QED BY <3>1 DEF Tells
  <2>3. Same(w, Updated(w, values), "last")
    <3> HIDE DEF values
    <3> QED BY <1>2, <1>5, UpdatedLast, FieldSets DEF ViewOK
  <2>4. after.natives = w.natives
    <3>1. Same(Updated(w, values), after, "stacks")
      BY ChangedStack
    <3> HIDE DEF after
    <3> QED BY <2>3, <3>1 DEF Same
  <2>5. w' = after
    BY <1>7 DEF Write
  <2> HIDE DEF after, values
  <2>6. ViewOK(after)
    BY <1>2, <2>2, ToldIsView
  <2>7. call' \in {Idle, After(0, Tail(call.pushes))}
    BY <1>7 DEF Proceed, AfterPush
  <2>8. 0 <= Len(w'.stacks[call.tid])
    BY <1>2, <2>5, <2>6 DEF ViewOK
  <2>9. WorkOK(call', w') /\ (~failed => RightNode(call', w'))
    BY <1>3, <2>4, <2>5, <2>6, <2>7, <2>8, WorkLeft
  <2> QED BY <1>1, <1>7, <2>1, <2>2, <2>4, <2>9, WriteKeeps
<1>8. CASE Fail(Cached(values, order)) /\ Proceed(Abandoned)
  <2>1. w' \in Cached(values, order)
    BY <1>8 DEF Fail, Loses
  <2>2. ViewOK(w') /\ Same(w, w', "last")
    <3> HIDE DEF values
    <3>1. \A v \in Cached(values, order) : ViewOK(v) /\ Same(w, v, "last")
      BY <1>2, <1>5, <1>6, CachedViews, FieldSets
    <3> QED BY <2>1, <3>1
  <2>3. w'.stacks = w.stacks /\ w'.natives = w.natives /\ w'.images = w.images
    BY <2>2 DEF Same
  <2>4. WorkOK(call', w')
    BY <1>8, <2>2, <2>3, AbandonedWork
  <2> QED BY <1>1, <1>8, <2>2, <2>3, <2>4, FailKeeps
<1> QED BY <1>7, <1>8 DEF PushFrame, f, order

\* The event of an allocation that is written, native or not, is the last of its
\* method.
LEMMA KeepsAllocation ==
    ASSUME IInv, WriteAllocation
    PROVE  IInv'
<1> DEFINE a == call.allocation
           values == [data_pointer |-> a.address]
           order == <<"data_pointer">>
           e == Event(call.tid, a, 0, 0, StackOf(call.tid, a))
           after == WithEvent(Updated(w, values), e)
           data == <<a.allocator, a.size>>
           x == Record("ALLOCATION", Deltas(w, values), data)
<1>1. ~closed /\ UNCHANGED <<closed, reader>> /\ call' = Idle
  BY RunningIsOpen DEF WriterStep, WriteAllocation
<1>2. call.tid \in Tids /\ w.tid = call.tid /\ ViewOK(w)
  BY DEF IInv, Tracking, WorkOK, WriteAllocation, MayWriteAllocation, InThread
<1>3. a \in AllocationRecord /\ (a.allocator = "free" => a.size = 0)
  BY DEF IInv, Tracking, WorkOK, WriteAllocation, MayWriteAllocation
<1>4. values \in [{"data_pointer"} -> Words]
  <2>1. 0 \in Words
    BY WordAssumption DEF Words
  <2> QED BY <1>3, <2>1, AllocationValues
<1>5. order \in Seq({"data_pointer"})
  OBVIOUS
<1> HIDE DEF a, order
<1>6. CASE Write("ALLOCATION", values, <<a.allocator, a.size>>, after)
  <2>1. /\ x.kind = "ALLOCATION" /\ x.data = data
        /\ x.deltas = Deltas(w, values) /\ RecordOK(x)
    <3> HIDE DEF values, data
    <3>1. x.kind = "ALLOCATION" /\ x.deltas = Deltas(w, values) /\ x.data = data
      BY DEF Record
    <3> HIDE DEF x
    <3> QED BY <1>2, <1>4, <3>1, DeltaRecord, FieldSets
  <2>2. Tells(w, x, after)
    <3>1. AllocationTold(w, x, after)
      BY <1>2, <1>3, <2>1 DEF AllocationTold, StackOf
    <3> QED BY <3>1 DEF Tells
  <2>3. Same(w, Updated(w, values), "last")
    <3> HIDE DEF values
    <3> QED BY <1>2, <1>4, UpdatedLast, FieldSets DEF ViewOK
  <2>4. Same(Updated(w, values), after, "events")
    BY ChangedEvents
  <2>5. w' = after
    BY <1>6 DEF Write
  <2> HIDE DEF after, values
  <2>6. after.natives = w.natives
    BY <2>3, <2>4 DEF Same
  <2>7. WorkOK(call', w') /\ RightNode(call', w')
    BY <1>1, <1>2, <2>2, <2>5, ToldIsView, IdleWork
  <2> QED BY <1>1, <1>6, <2>1, <2>2, <2>6, <2>7, WriteKeeps
<1>7. CASE Fail(Cached(values, order))
  <2>1. w' \in Cached(values, order)
    BY <1>7 DEF Fail, Loses
  <2>2. ViewOK(w') /\ Same(w, w', "last")
    <3> HIDE DEF values
    <3>1. \A v \in Cached(values, order) : ViewOK(v) /\ Same(w, v, "last")
      BY <1>2, <1>4, <1>5, CachedViews, FieldSets
    <3> QED BY <2>1, <3>1
  <2>3. w'.natives = w.natives /\ w'.images = w.images /\ WorkOK(call', w')
    BY <1>1, <2>2, IdleWork DEF Same
  <2> QED BY <1>1, <1>7, <2>2, <2>3, FailKeeps
<1> QED BY <1>6, <1>7 DEF WriteAllocation, a, order

\* The same with the node of its native trace.
LEMMA KeepsNativeAllocation ==
    ASSUME IInv, WriteNativeAllocation
    PROVE  IInv'
<1> DEFINE a == call.allocation
           values == [data_pointer |-> a.address, native_frame_id |-> call.node]
           order == <<"data_pointer", "native_frame_id">>
           S == {"data_pointer", "native_frame_id"}
           e == Event(call.tid, a, call.node, Len(w.images), w.stacks[call.tid])
           after == WithEvent(Updated(w, values), e)
           data == <<a.allocator, a.size>>
           x == Record("ALLOCATION_WITH_NATIVE", Deltas(w, values), data)
<1>1. ~closed /\ UNCHANGED <<closed, reader>> /\ call' = Idle
  BY RunningIsOpen DEF WriterStep, WriteNativeAllocation
<1>2. call.tid \in Tids /\ w.tid = call.tid /\ ViewOK(w) /\ call.node \in Words /\ NativeTraces
  BY DEF IInv, Tracking, WorkOK, WriteNativeAllocation, MayWriteAllocation, InThread
<1>3. a \in AllocationRecord /\ (a.allocator = "free" => a.size = 0)
  BY DEF IInv, Tracking, WorkOK, WriteNativeAllocation, MayWriteAllocation
<1>4. values \in [S -> Words]
  BY <1>2, <1>3, AllocationValues
<1>5. order \in Seq(S)
  OBVIOUS
<1> HIDE DEF a, order
<1>6. CASE Write("ALLOCATION_WITH_NATIVE", values, <<a.allocator, a.size>>, after)
  <2>1. /\ x.kind = "ALLOCATION_WITH_NATIVE" /\ x.data = data
        /\ x.deltas = Deltas(w, values) /\ RecordOK(x)
    <3> HIDE DEF values, data
    <3>1. x.kind = "ALLOCATION_WITH_NATIVE" /\ x.deltas = Deltas(w, values) /\ x.data = data
      BY DEF Record
    <3> HIDE DEF x
    <3> QED BY <1>2, <1>4, <3>1, DeltaRecord, FieldSets
  <2>2. Tells(w, x, after)
    <3>1. NativeAllocationTold(w, x, after)
      BY <1>2, <1>3, <2>1 DEF NativeAllocationTold
    <3> QED BY <3>1 DEF Tells
  <2>3. Same(w, Updated(w, values), "last")
    <3> HIDE DEF values
    <3> QED BY <1>2, <1>4, UpdatedLast, FieldSets DEF ViewOK
  <2>4. Same(Updated(w, values), after, "events")
    BY ChangedEvents
  <2>5. w' = after
    BY <1>6 DEF Write
  <2> HIDE DEF after, values
  <2>6. after.natives = w.natives
    BY <2>3, <2>4 DEF Same
  <2>7. WorkOK(call', w') /\ RightNode(call', w')
    BY <1>1, <1>2, <2>2, <2>5, ToldIsView, IdleWork
  <2> QED BY <1>1, <1>6, <2>1, <2>2, <2>6, <2>7, WriteKeeps
<1>7. CASE Fail(Cached(values, order))
  <2>1. w' \in Cached(values, order)
    BY <1>7 DEF Fail, Loses
  <2>2. ViewOK(w') /\ Same(w, w', "last")
    <3> HIDE DEF values
    <3>1. \A v \in Cached(values, order) : ViewOK(v) /\ Same(w, v, "last")
      BY <1>2, <1>4, <1>5, CachedViews, FieldSets
    <3> QED BY <2>1, <3>1
  <2>3. w'.natives = w.natives /\ w'.images = w.images /\ WorkOK(call', w')
    BY <1>1, <2>2, IdleWork DEF Same
  <2> QED BY <1>1, <1>7, <2>2, <2>3, FailKeeps
<1> QED BY <1>6, <1>7 DEF WriteNativeAllocation, a, order

\* Images are what is left to write of a memory map.
LEMMA ImagesWork ==
    ASSUME NEW v, ViewOK(v), NEW images \in Seq(Images), images # <<>> => Len(v.images) > 0
    PROVE  LET c == Work(NoTid, NoName, 0, <<>>, images, <<>>, 0, 0, NoAllocation)
           IN WorkOK(c, v) /\ RightNode(c, v)
<1>1. 0 <= Len(v.stacks[NoTid])
  BY DEF ViewOK
<1>2. NoAllocation.allocator # "free"
  BY DEF NoAllocation
<1>3. NoTid \in Tids \cup {NoTid} /\ NoName \in Names \cup {NoName} /\ 0 \in Nat
      /\ <<>> \in Seq(RawFrame) /\ <<>> \in Seq(Ips)
      /\ NoAllocation \in AllocationRecord \cup {NoAllocation}
  OBVIOUS
<1> QED BY <1>1, <1>2, <1>3, FreshWork

\* An image belongs to a generation that has begun.
LEMMA KeepsSegments ==
    ASSUME IInv, WriteSegments
    PROVE  IInv'
<1> DEFINE g == Len(w.images)
           image == Head(call.images)
           left == Tail(call.images)
           images == [w.images EXCEPT ![g] = Append(@, image)]
           after == WithImages(w, images)
           x == Record("SEGMENT_HEADER", Deltas(w, NoValues), image)
<1>1. ~closed /\ UNCHANGED <<closed, reader>> /\ ViewOK(w)
  BY RunningIsOpen DEF WriterStep, WriteSegments, IInv, Tracking
<1>2. image \in Images /\ left \in Seq(Images) /\ g > 0
  <2>1. call.images \in Seq(Images) /\ call.images # <<>> /\ Len(w.images) > 0
    BY DEF IInv, Tracking, WorkOK, WriteSegments
  <2> QED BY <2>1
<1>3. CASE /\ Write("SEGMENT_HEADER", NoValues, image, after)
           /\ call' = Work(NoTid, NoName, 0, <<>>, left, <<>>, 0, 0, NoAllocation)
  <2> HIDE DEF image, left
  <2>1. x.kind = "SEGMENT_HEADER" /\ x.data = image /\ RecordOK(x)
    BY PlainRecord
  <2>2. Tells(w, x, after)
    BY <1>2, <2>1 DEF Tells, ImageTold
  <2>3. ViewOK(after)
    BY <1>1, <2>2, ToldIsView
  <2>4. after.images = images /\ after.natives = w.natives
    BY ChangedImages DEF Same
  <2>5. Len(images) = g
    BY <1>1 DEF ViewOK
  <2>6. w' = after
    BY <1>3 DEF Write
  <2> HIDE DEF after, images
  <2>7. WorkOK(call', w') /\ RightNode(call', w')
    BY <1>2, <1>3, <2>3, <2>4, <2>5, <2>6, ImagesWork
  <2> QED BY <1>1, <1>3, <2>1, <2>2, <2>4, <2>7, WriteKeeps
<1>4. CASE Fail({w}) /\ call' = Idle
  <2>1. w' = w
    BY <1>4 DEF Fail, Loses
  <2>2. WorkOK(call', w')
    BY <1>1, <1>4, <2>1, IdleWork
  <2> QED BY <1>1, <1>4, <2>1, <2>2, FailKeeps
<1> QED BY <1>3, <1>4 DEF WriteSegments

\* A memory map begins with a generation of no images.
LEMMA KeepsModuleCache ==
    ASSUME IInv, UpdateModuleCache
    PROVE  IInv'
<1> DEFINE after == WithImages(w, Append(w.images, <<>>))
           data == <<>>
           x == Record("MEMORY_MAP_START", Deltas(w, NoValues), data)
<1>1. ~closed /\ UNCHANGED <<closed, reader>> /\ ViewOK(w)
  BY DEF UpdateModuleCache, IInv, Tracking
<1>2. ASSUME Write("MEMORY_MAP_START", NoValues, data, after),
             NEW n \in 0..MaxImages, NEW images \in [1..n -> Images],
             call' = Work(NoTid, NoName, 0, <<>>, images, <<>>, 0, 0, NoAllocation)
      PROVE  IInv'
  <2> HIDE DEF data
  <2>1. x.kind = "MEMORY_MAP_START" /\ RecordOK(x)
    BY PlainRecord
  <2>2. Tells(w, x, after)
    <3>1. Len(w.images) <= Len(stream) /\ Len(stream) < MaxRecords
      BY DEF IInv, Tracking, UpdateModuleCache
    <3>2. Len(w.images) \in Nat /\ Len(stream) \in Nat /\ MaxRecords \in Nat
      BY AppendSequence, LimitAssumption DEF IInv, Tracking, History, ViewOK
    <3>3. Len(w.images) < MaxRecords
      BY <3>1, <3>2
    <3> QED BY <2>1, <3>3 DEF Tells, MapTold
  <2>3. ViewOK(after)
    BY <1>1, <2>2, ToldIsView
  <2>4. after.images = Append(w.images, <<>>) /\ after.natives = w.natives
    <3>1. Same(w, after, "images") /\ after.images = Append(w.images, <<>>)
      BY ChangedImages
    <3> HIDE DEF after
    <3> QED BY <3>1 DEF Same
  <2>5. Len(after.images) > 0
    BY <1>1, <2>4 DEF ViewOK
  <2>6. w' = after
    BY <1>2 DEF Write
  <2>7. images \in Seq(Images)
    <3>1. n \in Nat
      BY LimitAssumption
    <3> QED BY <3>1, SeqDef
  <2> HIDE DEF after
  <2>8. WorkOK(call', w') /\ RightNode(call', w')
    BY <1>2, <2>3, <2>5, <2>6, <2>7, ImagesWork
  <2> QED BY <1>1, <1>2, <2>1, <2>2, <2>4, <2>8, WriteKeeps
<1>3. CASE Fail({w}) /\ UNCHANGED call
  <2>1. w' = w
    BY <1>3 DEF Fail, Loses
  <2>2. WorkOK(call', w')
    BY <1>1, <1>3, <2>1, SameWork
  <2> QED BY <1>1, <1>3, <2>1, <2>2, FailKeeps
<1> QED BY <1>2, <1>3 DEF UpdateModuleCache

\* A memory record is about no thread.
LEMMA KeepsMemorySnapshot ==
    ASSUME IInv, CaptureMemorySnapshot
    PROVE  IInv'
<1>1. ~closed /\ UNCHANGED <<call, closed, reader>> /\ ViewOK(w)
  BY DEF CaptureMemorySnapshot, IInv, Tracking
<1>2. ASSUME NEW rss \in Sizes,
             Write("MEMORY_RECORD", NoValues, rss, WithEvent(w, [rss |-> rss]))
      PROVE  IInv'
  <2> DEFINE after == WithEvent(w, [rss |-> rss])
             x == Record("MEMORY_RECORD", Deltas(w, NoValues), rss)
  <2>1. x.kind = "MEMORY_RECORD" /\ x.data = rss /\ RecordOK(x)
    BY PlainRecord
  <2>2. Tells(w, x, after)
    BY <2>1 DEF Tells, MemoryTold
  <2>3. ViewOK(after)
    BY <1>1, <2>2, ToldIsView
  <2>4. after.natives = w.natives /\ after.stacks = w.stacks /\ after.images = w.images
    BY ChangedEvents DEF Same
  <2>5. w' = after
    BY <1>2 DEF Write
  <2>6. Write("MEMORY_RECORD", NoValues, rss, after)
    BY <1>2
  <2> HIDE DEF after
  <2>7. WorkOK(call', w') /\ (~failed => RightNode(call', w'))
    BY <1>1, <2>3, <2>4, <2>5, SameWork
  <2> QED BY <1>1, <2>1, <2>2, <2>4, <2>6, <2>7, WriteKeeps
<1>3. CASE Fail({w})
  <2>1. w' = w
    BY <1>3 DEF Fail, Loses
  <2>2. WorkOK(call', w')
    BY <1>1, <2>1, SameWork
  <2> QED BY <1>1, <1>3, <2>1, <2>2, FailKeeps
<1> QED BY <1>2, <1>3 DEF CaptureMemorySnapshot

\* A step of the tracker's that writes nothing.
LEMMA QuietKeeps ==
    ASSUME IInv, UNCHANGED <<w, active, lost, failed, stream, closed, past, reader>>,
           closed => call' = Idle, WorkOK(call', w), ~failed => RightNode(call', w)
    PROVE  IInv'
<1>1. History' /\ Reading'
  BY QuietStream
<1>2. Tracking'
  BY DEF IInv, Tracking
<1> QED BY <1>1, <1>2 DEF IInv

\* A method begins with work that fits.
LEMMA KeepsBegin ==
    ASSUME IInv, NEW t \in Tids,
           TrackAllocation(t) \/ TrackDeallocation(t) \/ ForgetPythonStack(t) \/ RegisterThreadName(t)
    PROVE  IInv'
<1>1. ViewOK(w) /\ t \in Tids \cup {NoTid} /\ NoName \in Names \cup {NoName}
  BY DEF IInv, Tracking
<1>2. /\ <<>> \in Seq(RawFrame) /\ <<>> \in Seq(Images) /\ <<>> \in Seq(Ips)
      /\ NoAllocation \in AllocationRecord \cup {NoAllocation} /\ NoAllocation.allocator # "free"
  BY DEF NoAllocation
<1>3. 0 \in Nat /\ 0 <= Len(w.stacks[t])
  BY <1>1 DEF ViewOK
<1>4. ASSUME NEW name, NEW work, Begin(name, work), WorkOK(work, w), RightNode(work, w)
      PROVE  IInv'
  BY <1>4, QuietKeeps DEF Begin
<1>5. CASE TrackAllocation(t)
  <2>1. PICK name \in Names \cup {NoName}, pops \in 0..MaxPops, n \in 0..MaxPushes,
             a \in AllocationRecord :
          /\ ~IsDeallocator(a.allocator) /\ pops <= Len(w.stacks[t])
          /\ \E pushes \in [1..n -> RawFrame],
                trace \in IF NativeTraces THEN {<<>>} \cup {<<i>> : i \in Ips} \cup (Ips \X Ips) ELSE {<<>>} :
              Begin("trackAllocation", Work(t, name, pops, pushes, <<>>, trace, 0, 0, a))
    BY <1>5 DEF TrackAllocation
  <2>2. PICK pushes \in [1..n -> RawFrame],
             trace \in IF NativeTraces THEN {<<>>} \cup {<<i>> : i \in Ips} \cup (Ips \X Ips) ELSE {<<>>} :
              Begin("trackAllocation", Work(t, name, pops, pushes, <<>>, trace, 0, 0, a))
    BY <2>1
  <2>3. pushes \in Seq(RawFrame) /\ pops \in Nat
    <3>1. n \in Nat
      BY LimitAssumption
    <3> QED BY <3>1, LimitAssumption, SeqDef
  <2>4. trace \in Seq(Ips)
    <3>1. CASE trace \in {<<i>> : i \in Ips}
      <4>1. PICK i \in Ips : trace = <<i>>
        BY <3>1
      <4> QED BY <4>1
    <3>2. CASE trace \in Ips \X Ips
      <4>1. trace = <<trace[1], trace[2]>> /\ trace[1] \in Ips /\ trace[2] \in Ips
        BY <3>2
      <4>2. \A i, j \in Ips : <<i, j>> \in Seq(Ips)
        OBVIOUS
      <4> QED BY <4>1, <4>2
    <3> QED BY <1>2, <3>1, <3>2
  <2>5. a.allocator = "free" => a.size = 0
    BY <2>1 DEF IsDeallocator
  <2> DEFINE work == Work(t, name, pops, pushes, <<>>, trace, 0, 0, a)
  <2>6. WorkOK(work, w) /\ RightNode(work, w)
    BY <1>1, <1>2, <2>1, <2>3, <2>4, <2>5, FreshWork
  <2> HIDE DEF work
  <2> QED BY <1>4, <2>2, <2>6 DEF work
<1>6. CASE TrackDeallocation(t)
  <2>1. PICK name \in Names \cup {NoName}, a \in AllocationRecord :
          /\ a.size \in IF a.allocator = "free" THEN {0} ELSE Sizes
          /\ Begin("trackDeallocation", Work(t, name, 0, <<>>, <<>>, <<>>, 0, 0, a))
    BY <1>6 DEF TrackDeallocation
  <2> DEFINE work == Work(t, name, 0, <<>>, <<>>, <<>>, 0, 0, a)
  <2>2. WorkOK(work, w) /\ RightNode(work, w)
    BY <1>1, <1>2, <1>3, <2>1, FreshWork
  <2> HIDE DEF work
  <2> QED BY <1>4, <2>1, <2>2 DEF work
<1>7. CASE ForgetPythonStack(t)
  <2>1. PICK pops \in 1..MaxPops :
          /\ pops <= Len(w.stacks[t])
          /\ Begin("forgetPythonStack", Work(t, NoName, pops, <<>>, <<>>, <<>>, 0, 0, NoAllocation))
    BY <1>7 DEF ForgetPythonStack
  <2> DEFINE work == Work(t, NoName, pops, <<>>, <<>>, <<>>, 0, 0, NoAllocation)
  <2>2. pops \in Nat
    BY LimitAssumption
  <2>3. WorkOK(work, w) /\ RightNode(work, w)
    BY <1>1, <1>2, <2>1, <2>2, FreshWork
  <2> HIDE DEF work
  <2> QED BY <1>4, <2>1, <2>3 DEF work
<1>8. CASE RegisterThreadName(t)
  <2>1. PICK name \in Names :
          Begin("registerThreadName", Work(t, name, 0, <<>>, <<>>, <<>>, 0, 0, NoAllocation))
    BY <1>8 DEF RegisterThreadName
  <2> DEFINE work == Work(t, name, 0, <<>>, <<>>, <<>>, 0, 0, NoAllocation)
  <2>2. WorkOK(work, w) /\ RightNode(work, w)
    BY <1>1, <1>2, <1>3, FreshWork
  <2> HIDE DEF work
  <2> QED BY <1>4, <2>1, <2>2 DEF work
<1> QED BY <1>5, <1>6, <1>7, <1>8

\* What is left of the native trace once more of it is found.
LEMMA TraceWork ==
    ASSUME IInv, MayFindNode, NEW v, ViewOK(v), v.stacks = w.stacks,
           NEW node \in Words, node \in 0..(Len(v.natives) + 1)
    PROVE  /\ WorkOK(AfterTrace(call.found + 1, node), v)
           /\ call.trace \in Seq(Ips) /\ call.found \in Nat /\ call.found + 1 <= Len(call.trace)
           /\ NextInTrace \in Ips
<1> DEFINE c == AfterTrace(call.found + 1, node)
<1>1. /\ c.tid = call.tid /\ c.name = NoName /\ c.pops = 0 /\ c.pushes = <<>> /\ c.images = <<>>
      /\ c.trace = call.trace /\ c.found = call.found + 1 /\ c.node = node
      /\ c.allocation = call.allocation
  BY DEF AfterTrace, Work
<1>2. /\ call.tid \in Tids \cup {NoTid} /\ call.trace \in Seq(Ips)
      /\ call.found \in 0..Len(call.trace) /\ call.found # Len(call.trace)
      /\ call.allocation \in AllocationRecord \cup {NoAllocation}
      /\ call.allocation.allocator = "free" => call.allocation.size = 0
  BY DEF IInv, Tracking, WorkOK, MayFindNode, TraceFound
<1>3. call.found \in Nat /\ call.found + 1 <= Len(call.trace) /\ call.found + 1 \in 0..Len(call.trace)
  BY <1>2
<1>4. NextInTrace \in Ips
  BY <1>2, <1>3 DEF NextInTrace
<1>5. 0 <= Len(v.stacks[call.tid])
  BY <1>2 DEF ViewOK
<1>6. <<>> \in Seq(RawFrame) /\ <<>> \in Seq(Images)
  OBVIOUS
<1> HIDE DEF c
<1>7. WorkOK(c, v)
  BY <1>1, <1>2, <1>3, <1>5, <1>6 DEF WorkOK
<1> QED BY <1>2, <1>3, <1>4, <1>7 DEF c

\* One more frame of a trace.
LEMMA OneMore ==
    ASSUME NEW trace \in Seq(Ips), NEW n \in Nat, n + 1 <= Len(trace)
    PROVE  Append(SubSeq(trace, 1, n), trace[n + 1]) = SubSeq(trace, 1, n + 1)
<1>1. /\ SubSeq(trace, 1, n + 1) \in Seq(Ips) /\ Len(SubSeq(trace, 1, n + 1)) = n + 1
      /\ \A i \in 1..(n + 1) : SubSeq(trace, 1, n + 1)[i] = trace[i]
  OBVIOUS
<1>2. /\ SubSeq(trace, 1, n) \in Seq(Ips) /\ Len(SubSeq(trace, 1, n)) = n
      /\ \A i \in 1..n : SubSeq(trace, 1, n)[i] = trace[i]
  OBVIOUS
<1> DEFINE s == SubSeq(trace, 1, n)
           more == SubSeq(trace, 1, n + 1)
           t == Append(s, trace[n + 1])
<1>3. trace[n + 1] \in Ips
  OBVIOUS
<1> HIDE DEF s, more
<1>4. t \in Seq(Ips) /\ Len(t) = n + 1 /\ t[n + 1] = trace[n + 1] /\ \A i \in 1..n : t[i] = s[i]
  BY <1>2, <1>3 DEF s
<1> HIDE DEF t
<1>5. ASSUME NEW i \in 1..(n + 1) PROVE t[i] = more[i]
  <2>1. CASE i = n + 1
    BY <1>1, <1>4, <2>1 DEF more
  <2>2. CASE i # n + 1
    <3>1. i \in 1..n
      BY <2>2
    <3> QED BY <1>1, <1>2, <1>4, <3>1 DEF more, s
  <2> QED BY <2>1, <2>2
<1>6. t = more
  BY <1>1, <1>4, <1>5, SeqEqual DEF more
<1> QED BY <1>6 DEF t, more, s

\* Without a failure, the child that is found is the node of one more frame.
LEMMA KeepsFind ==
    ASSUME IInv, FindNode
    PROVE  IInv'
<1> DEFINE id == NodeId(NextInTrace, call.node)
           c == AfterTrace(call.found + 1, id)
           N == Len(w.natives)
<1>1. MayFindNode /\ ~closed /\ call.node <= N /\ ViewOK(w)
  BY RunningIsOpen DEF WriterStep, FindNode, IInv, Tracking
<1>2. PICK e \in Edges : e.node = Node(NextInTrace, call.node) /\ e.child = id
  BY DEF FindNode, KnownNode, NodeId
<1>3. N \in Nat /\ N < Word /\ w.natives \in Tree
  BY <1>1 DEF ViewOK, Tree
<1>4. ASSUME e \notin lost
      PROVE  /\ id \in 1..N /\ id \in Words
             /\ w.natives[id] = Node(NextInTrace, call.node)
  <2>1. PICK i \in 1..N : e = Edge(w.natives[i], i)
    BY <1>2, <1>4 DEF Edges
  <2>2. id = i /\ w.natives[i] = Node(NextInTrace, call.node)
    BY <1>2, <2>1 DEF Edge
  <2>3. i \in Words
    BY <1>3, WordAssumption DEF Words
  <2> QED BY <2>1, <2>2, <2>3
<1>5. id \in Words /\ id \in 0..(N + 1)
  <2>1. CASE e \in lost
    BY <1>2, <1>3, <2>1 DEF IInv, Tracking
  <2>2. CASE e \notin lost
    BY <1>3, <1>4, <2>2
  <2> QED BY <2>1, <2>2
<1>6. /\ WorkOK(c, w) /\ call.trace \in Seq(Ips) /\ call.found \in Nat
      /\ call.found + 1 <= Len(call.trace)
  <2> HIDE DEF id
  <2> QED BY <1>1, <1>5, TraceWork
<1>7. ASSUME ~failed PROVE RightNode(c, w)
  <2>1. lost = {} /\ RightNode(call, w)
    BY <1>7 DEF IInv, Tracking
  <2>2. id \in 1..N /\ w.natives[id] = Node(NextInTrace, call.node)
    BY <1>4, <2>1
  <2> HIDE DEF id
  <2>3. Grows(w.natives, Traces(w.natives), id)
    BY <1>3, <2>2, TracesGrow
  <2>4. Traces(w.natives)[id] = Append(Traces(w.natives)[call.node], NextInTrace)
    BY <1>3, <2>2, <2>3 DEF Grows, Node
  <2>5. Traces(w.natives)[call.node] = SubSeq(call.trace, 1, call.found)
    BY <2>1 DEF RightNode
  <2>6. Traces(w.natives)[id] = SubSeq(call.trace, 1, call.found + 1)
    BY <1>6, <2>4, <2>5, OneMore DEF NextInTrace
  <2>7. c.node = id /\ c.trace = call.trace /\ c.found = call.found + 1
    BY DEF AfterTrace, Work
  <2> QED BY <1>3, <2>2, <2>6, <2>7 DEF RightNode
<1>8. call' = c
  BY DEF FindNode
<1> HIDE DEF c
<1> QED BY <1>1, <1>6, <1>7, <1>8, QuietKeeps DEF FindNode

\* The trace of a new node is that of no other.
LEMMA NewTrace ==
    ASSUME NEW natives \in Tree, NoTwins(natives), NEW ip \in Ips, NEW index \in 0..Len(natives),
           \A i \in 1..Len(natives) : natives[i] # Node(ip, index)
    PROVE  NoTwins(Append(natives, Node(ip, index)))
<1> DEFINE N == Len(natives)
           more == Append(natives, Node(ip, index))
           new == Append(Traces(natives)[index], ip)
<1>1. /\ N \in Nat
      /\ \A i \in 1..N : natives[i].index \in 0..N /\ natives[i] = Node(natives[i].ip, natives[i].index)
      /\ \A i \in 1..N : natives[i].ip \in Ips
  <2> DEFINE Nodes == [ip : Ips, index : Nat]
  <2>1. natives \in Seq(Nodes) /\ \A i \in 1..N : natives[i].index \in 0..(i - 1)
    BY DEF Tree
  <2>2. \A x \in Nodes : x = Node(x.ip, x.index) /\ x.ip \in Ips
    BY DEF Node
  <2> HIDE DEF Nodes
  <2> QED BY <2>1, <2>2
<1>2. /\ \A n \in 0..N : Traces(more)[n] = Traces(natives)[n]
      /\ Traces(more)[N + 1] = new
  BY TracesOfMore
<1>3. Len(more) = N + 1
  BY DEF Tree
<1>4. \A n \in 0..N : Traces(natives)[n] \in Seq(Ips) /\ Grows(natives, Traces(natives), n)
  BY TracesType, TracesGrow
<1>5. ASSUME NEW m \in 0..N PROVE Traces(natives)[m] # new
  <2> SUFFICES ASSUME Traces(natives)[m] = new PROVE FALSE
    OBVIOUS
  <2>1. new # <<>>
    BY <1>4
  <2>2. m # 0
    BY <1>4, <2>1 DEF Grows
  <2>3. m \in 1..N
    BY <2>2
  <2>4. Append(Traces(natives)[natives[m].index], natives[m].ip) = new
    BY <1>4, <2>2 DEF Grows
  <2>5. Traces(natives)[natives[m].index] \in Seq(Ips) /\ Traces(natives)[index] \in Seq(Ips)
    BY <1>1, <1>4, <2>3
  <2>6. natives[m].ip = ip /\ Traces(natives)[natives[m].index] = Traces(natives)[index]
    <3>1. \A s, t \in Seq(Ips), e, f \in Ips : Append(s, e) = Append(t, f) => s = t /\ e = f
      BY AppendInjective
    <3>2. natives[m].ip \in Ips
      BY <1>1, <2>3
    <3> DEFINE s == Traces(natives)[natives[m].index]
               t == Traces(natives)[index]
               e == natives[m].ip
    <3>3. s \in Seq(Ips) /\ t \in Seq(Ips) /\ e \in Ips /\ Append(s, e) = Append(t, ip)
      BY <2>4, <2>5, <3>2
    <3> HIDE DEF s, t, e
    <3>4. e = ip /\ s = t
      BY <3>1, <3>3
    <3> QED BY <3>4 DEF s, t, e
  <2>7. natives[m].index = index
    BY <1>1, <2>3, <2>6 DEF NoTwins
  <2>8. natives[m] = Node(ip, index)
    BY <1>1, <2>3, <2>6, <2>7
  <2> QED BY <2>3, <2>8
<1> HIDE DEF more, new
<1>6. ASSUME NEW m \in 0..(N + 1), NEW n \in 0..(N + 1), Traces(more)[m] = Traces(more)[n]
      PROVE  m = n
  <2>1. CASE m \in 0..N /\ n \in 0..N
    BY <1>2, <1>6, <2>1 DEF NoTwins
  <2>2. CASE m \in 0..N /\ n = N + 1
    BY <1>2, <1>5, <1>6, <2>2
  <2>3. CASE m = N + 1 /\ n \in 0..N
    BY <1>2, <1>5, <1>6, <2>3
  <2>4. CASE m = N + 1 /\ n = N + 1
    BY <2>4
  <2> QED BY <1>1, <2>1, <2>2, <2>3, <2>4
<1>7. NoTwins(more)
  BY <1>3, <1>6 DEF NoTwins
<1> QED BY <1>7 DEF more

\* A node that is written is new; one that is lost leaves its edge.
LEMMA KeepsNode ==
    ASSUME IInv, RegisterNode
    PROVE  IInv'
<1> DEFINE ip == NextInTrace
           index == call.node
           N == Len(w.natives)
           values == [instruction_pointer |-> ip, native_frame_id |-> index]
           order == <<"instruction_pointer", "native_frame_id">>
           S == {"instruction_pointer", "native_frame_id"}
           more == Append(w.natives, Node(ip, index))
           after == WithNatives(Updated(w, values), more)
           data == <<>>
           x == Record("NATIVE_TRACE_INDEX", Deltas(w, values), data)
<1>1. ~closed /\ UNCHANGED <<closed, reader>> /\ MayFindNode /\ ViewOK(w)
  BY RunningIsOpen DEF WriterStep, RegisterNode, IInv, Tracking
<1>2. /\ N \in Nat /\ N < Word - 1 /\ w.natives \in Tree /\ index \in 0..N
      /\ ~KnownNode(ip, index)
  <2>1. ViewOK(w) /\ N < Word - 1 /\ index \in 0..N /\ ~KnownNode(ip, index)
    BY DEF RegisterNode, IInv, Tracking, WorkOK
  <2> QED BY <2>1 DEF ViewOK, Tree
<1>3. 0 \in Words /\ N + 1 \in Words
  BY <1>2, WordAssumption DEF Words
<1>4. /\ ip \in Ips /\ call.trace \in Seq(Ips) /\ call.found \in Nat
      /\ call.found + 1 <= Len(call.trace)
  BY <1>1, <1>2, <1>3, TraceWork
<1>5. NoTwins(more)
  <2>1. ASSUME NEW i \in 1..N PROVE w.natives[i] # Node(ip, index)
    <3>1. Edge(w.natives[i], i) \in Edges
      BY DEF Edges
    <3>2. Edge(w.natives[i], i).node # Node(ip, index)
      BY <1>2, <3>1 DEF KnownNode
    <3> QED BY <3>2 DEF Edge
  <2>2. NoTwins(w.natives)
    BY DEF IInv, Tracking
  <2> HIDE DEF ip, index
  <2> QED BY <1>2, <1>4, <2>1, <2>2, NewTrace
<1>6. values \in [S -> Words]
  <2> HIDE DEF ip, index
  <2> QED BY <1>1, <1>2, <1>4, NodeValues
<1>7. CASE /\ Write("NATIVE_TRACE_INDEX", values, <<>>, after)
           /\ call' = AfterTrace(call.found + 1, N + 1)
  <2> HIDE DEF ip, index
  <2>1. x.kind = "NATIVE_TRACE_INDEX" /\ x.deltas = Deltas(w, values) /\ RecordOK(x)
    <3> HIDE DEF values, data
    <3>1. x.kind = "NATIVE_TRACE_INDEX" /\ x.deltas = Deltas(w, values)
      BY DEF Record
    <3> HIDE DEF x
    <3> QED BY <1>1, <1>6, <3>1, DeltaRecord, FieldSets
  <2>2. NodeTold(w, x, after)
    BY <1>2, <1>4, <2>1 DEF NodeTold
  <2>3. w' = after
    BY <1>7 DEF Write
  <2>4. Written(x)
    BY <1>1, <1>7, <2>1, <2>2, <2>3 DEF Written, Write, Tells
  <2>5. History' /\ Reading' /\ ViewOK(w') /\ Len(w'.images) <= Len(stream')
    BY <2>4, WrittenStream
  <2>6. Same(w, Updated(w, values), "last")
    <3> HIDE DEF values
    <3> QED BY <1>1, <1>6, UpdatedLast, FieldSets DEF ViewOK
  <2>7. Same(Updated(w, values), after, "natives") /\ after.natives = more
    BY ChangedNatives
  <2> HIDE DEF values, after, x
  <2>8. w'.stacks = w.stacks /\ w'.natives = more
    BY <2>3, <2>6, <2>7 DEF Same
  <2>9. Len(more) = N + 1
    BY <1>2 DEF Tree
  <2>10. N + 1 \in 0..(Len(w'.natives) + 1)
    BY <1>2, <2>8, <2>9
  <2>11. WorkOK(call', w')
    BY <1>1, <1>3, <1>7, <2>5, <2>8, <2>10, TraceWork
  <2>12. ASSUME ~failed PROVE RightNode(call', w')
    <3>1. Traces(w.natives)[index] = SubSeq(call.trace, 1, call.found)
      BY <2>12 DEF IInv, Tracking, RightNode, index
    <3>2. Traces(more)[N + 1] = Append(Traces(w.natives)[index], ip)
      BY <1>2, <1>4, TracesOfMore
    <3>3. Traces(more)[N + 1] = SubSeq(call.trace, 1, call.found + 1)
      BY <1>4, <3>1, <3>2, OneMore DEF NextInTrace, ip
    <3>4. call'.node = N + 1 /\ call'.trace = call.trace /\ call'.found = call.found + 1
      BY <1>7 DEF AfterTrace, Work
    <3> QED BY <1>2, <2>8, <2>9, <3>3, <3>4 DEF RightNode
  <2>13. \A e \in lost : e.child \in 1..(Len(w'.natives) + 1) /\ e.child \in Words
    <3>1. \A e \in lost : e.child \in 1..(N + 1) /\ e.child \in Words
      BY DEF IInv, Tracking
    <3> QED BY <1>2, <2>8, <2>9, <3>1
  <2>14. UNCHANGED <<active, lost, failed, closed>>
    BY <1>1, <1>7 DEF Write
  <2>15. NoTwins(w'.natives)
    BY <1>5, <2>8
  <2>16. Tracking'
    BY <1>1, <2>5, <2>11, <2>12, <2>13, <2>14, <2>15 DEF IInv, Tracking
  <2> QED BY <2>5, <2>16 DEF IInv
<1>8. CASE /\ Loses(Cached(values, order))
           /\ lost' = lost \cup {Edge(Node(ip, index), N + 1)}
           /\ call' = AfterTrace(call.found + 1, 0)
           /\ UNCHANGED active
  <2>1. order \in Seq(S)
    OBVIOUS
  <2>2. w' \in Cached(values, order)
    BY <1>8 DEF Loses
  <2> HIDE DEF ip, index, order, values
  <2>3. ViewOK(w') /\ Same(w, w', "last")
    <3>1. \A v \in Cached(values, order) : ViewOK(v) /\ Same(w, v, "last")
      BY <1>1, <1>6, <2>1, CachedViews, FieldSets
    <3> QED BY <2>2, <3>1
  <2>4. w'.natives = w.natives /\ w'.stacks = w.stacks /\ w'.images = w.images
    BY <2>3 DEF Same
  <2>5. History' /\ Reading' /\ Len(w'.images) <= Len(stream')
    <3>1. Missed
      BY <1>1, <1>8 DEF Missed, Loses
    <3> QED BY <2>4, <3>1, MissedStream
  <2>6. 0 \in 0..(Len(w'.natives) + 1)
    BY <1>2, <2>4
  <2>7. WorkOK(call', w')
    BY <1>1, <1>3, <1>8, <2>3, <2>4, <2>6, TraceWork
  <2>8. \A e \in lost' : e.child \in 1..(Len(w'.natives) + 1) /\ e.child \in Words
    <3>1. \A e \in lost : e.child \in 1..(N + 1) /\ e.child \in Words
      BY DEF IInv, Tracking
    <3>2. Edge(Node(ip, index), N + 1).child = N + 1 /\ N + 1 \in 1..(N + 1)
      BY <1>2 DEF Edge
    <3> QED BY <1>3, <1>8, <2>4, <3>1, <3>2
  <2>9. failed' = TRUE /\ active' = active /\ closed' = FALSE /\ active \in BOOLEAN
    BY <1>1, <1>8 DEF Loses, IInv, Tracking
  <2>10. NoTwins(w'.natives)
    BY <2>4 DEF IInv, Tracking
  <2>11. Tracking'
    BY <2>3, <2>5, <2>7, <2>8, <2>9, <2>10 DEF Tracking
  <2> QED BY <2>5, <2>11 DEF IInv
<1> QED
  <2>1. Node(ip, index).ip = ip /\ Node(ip, index).index = index
    BY DEF Node
  <2> QED BY <1>7, <1>8, <2>1 DEF RegisterNode

\* The writer is gone.
LEMMA EndKeeps ==
    ASSUME IInv, Ended, call' = Idle, UNCHANGED <<active, lost>>
    PROVE  IInv'
<1>1. History' /\ Reading' /\ Len(w.images) <= Len(stream')
  BY MissedStream
<1>2. w' = w /\ failed' = failed /\ closed' = TRUE /\ ViewOK(w)
  BY DEF Ended, IInv, Tracking
<1>3. WorkOK(call', w') /\ RightNode(call', w')
  BY <1>2, IdleWork
<1>4. /\ active' \in BOOLEAN /\ failed' \in BOOLEAN /\ closed' \in BOOLEAN
      /\ ~active' \/ lost' # {} => failed'
  BY <1>2 DEF IInv, Tracking
<1>5. /\ NoTwins(w'.natives)
      /\ \A e \in lost' : e.child \in 1..(Len(w'.natives) + 1) /\ e.child \in Words
  BY <1>2 DEF IInv, Tracking
<1>6. Tracking'
  BY <1>1, <1>2, <1>3, <1>4, <1>5 DEF Tracking
<1> QED BY <1>1, <1>6 DEF IInv

\* Whatever the tracker does.
LEMMA KeepsTracker ==
    ASSUME IInv,
           \/ WriterStep \/ CaptureMemorySnapshot \/ UpdateModuleCache \/ Close \/ Kill
           \/ \E t \in Tids : TrackAllocation(t) \/ TrackDeallocation(t)
                              \/ ForgetPythonStack(t) \/ RegisterThreadName(t)
    PROVE  IInv'
<1>1. CASE FollowLostEdge
  BY <1>1, EndKeeps DEF FollowLostEdge, Ended
<1>2. CASE Close
  <2>1. Ended /\ call' = Idle
    BY <1>2 DEF Close, Ended
  <2> QED BY <1>2, <2>1, EndKeeps DEF Close
<1>3. CASE Kill
  <2>1. Ended /\ call' = Idle
    BY <1>3 DEF Kill, Ended
  <2> QED BY <1>3, <2>1, EndKeeps DEF Kill
<1> QED
  BY <1>1, <1>2, <1>3, KeepsContextSwitch, KeepsThreadRecord, KeepsFramePop, KeepsFrame, KeepsPush,
     KeepsFind, KeepsNode, KeepsAllocation, KeepsNativeAllocation, KeepsSegments, KeepsModuleCache,
     KeepsMemorySnapshot, KeepsBegin DEF WriterStep

-----------------------------------------------------------------------------
(* The reader's steps *)

\* Whatever record it reads, a reader's last values stay words and its thread a
\* thread.
LEMMA ReaderTypes ==
    ASSUME IInv, ReaderStep
    PROVE  /\ r'.tid \in Tids \cup {NoTid} /\ r'.last \in [Fields -> Words]
           /\ rstate = "reading" /\ UNCHANGED writer /\ pos' \in 0..Len(stream)
           /\ rstate' \in {"reading", "end", "error", "garbled", "undefined"}
           /\ rstate' = "reading" => pos' = pos + 1
<1> DEFINE m == Updated(r, Values(r, Current.deltas))
           Typed(v) == v.tid \in Tids \cup {NoTid} /\ v.last \in [Fields -> Words]
           Moves(v) == v.last \in {r.last, m.last} /\ v.tid = r.tid
<1>1. /\ pos \in Nat /\ pos <= Len(stream) /\ Len(stream) \in Nat
      /\ r.tid \in Tids \cup {NoTid} /\ r.last \in [Fields -> Words]
  <2>1. Len(stream) \in Nat
    BY AppendSequence DEF IInv, History
  <2> QED BY <2>1 DEF IInv, Reading
<1>2. /\ rstate = "reading" /\ UNCHANGED writer
      /\ \/ pos' = pos + 1 /\ pos < Len(stream)
         \/ pos' = pos /\ r' = r /\ rstate' \in {"end", "garbled", "error"}
         \/ /\ pos' = pos /\ pos < Len(stream)
            /\ r' = WithName(r, r.tid, CutOff) /\ rstate' = "end"
  BY DEF ReaderStep, ReadContextSwitch, ReadFrameIndex, ReadFramePush, ReadFramePop,
     ReadNativeFrameIndex, ReadAllocation, ReadNativeAllocation, ReadThreadRecord, ReadMemoryRecord,
     ReadMemoryMapStart, ReadSegmentHeader, ReadTrailer, ReadEndOfFile, ReadTorn, Reads, Stops
<1>3. rstate' \in {"reading", "end", "error", "garbled", "undefined"}
  BY <1>2 DEF ReaderStep, ReadContextSwitch, ReadFrameIndex, ReadFramePush, ReadFramePop,
     ReadNativeFrameIndex, ReadAllocation, ReadNativeAllocation, ReadThreadRecord, ReadMemoryRecord,
     ReadMemoryMapStart, ReadSegmentHeader, ReadTrailer, ReadEndOfFile, ReadTorn, Goes, Stops
<1>4. ASSUME pos < Len(stream) PROVE Typed(m) /\ m.tid = r.tid
  <2>1. RecordOK(Current)
    <3>1. pos + 1 \in 1..Len(stream)
      BY <1>1, <1>4
    <3> QED BY <3>1 DEF IInv, History, Current
  <2> DEFINE d == Current.deltas
             values == Values(r, d)
  <2>2. /\ DOMAIN values = DOMAIN d
        /\ \A f \in DOMAIN d : values[f] = Wrap(r.last[f] + d[f])
    BY DEF Values
  <2>3. ASSUME NEW f \in Fields, f \in DOMAIN d PROVE values[f] \in Words
    <3>1. d[f] \in Words /\ r.last[f] \in Words
      BY <1>1, <2>1, <2>3 DEF RecordOK
    <3>2. \A a, b \in Words : Wrap(a + b) \in Words
      BY WordAssumption DEF Words, Wrap
    <3> QED BY <2>2, <2>3, <3>1, <3>2
  <2> HIDE DEF values
  <2>4. m.last = [f \in Fields |-> IF f \in DOMAIN values THEN values[f] ELSE r.last[f]]
    BY ChangedLast DEF Updated, values
  <2>5. m.tid = r.tid
    BY ChangedLast DEF Updated, Same
  <2> HIDE DEF m, d
  <2> QED BY <1>1, <2>2, <2>3, <2>4, <2>5
<1>5. CASE ReadContextSwitch
  <2>1. RecordOK(Current)
    <3>1. pos + 1 \in 1..Len(stream)
      BY <1>1, <1>5 DEF ReadContextSwitch, Reads
    <3> QED BY <3>1 DEF IInv, History, Current
  <2>2. r'.tid = Current.data /\ r'.last = r.last
    BY <1>5, ChangedTid DEF ReadContextSwitch, Goes, Same
  <2>3. Current.data \in Tids
    BY <1>5, <2>1 DEF ReadContextSwitch, Reads, RecordOK
  <2> QED BY <1>1, <1>2, <1>3, <2>2, <2>3
<1>6. CASE ~ReadContextSwitch
  <2>1. Moves(r')
    <3>1. m.tid = r.tid
      BY ChangedLast DEF Updated, Same
    <3>2. CASE r' = r
      BY <3>2
    <3>3. CASE ReadFrameIndex /\ r' # r
      <4>1. \E frames : r' = WithFrames(m, frames)
        BY <3>3 DEF ReadFrameIndex, Goes, Stops
      <4> HIDE DEF m
      <4> QED BY <3>1, <4>1, ChangedFrames DEF Same
    <3>4. CASE ReadFramePush
      <4>1. PICK t, stack : r' = WithStack(m, t, stack)
        BY <3>4 DEF ReadFramePush, Goes
      <4> HIDE DEF m
      <4>2. Same(m, r', "stacks")
        BY <4>1, ChangedStack
      <4> QED BY <3>1, <4>2 DEF Same
    <3>5. CASE ReadFramePop /\ r' # r
      <4>1. PICK t, stack : r' = WithStack(r, t, stack)
        BY <3>5 DEF ReadFramePop, Goes, Stops
      <4>2. Same(r, r', "stacks")
        BY <4>1, ChangedStack
      <4> QED BY <4>2 DEF Same
    <3>6. CASE ReadNativeFrameIndex
      <4>1. \E natives : r' = WithNatives(m, natives)
        BY <3>6 DEF ReadNativeFrameIndex, Goes
      <4> HIDE DEF m
      <4> QED BY <3>1, <4>1, ChangedNatives DEF Same
    <3>7. CASE ReadAllocation \/ ReadNativeAllocation
      <4>1. \E e : r' = WithEvent(m, e)
        BY <3>7 DEF ReadAllocation, ReadNativeAllocation, Goes
      <4> HIDE DEF m
      <4> QED BY <3>1, <4>1, ChangedEvents DEF Same
    <3>8. CASE ReadThreadRecord
      BY <3>8, ChangedName DEF ReadThreadRecord, Goes, Same
    <3>9. CASE ReadMemoryRecord
      BY <3>9, ChangedEvents DEF ReadMemoryRecord, Goes, Same
    <3>10. CASE ReadMemoryMapStart
      BY <3>10, ChangedImages DEF ReadMemoryMapStart, Goes, Same
    <3>11. CASE ReadSegmentHeader /\ r' # r
      <4>1. \E images : r' = WithImages(r, images)
        BY <3>11 DEF ReadSegmentHeader, Goes, Stops
      <4> QED BY <4>1, ChangedImages DEF Same
    <3>12. CASE ReadTrailer \/ ReadEndOfFile \/ ReadTorn
      BY <3>2, <3>12, ChangedName DEF ReadTrailer, ReadEndOfFile, ReadTorn, Stops, Same
    <3> HIDE DEF m
    <3> QED BY <1>6, <3>2, <3>3, <3>4, <3>5, <3>6, <3>7, <3>8, <3>9, <3>10, <3>11, <3>12 DEF ReaderStep
  <2>2. Typed(r')
    <3> HIDE DEF m
    <3> QED BY <1>1, <1>2, <1>4, <2>1
  <2> HIDE DEF m
  <2> QED BY <1>1, <1>2, <1>3, <2>2
<1> QED BY <1>5, <1>6

\* Without a failure, the record beyond what was told is the last, torn or a
\* trailer.
LEMMA BeyondTold ==
    ASSUME IInv, ~failed, pos + 1 >= Len(past), pos < Len(stream)
    PROVE  closed /\ pos + 1 = Len(stream) /\ Current.kind \in {"TORN", "TRAILER"}
<1>1. Len(stream) \in Nat /\ Len(past) \in Nat /\ pos \in Nat
  BY AppendSequence DEF IInv, History, Reading
<1>2. \/ Len(stream) = Len(past) - 1
      \/ closed /\ Len(stream) = Len(past) /\ stream[Len(stream)].kind \in {"TORN", "TRAILER"}
  BY DEF IInv, History
<1>3. closed /\ Len(stream) = Len(past) /\ stream[Len(stream)].kind \in {"TORN", "TRAILER"}
  BY <1>1, <1>2
<1>4. pos + 1 = Len(stream)
  BY <1>1, <1>3
<1> QED BY <1>3, <1>4 DEF Current

\* A reader's step keeps it in step.
LEMMA KeepsReader ==
    ASSUME IInv, ReaderStep
    PROVE  IInv'
<1>1. /\ r'.tid \in Tids \cup {NoTid} /\ r'.last \in [Fields -> Words]
      /\ rstate = "reading" /\ UNCHANGED writer /\ pos' \in 0..Len(stream)
      /\ rstate' \in {"reading", "end", "error", "garbled", "undefined"}
      /\ rstate' = "reading" => pos' = pos + 1
  BY ReaderTypes
<1>2. /\ call' = call /\ w' = w /\ active' = active /\ lost' = lost /\ failed' = failed
      /\ stream' = stream /\ closed' = closed /\ past' = past
  BY <1>1 DEF writer
<1>3. Tracking' /\ History'
  BY <1>2 DEF IInv, Tracking, History
<1>4. Len(stream) \in Nat /\ Len(past) \in Nat /\ pos \in Nat /\ Len(past) <= Len(stream) + 1
  BY AppendSequence DEF IInv, History, Reading
<1>5. CASE pos + 1 < Len(past)
  <2>1. PICK p : p = past[pos + 1]
    OBVIOUS
  <2>2. PICK u : u = past[pos + 2]
    OBVIOUS
  <2>3. pos + 1 \in 1..(Len(past) - 1) /\ pos + 1 \in 1..Len(past) /\ pos < Len(stream)
    BY <1>4, <1>5
  <2>4. ViewOK(p) /\ Tells(p, Current, u)
    <3>1. \A i \in 1..(Len(past) - 1) : Tells(past[i], stream[i], past[i + 1])
      BY DEF IInv, History
    <3>2. Tells(past[pos + 1], stream[pos + 1], past[pos + 1 + 1]) /\ pos + 1 + 1 = pos + 2
      BY <1>4, <2>3, <3>1
    <3>3. ViewOK(p)
      BY <2>1, <2>3 DEF IInv, History
    <3> QED BY <2>1, <2>2, <3>2, <3>3 DEF Current
  <2>5. Follows(p)
    BY <1>1, <1>4, <1>5, <2>1 DEF IInv, Reading
  <2>6. Follows(u)' /\ rstate' = rstate /\ pos' = pos + 1
    BY <2>3, <2>4, <2>5, Hears
  <2>7. u = past'[pos' + 1]
    BY <1>2, <1>4, <2>2, <2>6
  <2>8. (rstate = "reading" /\ pos < Len(past) => Follows(past[pos + 1]))'
    BY <2>6, <2>7 DEF Follows
  <2> QED BY <1>1, <1>2, <1>3, <2>6, <2>8 DEF Reading, IInv
<1>6. CASE pos + 1 >= Len(past)
  <2>1. ~(rstate' = "reading" /\ pos' < Len(past'))
    BY <1>1, <1>2, <1>4, <1>6
  <2>2. ASSUME ~failed, rstate' \notin {"reading", "end"}
        PROVE  rstate' = "error" /\ closed /\ pos' = pos /\ pos + 1 = Len(stream) /\ Current.kind = "TORN"
    <3>1. pos < Len(stream)
      BY <2>2 DEF ReaderStep, ReadContextSwitch, ReadFrameIndex, ReadFramePush, ReadFramePop,
         ReadNativeFrameIndex, ReadAllocation, ReadNativeAllocation, ReadThreadRecord,
         ReadMemoryRecord, ReadMemoryMapStart, ReadSegmentHeader, ReadTrailer, ReadEndOfFile,
         ReadTorn, Reads, Stops
    <3>2. closed /\ pos + 1 = Len(stream) /\ Current.kind \in {"TORN", "TRAILER"}
      BY <1>6, <2>2, <3>1, BeyondTold
    <3>4. ReadTrailer \/ ReadEndOfFile \/ ReadTorn
      BY <3>2 DEF ReaderStep, ReadContextSwitch, ReadFrameIndex, ReadFramePush, ReadFramePop,
         ReadNativeFrameIndex, ReadAllocation, ReadNativeAllocation, ReadThreadRecord,
         ReadMemoryRecord, ReadMemoryMapStart, ReadSegmentHeader, Reads
    <3>5. ReadTorn
      BY <2>2, <3>4 DEF ReadTrailer, ReadEndOfFile, Stops
    <3>6. ~(pos + 1 < Len(stream))
      BY <1>4, <3>2
    <3> QED BY <2>2, <3>2, <3>5, <3>6 DEF ReadTorn, Stops
  <2>3. rstate' \in {"garbled", "undefined"} => failed'
    BY <1>2, <2>2
  <2>4. rstate' = "error" /\ ~failed' => closed' /\ pos' + 1 = Len(stream') /\ Current'.kind = "TORN"
    BY <1>2, <2>2 DEF Current
  <2>5. (rstate = "reading" /\ pos < Len(past) => Follows(past[pos + 1]))'
    BY <2>1
  <2> QED BY <1>1, <1>2, <1>3, <2>3, <2>4, <2>5 DEF Reading, IInv
<1> QED BY <1>4, <1>5, <1>6

-----------------------------------------------------------------------------
(* The theorems *)

\* Nothing has been told, and the reader knows it.
LEMMA InitEstablishes ==
    ASSUME Init
    PROVE  IInv
<1>1. /\ NewView.tid = NoTid /\ NewView.last = [f \in Fields |-> 0] /\ NewView.frames = <<>>
      /\ NewView.natives = <<>> /\ NewView.stacks = [t \in Tids \cup {NoTid} |-> <<>>]
      /\ NewView.names = <<>> /\ NewView.images = <<>> /\ NewView.events = <<>>
  BY DEF NewView, View
<1>2. 0 \in Words
  BY WordAssumption DEF Words
<1>3. <<>> \in Tree
  BY DEF Tree
<1>4. ViewOK(NewView)
  <2>1. /\ <<>> \in Seq(RawFrame) /\ <<>> \in Seq(Seq(Images))
        /\ Len(<<>>) < Word /\ Len(<<>>) <= MaxRecords
    BY WordAssumption, LimitAssumption
  <2>2. NewView.stacks \in [Tids \cup {NoTid} -> Seq(RawFrame)]
    BY <1>1, <2>1
  <2> QED BY <1>1, <1>2, <1>3, <2>1, <2>2, WordAssumption DEF ViewOK
<1>5. WorkOK(Idle, NewView) /\ RightNode(Idle, NewView)
  BY <1>4, IdleWork
<1>6. NoTwins(NewView.natives)
  BY <1>1 DEF NoTwins
<1>7. Tracking
  <2>1. Len(NewView.images) = 0 /\ Len(<<>>) = 0
    BY <1>1
  <2>2. /\ active = TRUE /\ failed = FALSE /\ closed = FALSE /\ lost = {} /\ call = Idle
        /\ w = NewView /\ stream = <<>>
    BY DEF Init
  <2>3. Len(w.images) <= Len(stream) /\ NoTwins(w.natives)
    BY <1>6, <2>1, <2>2
  <2>4. ViewOK(w) /\ WorkOK(call, w) /\ RightNode(call, w)
    BY <1>4, <1>5, <2>2
  <2> QED BY <2>2, <2>3, <2>4 DEF Tracking
<1>8. History
  <2>1. Sequence(stream) /\ Len(stream) = 0
    BY DEF Init, Sequence
  <2>2. /\ Sequence(past) /\ Len(past) = 1 /\ past[1] = NewView
    BY DEF Init, Sequence
  <2>3. w = NewView
    BY DEF Init
  <2> QED BY <1>4, <2>1, <2>2, <2>3 DEF History
<1>9. Reading
  <2>1. Len(stream) = 0 /\ past[1] = NewView /\ pos = 0 /\ rstate = "reading" /\ r = NewView
    BY DEF Init
  <2>2. Follows(NewView)
    <3>1. r.frames = <<>>
      BY <1>1, <2>1
    <3>2. <<>> = [i \in 0..(Len(<<>>) - 1) |-> <<>>[i + 1]]
      OBVIOUS
    <3>3. r.stacks \in [Tids \cup {NoTid} -> Seq(Nat)]
      <4>1. <<>> \in Seq(Nat)
        OBVIOUS
      <4> QED BY <1>1, <2>1, <4>1
    <3>4. \A t \in Tids : StandFor(r.frames, r.stacks[t], NewView.stacks[t])
      BY <1>1, <2>1 DEF StandFor
    <3> QED BY <1>1, <2>1, <3>2, <3>3, <3>4 DEF Follows
  <2>3. r.tid \in Tids \cup {NoTid} /\ r.last \in [Fields -> Words]
    BY <1>1, <1>2, <2>1
  <2> QED BY <2>1, <2>2, <2>3 DEF Reading
<1> QED BY <1>7, <1>8, <1>9 DEF IInv

\* The inductive invariant: the tracker's tables and its method fit one another,
\* every record up to the first failure tells the reader just what was added to
\* them, and the reader has heard that of each record that it has read.
THEOREM Invariance == Spec => []IInv
<1>1. IInv /\ [Next]_vars => IInv'
  <2> SUFFICES ASSUME IInv, [Next]_vars PROVE IInv'
    OBVIOUS
  <2>1. CASE ReaderStep
    BY <2>1, KeepsReader
  <2>2. CASE UNCHANGED vars
    <3>1. UNCHANGED <<w, active, lost, failed, stream, closed, past, reader>> /\ call' = call
      BY <2>2 DEF vars, writer
    <3>2. /\ closed => call' = Idle
          /\ WorkOK(call', w) /\ (~failed => RightNode(call', w))
      BY <3>1 DEF IInv, Tracking
    <3> QED BY <3>1, <3>2, QuietKeeps
  <2>3. CASE Done
    BY <2>2, <2>3 DEF Done
  <2> QED BY <2>1, <2>2, <2>3, KeepsTracker DEF Next
<1> QED BY <1>1, InitEstablishes, PTL DEF Spec

\* Types follow from the invariant.
LEMMA TypesFollow ==
    ASSUME IInv
    PROVE  TypeOK
<1>1. /\ w.tid \in Tids \cup {NoTid} /\ w.last \in [Fields -> Words]
      /\ r.tid \in Tids \cup {NoTid} /\ r.last \in [Fields -> Words]
  BY DEF IInv, Tracking, Reading, ViewOK
<1>2. \A i \in 1..Len(stream) : \A f \in DOMAIN stream[i].deltas : stream[i].deltas[f] \in Words
  BY DEF IInv, History, RecordOK
<1>3. pos \in 0..Len(stream) /\ rstate \in {"reading", "end", "error", "garbled", "undefined"}
  BY DEF IInv, Reading
<1>4. call.node \in 0..(Len(w.natives) + 1) /\ call.found \in 0..Len(call.trace)
  BY DEF IInv, Tracking, WorkOK
<1>5. active \in BOOLEAN /\ failed \in BOOLEAN /\ closed \in BOOLEAN /\ (~active \/ lost # {} => failed)
  BY DEF IInv, Tracking
<1> QED BY <1>1, <1>2, <1>3, <1>4, <1>5 DEF TypeOK

\* Nodes stand for the traces that were meant.
LEMMA TracesFollow ==
    ASSUME IInv
    PROVE  NodesAreTraces
<1>1. DOMAIN Traces(w.natives) = 0..Len(w.natives)
  BY TracesGrow DEF IInv, Tracking, ViewOK
<1>2. NoTwins(w.natives) /\ (~failed => RightNode(call, w))
  BY DEF IInv, Tracking
<1> QED BY <1>1, <1>2 DEF NodesAreTraces, NoTwins, RightNode

\* After any number of records a reader has exactly the tables that the tracker
\* had when it wrote that many, whatever the threads, frames, traces and widths
\* (RecordReader::nextRecordFromAllAllocationsFile against
\* StreamingRecordWriter).
THEOREM ReaderIsInLockstep == Spec => []ReaderInLockstep
<1>1. IInv => ReaderInLockstep
  <2> SUFFICES ASSUME IInv PROVE ReaderInLockstep
    OBVIOUS
  <2>1. ASSUME rstate = "reading", pos < Len(past) PROVE InStep(past[pos + 1])
    <3>1. Len(past) \in Nat /\ pos \in Nat
      BY AppendSequence DEF IInv, History, Reading
    <3>2. pos + 1 \in 1..Len(past)
      BY <2>1, <3>1
    <3>3. ViewOK(past[pos + 1]) /\ Follows(past[pos + 1])
      BY <2>1, <3>2 DEF IInv, History, Reading
    <3> QED BY <3>3, FollowsInStep
  <2> QED BY <2>1, TypesFollow, TracesFollow DEF ReaderInLockstep
<1> QED BY <1>1, Invariance, PTL

\* A reader fails on nothing but a record of which a part was written: no frame
\* number is defined twice, no frame is popped that is not there, no image
\* belongs to no generation.
THEOREM FailuresAreOfTornRecords == Spec => []ReaderFailsOnlyOnTornRecords
<1>1. IInv => ReaderFailsOnlyOnTornRecords
  BY DEF IInv, Reading, ReaderFailsOnlyOnTornRecords
<1> QED BY <1>1, Invariance, PTL

-----------------------------------------------------------------------------
(* The log that the records amount to *)

\* t begins with s.
Begins(s, t) == Len(s) <= Len(t) /\ \A i \in 1..Len(s) : s[i] = t[i]

\* Nothing happens, or one event is added.
Adds(s, t) == t = s \/ \E e : t = Append(s, e)

\* A sequence is what it has at each index.
LEMMA SequencesEqual ==
    ASSUME NEW s, NEW t, Sequence(s), Sequence(t), Len(s) = Len(t),
           \A i \in 1..Len(s) : s[i] = t[i]
    PROVE  s = t
<1>1. DOMAIN s = 1..Len(s) /\ DOMAIN t = 1..Len(s)
  BY DEF Sequence
<1>2. s = [i \in DOMAIN s |-> s[i]] /\ t = [i \in DOMAIN t |-> t[i]]
  BY DEF Sequence
<1> QED BY <1>1, <1>2

\* What is added goes behind what was there.
LEMMA AddsBegins ==
    ASSUME NEW s, NEW t, Sequence(s), Adds(s, t)
    PROVE  Sequence(t) /\ Begins(s, t) /\ Len(s) \in Nat /\ Len(t) \in Nat
<1>1. Len(s) \in Nat
  BY AppendSequence
<1>2. CASE t = s
  BY <1>1, <1>2 DEF Begins
<1>3. CASE \E e : t = Append(s, e)
  BY <1>1, <1>3, AppendSequence DEF Begins
<1> QED BY <1>2, <1>3 DEF Adds

\* What has been delivered of what was told, when the reader has heard `heard`.
Delivered(heard, told) == IF Len(heard) <= Len(told) THEN heard ELSE SubSeq(heard, 1, Len(told))

\* A reader that has heard more than was told before a failure has been
\* delivered all of that.
LEMMA AllDelivered ==
    ASSUME NEW heard, NEW told, Sequence(heard), Sequence(told), Begins(told, heard)
    PROVE  Delivered(heard, told) = told
<1> DEFINE S == {heard[i] : i \in 1..Len(heard)}
           part == SubSeq(heard, 1, Len(told))
<1>1. Len(heard) \in Nat /\ Len(told) \in Nat /\ Len(told) <= Len(heard)
  BY AppendSequence DEF Begins
<1>2. CASE Len(heard) <= Len(told)
  <2>1. Len(heard) = Len(told)
    BY <1>1, <1>2
  <2> QED BY <1>2, <2>1, SequencesEqual DEF Delivered, Begins
<1>3. CASE ~(Len(heard) <= Len(told))
  <2>1. heard \in Seq(S)
    BY DEF Sequence
  <2> HIDE DEF S
  <2>2. part \in Seq(S) /\ Len(part) = Len(told) /\ \A i \in 1..Len(told) : part[i] = heard[i]
    BY <1>1, <2>1
  <2> HIDE DEF part
  <2>3. Sequence(part)
    BY <2>2 DEF Sequence
  <2>4. part = told
    BY <2>2, <2>3, SequencesEqual DEF Begins
  <2> QED BY <1>3, <2>4 DEF Delivered, part
<1> QED BY <1>2, <1>3

\* A reader that has heard no more than was told has been delivered that.
LEMMA SomeDelivered ==
    ASSUME NEW heard, NEW told, Begins(heard, told)
    PROVE  Delivered(heard, told) = heard
BY DEF Delivered, Begins

\* What the log says of the tables of a view.
StacksOf(v) == [t \in Tids |-> v.stacks[t]]

LogAllocation ==
    [allocator : Allocators, address : Addresses, size : Sizes \cup {0},
     node : NodeIds, generation : Generations]

\* What a record tells, as an action of the log.
LogTells(v, u) ==
    \/ u.names = v.names /\ u.events = v.events /\ StacksOf(u) = StacksOf(v)
    \/ \E t \in Tids, n \in Names :
         u.names = Renamed(v.names, t, n) /\ u.events = v.events /\ StacksOf(u) = StacksOf(v)
    \/ \E t \in Tids : \E n \in 1..Len(StacksOf(v)[t]) :
         /\ u.names = v.names /\ u.events = v.events
         /\ StacksOf(u) = [StacksOf(v) EXCEPT ![t] = SubSeq(@, 1, Len(@) - n)]
    \/ \E t \in Tids, f \in RawFrame :
         /\ u.names = v.names /\ u.events = v.events
         /\ StacksOf(u) = [StacksOf(v) EXCEPT ![t] = Append(@, f)]
    \/ \E t \in Tids, a \in LogAllocation, s \in BOOLEAN :
         /\ u.names = v.names /\ StacksOf(u) = StacksOf(v)
         /\ u.events = Append(v.events, [tid |-> t, allocation |-> a,
                                         stack |-> IF s THEN StacksOf(v)[t] ELSE <<>>])
    \/ \E rss \in Sizes :
         /\ u.names = v.names /\ StacksOf(u) = StacksOf(v)
         /\ u.events = Append(v.events, [rss |-> rss])

\* Values that are remembered are none of the log's business.
LEMMA RememberedUnlogged ==
    ASSUME NEW v, NEW values
    PROVE  LET m == Updated(v, values) IN
           m.names = v.names /\ m.events = v.events /\ m.stacks = v.stacks /\ m.tid = v.tid
BY ChangedLast DEF Updated, Same

\* Each record tells one thing that the log knows of, or nothing.
LEMMA TellsLog ==
    ASSUME NEW v, NEW x, NEW u, ViewOK(v), Tells(v, x, u)
    PROVE  LogTells(v, u)
<1> DEFINE Quiet(a, b) == b.names = a.names /\ b.events = a.events /\ b.stacks = a.stacks
<1>1. ASSUME Quiet(v, u) PROVE LogTells(v, u)
  BY <1>1 DEF LogTells, StacksOf
<1>2. CASE SwitchTold(v, x, u)
  <2>1. Same(v, u, "tid")
    BY <1>2, ChangedTid DEF SwitchTold
  <2> QED BY <1>1, <2>1 DEF Same
<1>3. CASE NameTold(v, x, u)
  <2>1. /\ Same(v, u, "names") /\ u.names = Renamed(v.names, v.tid, x.data)
        /\ v.tid \in Tids /\ x.data \in Names
    BY <1>3, ChangedName DEF NameTold
  <2> QED BY <2>1 DEF Same, LogTells, StacksOf
<1>4. CASE PopTold(v, x, u)
  <2> DEFINE n == x.data + 1
             t == v.tid
             stack == v.stacks[t]
  <2>1. t \in Tids /\ x.data \in Nat /\ n <= Len(stack)
    BY <1>4 DEF PopTold
  <2>2. /\ Same(v, u, "stacks")
        /\ u.stacks = [v.stacks EXCEPT ![t] = SubSeq(stack, 1, Len(stack) - n)]
    <3>1. u = WithStack(v, t, SubSeq(stack, 1, Len(stack) - n))
      BY <1>4 DEF PopTold
    <3> HIDE DEF n, t, stack
    <3> QED BY <3>1 DEF Same, WithStack, View
  <2>3. v.stacks \in [Tids \cup {NoTid} -> Seq(RawFrame)]
    BY DEF ViewOK
  <2>4. n \in 1..Len(stack)
    BY <2>1, <2>3
  <2>5. StacksOf(u) = [StacksOf(v) EXCEPT ![t] = SubSeq(@, 1, Len(@) - n)]
    <3> HIDE DEF n
    <3> QED BY <2>1, <2>2, <2>3 DEF StacksOf
  <2>6. u.names = v.names /\ u.events = v.events
    BY <2>2 DEF Same
  <2>7. StacksOf(v)[t] = stack
    BY <2>1 DEF StacksOf
  <2> HIDE DEF n, t, stack
  <2> QED BY <2>1, <2>4, <2>5, <2>6, <2>7 DEF LogTells
<1>5. CASE FrameTold(v, x, u)
  <2>1. PICK values, frames : u = WithFrames(Updated(v, values), frames)
    BY <1>5 DEF FrameTold
  <2>2. Same(Updated(v, values), u, "frames")
    BY <2>1, ChangedFrames
  <2> QED BY <1>1, <2>2, RememberedUnlogged DEF Same
<1>6. CASE PushTold(v, x, u)
  <2> DEFINE t == v.tid
             stack == v.stacks[t]
  <2>0. PICK i \in 1..Len(v.frames) :
            \E values : u = WithStack(Updated(v, values), v.tid, Append(v.stacks[v.tid], v.frames[i]))
    BY <1>6 DEF PushTold
  <2>1. PICK values : u = WithStack(Updated(v, values), t, Append(stack, v.frames[i]))
    BY <2>0
  <2> DEFINE m == Updated(v, values)
             f == v.frames[i]
  <2>2. t \in Tids /\ f \in RawFrame /\ v.stacks \in [Tids \cup {NoTid} -> Seq(RawFrame)]
    BY <1>6 DEF PushTold, ViewOK
  <2>3. Same(m, u, "stacks") /\ u.stacks = [m.stacks EXCEPT ![t] = Append(stack, f)]
    <3> HIDE DEF m, t, stack, f
    <3> QED BY <2>1 DEF Same, WithStack, View, m, f
  <2>4. m.names = v.names /\ m.events = v.events /\ m.stacks = v.stacks
    BY RememberedUnlogged
  <2> HIDE DEF m, f
  <2>5. StacksOf(u) = [StacksOf(v) EXCEPT ![t] = Append(@, f)]
    BY <2>2, <2>3, <2>4 DEF StacksOf
  <2>6. u.names = v.names /\ u.events = v.events
    BY <2>3, <2>4 DEF Same
  <2> QED BY <2>2, <2>5, <2>6 DEF LogTells
<1>7. CASE NodeTold(v, x, u)
  <2>1. PICK values, natives : u = WithNatives(Updated(v, values), natives)
    BY <1>7 DEF NodeTold
  <2>2. Same(Updated(v, values), u, "natives")
    BY <2>1 DEF Same, WithNatives, View
  <2> QED BY <1>1, <2>2, RememberedUnlogged DEF Same
<1>8. ASSUME NEW a \in AllocationRecord, NEW node \in NodeIds, NEW generation \in Generations,
             NEW values, NEW s \in BOOLEAN, v.tid \in Tids,
             u = WithEvent(Updated(v, values),
                     Event(v.tid, a, node, generation, IF s THEN v.stacks[v.tid] ELSE <<>>))
      PROVE  LogTells(v, u)
  <2> DEFINE m == Updated(v, values)
             stack == IF s THEN v.stacks[v.tid] ELSE <<>>
             e == Event(v.tid, a, node, generation, stack)
             b == [allocator |-> a.allocator, address |-> a.address, size |-> a.size,
                   node |-> node, generation |-> generation]
  <2>1. Same(m, u, "events") /\ u.events = Append(m.events, e)
    BY <1>8, ChangedEvents
  <2>2. m.names = v.names /\ m.events = v.events /\ m.stacks = v.stacks
    BY RememberedUnlogged
  <2>3. b \in LogAllocation
    BY DEF AllocationRecord, LogAllocation
  <2>4. e = [tid |-> v.tid, allocation |-> b, stack |-> stack]
    BY DEF Event
  <2>5. StacksOf(v)[v.tid] = v.stacks[v.tid]
    BY <1>8 DEF StacksOf
  <2>6. e = [tid |-> v.tid, allocation |-> b, stack |-> IF s THEN StacksOf(v)[v.tid] ELSE <<>>]
    BY <2>4, <2>5
  <2> HIDE DEF m, b, e
  <2>7. u.names = v.names /\ StacksOf(u) = StacksOf(v) /\ u.events = Append(v.events, e)
    BY <2>1, <2>2 DEF Same, StacksOf
  <2> QED BY <1>8, <2>3, <2>6, <2>7 DEF LogTells
<1>9. CASE AllocationTold(v, x, u)
  <2>1. PICK a \in AllocationRecord :
            \E values : u = WithEvent(Updated(v, values),
                    Event(v.tid, a, 0, 0, IF IsDeallocator(a.allocator) THEN <<>> ELSE v.stacks[v.tid]))
    BY <1>9 DEF AllocationTold
  <2>2. PICK s \in BOOLEAN : s = ~IsDeallocator(a.allocator)
    BY DEF IsDeallocator
  <2>3. (IF IsDeallocator(a.allocator) THEN <<>> ELSE v.stacks[v.tid])
            = IF s THEN v.stacks[v.tid] ELSE <<>>
    BY <2>2
  <2>4. 0 \in NodeIds /\ 0 \in Generations
    BY WordAssumption, LimitAssumption DEF NodeIds, Generations, Words
  <2>5. v.tid \in Tids
    BY <1>9 DEF AllocationTold
  <2> QED BY <1>8, <2>1, <2>3, <2>4, <2>5
<1>10. CASE NativeAllocationTold(v, x, u)
  <2>1. PICK a \in AllocationRecord, node \in Words :
            \E values : u = WithEvent(Updated(v, values),
                    Event(v.tid, a, node, Len(v.images), v.stacks[v.tid]))
    BY <1>10 DEF NativeAllocationTold
  <2>2. NativeTraces /\ v.tid \in Tids
    BY <1>10 DEF NativeAllocationTold
  <2>3. node \in NodeIds /\ Len(v.images) \in Generations
    BY <2>2, LimitAssumption DEF NodeIds, Generations, ViewOK
  <2> QED BY <1>8, <2>1, <2>2, <2>3
<1>11. CASE MemoryTold(v, x, u)
  <2>1. Same(v, u, "events") /\ x.data \in Sizes /\ u.events = Append(v.events, [rss |-> x.data])
    BY <1>11, ChangedEvents DEF MemoryTold
  <2> QED BY <2>1 DEF Same, LogTells, StacksOf
<1>12. CASE MapTold(v, x, u) \/ ImageTold(v, x, u)
  <2>1. Same(v, u, "images")
    BY <1>12, ChangedImages DEF MapTold, ImageTold
  <2> QED BY <1>1, <2>1 DEF Same
<1> QED
  BY <1>2, <1>3, <1>4, <1>5, <1>6, <1>7, <1>9, <1>10, <1>11, <1>12 DEF Tells

\* A record adds one event at the most.
LEMMA TellsOneEvent ==
    ASSUME NEW v, NEW u, LogTells(v, u)
    PROVE  Adds(v.events, u.events)
BY DEF LogTells, Adds

\* What the log has delivered is what the reader has heard, up to what had been
\* told when a write first failed.
Heard ==
    /\ \A i \in 1..Len(past) : Sequence(past[i].events) /\ Begins(past[i].events, Told.events)
    /\ Sequence(r.events)
    /\ \/ Begins(r.events, Told.events)
       \/ failed /\ Begins(Told.events, r.events)
    /\ rstate = "reading" /\ pos >= Len(past) => Begins(Told.events, r.events)

\* A step of the tracker leaves the reader alone and what was told as it is, or
\* tells one thing more.
TrackerStep ==
    /\ UNCHANGED reader /\ (failed => failed')
    /\ \/ past' = past
       \/ ~failed /\ ~closed /\ past' = Append(past, w')

\* That is all the tracker does.
LEMMA TrackerSteps ==
    ASSUME \/ WriterStep \/ CaptureMemorySnapshot \/ UpdateModuleCache \/ Close \/ Kill
           \/ \E t \in Tids : TrackAllocation(t) \/ TrackDeallocation(t)
                              \/ ForgetPythonStack(t) \/ RegisterThreadName(t),
           closed => call = Idle
    PROVE  TrackerStep
<1> DEFINE Quiet == UNCHANGED <<failed, past, reader>>
<1>1. ASSUME Quiet PROVE TrackerStep
  BY <1>1 DEF TrackerStep
<1>2. ASSUME NEW kind, NEW values, NEW data, NEW after, Write(kind, values, data, after), UNCHANGED reader,
             ~closed
      PROVE  TrackerStep
  BY <1>2 DEF Write, TrackerStep
<1>3. ASSUME NEW left, Loses(left), UNCHANGED reader PROVE TrackerStep
  BY <1>3 DEF Loses, TrackerStep
<1>4. ASSUME NEW left, Fail(left), UNCHANGED reader PROVE TrackerStep
  BY <1>3, <1>4 DEF Fail
<1>5. NeedsThread \/ call.pushes # <<>> \/ call.images # <<>> \/ ~TraceFound => ~closed
  BY DEF NeedsThread, TraceFound, Idle, Work
<1>6. CASE WriteContextSwitch
  BY <1>2, <1>4, <1>5, <1>6 DEF WriteContextSwitch
<1>7. CASE WriteThreadRecord
  BY <1>2, <1>4, <1>5, <1>7 DEF WriteThreadRecord, InThread
<1>8. CASE WriteFramePop
  BY <1>2, <1>4, <1>5, <1>8 DEF WriteFramePop, InThread
<1>9. CASE RegisterFrame
  BY <1>2, <1>4, <1>5, <1>9 DEF RegisterFrame
<1>10. CASE PushFrame
  BY <1>2, <1>4, <1>5, <1>10 DEF PushFrame, InThread
<1>11. CASE FindNode
  BY <1>1, <1>11 DEF FindNode
<1>12. CASE RegisterNode
  BY <1>2, <1>3, <1>5, <1>12 DEF RegisterNode, MayFindNode
<1>13. CASE FollowLostEdge
  BY <1>1, <1>13 DEF FollowLostEdge
<1>14. CASE WriteAllocation
  BY <1>2, <1>4, <1>5, <1>14 DEF WriteAllocation, MayWriteAllocation, InThread
<1>15. CASE WriteNativeAllocation
  BY <1>2, <1>4, <1>5, <1>15 DEF WriteNativeAllocation, MayWriteAllocation, InThread
<1>16. CASE WriteSegments
  BY <1>2, <1>4, <1>5, <1>16 DEF WriteSegments
<1>17. CASE CaptureMemorySnapshot
  BY <1>2, <1>4, <1>17 DEF CaptureMemorySnapshot
<1>18. CASE UpdateModuleCache
  BY <1>2, <1>4, <1>18 DEF UpdateModuleCache
<1>19. CASE Close \/ Kill
  BY <1>1, <1>19 DEF Close, Kill
<1>20. CASE \E t \in Tids : TrackAllocation(t) \/ TrackDeallocation(t)
                            \/ ForgetPythonStack(t) \/ RegisterThreadName(t)
  <2>1. \E name, work : Begin(name, work)
    BY <1>20 DEF TrackAllocation, TrackDeallocation, ForgetPythonStack, RegisterThreadName
  <2> QED BY <1>1, <2>1 DEF Begin
<1> QED
  BY <1>6, <1>7, <1>8, <1>9, <1>10, <1>11, <1>12, <1>13, <1>14, <1>15, <1>16, <1>17, <1>18, <1>19,
     <1>20 DEF WriterStep

\* Whatever record it reads, a reader hears of one event at the most.
LEMMA ReaderHearsOne ==
    ASSUME ReaderStep
    PROVE  Adds(r.events, r'.events)
<1>1. \A values : Updated(r, values).events = r.events
  BY RememberedUnlogged
<1>2. CASE r' = r
  BY <1>2 DEF Adds
<1>3. ASSUME NEW m, m.events = r.events, NEW what \in {"tid", "natives", "stacks", "names", "frames", "images"},
             Same(m, r', what)
      PROVE  Adds(r.events, r'.events)
  BY <1>3 DEF Same, Adds
<1>4. CASE ReadContextSwitch
  <2>1. Same(r, r', "tid")
    BY <1>4, ChangedTid DEF ReadContextSwitch, Goes
  <2> QED BY <1>3, <2>1
<1>5. CASE ReadFrameIndex /\ r' # r
  <2>1. PICK values, frames : r' = WithFrames(Updated(r, values), frames)
    BY <1>5 DEF ReadFrameIndex, Goes, Stops
  <2>2. Same(Updated(r, values), r', "frames")
    BY <2>1, ChangedFrames
  <2> QED BY <1>1, <1>3, <2>2
<1>6. CASE ReadFramePush
  <2>1. PICK values, t, stack : r' = WithStack(Updated(r, values), t, stack)
    BY <1>6 DEF ReadFramePush, Goes
  <2>2. Same(Updated(r, values), r', "stacks")
    BY <2>1, ChangedStack
  <2> QED BY <1>1, <1>3, <2>2
<1>7. CASE ReadFramePop /\ r' # r
  <2>1. PICK t, stack : r' = WithStack(r, t, stack)
    BY <1>7 DEF ReadFramePop, Goes, Stops
  <2>2. Same(r, r', "stacks")
    BY <2>1, ChangedStack
  <2> QED BY <1>3, <2>2
<1>8. CASE ReadNativeFrameIndex
  <2>1. PICK values, natives : r' = WithNatives(Updated(r, values), natives)
    BY <1>8 DEF ReadNativeFrameIndex, Goes
  <2>2. Same(Updated(r, values), r', "natives")
    BY <2>1, ChangedNatives
  <2> QED BY <1>1, <1>3, <2>2
<1>9. CASE ReadAllocation \/ ReadNativeAllocation
  <2>1. PICK values, e : r' = WithEvent(Updated(r, values), e)
    BY <1>9 DEF ReadAllocation, ReadNativeAllocation, Goes
  <2>2. r'.events = Append(Updated(r, values).events, e)
    BY <2>1, ChangedEvents
  <2> QED BY <1>1, <2>2 DEF Adds
<1>10. CASE ReadThreadRecord
  <2>1. Same(r, r', "names")
    BY <1>10, ChangedName DEF ReadThreadRecord, Goes
  <2> QED BY <1>3, <2>1
<1>11. CASE ReadMemoryRecord
  <2>1. r'.events = Append(r.events, [rss |-> Current.data])
    BY <1>11, ChangedEvents DEF ReadMemoryRecord, Goes
  <2> QED BY <2>1 DEF Adds
<1>12. CASE ReadMemoryMapStart
  <2>1. Same(r, r', "images")
    BY <1>12, ChangedImages DEF ReadMemoryMapStart, Goes
  <2> QED BY <1>3, <2>1
<1>13. CASE ReadSegmentHeader /\ r' # r
  <2>1. PICK images : r' = WithImages(r, images)
    BY <1>13 DEF ReadSegmentHeader, Goes, Stops
  <2>2. Same(r, r', "images")
    BY <2>1, ChangedImages
  <2> QED BY <1>3, <2>2
<1>14. CASE ReadTrailer \/ ReadEndOfFile \/ ReadTorn
  BY <1>2, <1>14, ChangedName DEF ReadTrailer, ReadEndOfFile, ReadTorn, Stops, Same, Adds
<1> QED
  BY <1>2, <1>4, <1>5, <1>6, <1>7, <1>8, <1>9, <1>10, <1>11, <1>12, <1>13, <1>14 DEF ReaderStep

\* The tracker's steps tell the log something and deliver nothing.
LEMMA TrackerLogs ==
    ASSUME IInv, IInv', Heard, TrackerStep
    PROVE  /\ Heard'
           /\ Told' = Told \/ LogTells(Told, Told')
           /\ Delivered(r.events, Told.events)' = Delivered(r.events, Told.events)
<1>1. /\ Sequence(past) /\ Len(past) \in Nat /\ Len(past) >= 1 /\ r' = r /\ pos' = pos
      /\ rstate' = rstate /\ (failed => failed')
  BY AppendSequence DEF IInv, History, TrackerStep, reader
<1>2. CASE past' = past
  <2>1. Told' = Told
    BY <1>2 DEF Told
  <2> QED BY <1>1, <1>2, <2>1 DEF Heard
<1>3. CASE ~failed /\ ~closed /\ past' = Append(past, w')
  <2> DEFINE n == Len(past)
  <2>1. PICK u : u = w'
    OBVIOUS
  <2>2. /\ Len(past') = n + 1 /\ past'[n + 1] = u
        /\ \A i \in 1..n : past'[i] = past[i]
    BY <1>1, <1>3, <2>1, AppendSequence
  <2>3. Told' = u /\ Told = past[n]
    BY <2>2 DEF Told
  <2>4. ViewOK(Told) /\ LogTells(Told, u)
    <3>1. n \in 1..n /\ n \in 1..(Len(past') - 1)
      BY <1>1, <2>2
    <3>2. ViewOK(Told)
      BY <2>3, <3>1 DEF IInv, History
    <3>3. PICK x : Tells(past'[n], x, past'[n + 1])
      BY <3>1 DEF IInv, History
    <3>4. Tells(Told, x, u)
      BY <2>2, <2>3, <3>1, <3>3
    <3> QED BY <3>2, <3>4, TellsLog
  <2>5. Adds(Told.events, u.events)
    BY <2>4, TellsOneEvent
  <2>6. Sequence(Told.events)
    BY <1>1, <2>3 DEF Heard
  <2>7. Sequence(u.events) /\ Begins(Told.events, u.events) /\ Len(Told.events) \in Nat /\ Len(u.events) \in Nat
    BY <2>5, <2>6, AddsBegins
  <2>8. ASSUME NEW s, Sequence(s), Begins(s, Told.events) PROVE Begins(s, u.events)
    <3>1. Len(s) \in Nat
      BY <2>8, AppendSequence
    <3> QED BY <2>7, <2>8, <3>1 DEF Begins
  <2>9. Begins(r.events, Told.events) /\ Sequence(r.events)
    BY <1>3 DEF Heard
  <2>10. Begins(r.events, u.events)
    BY <2>8, <2>9
  <2>11. Delivered(r.events, Told.events)' = Delivered(r.events, Told.events)
    <3>1. Delivered(r.events, u.events) = Delivered(r.events, Told.events)
      BY <2>9, <2>10, SomeDelivered
    <3> QED BY <1>1, <2>3, <3>1
  <2>12. ASSUME NEW i \in 1..(n + 1)
         PROVE  Sequence(past'[i].events) /\ Begins(past'[i].events, u.events)
    <3>1. CASE i = n + 1
      BY <2>2, <2>7, <3>1 DEF Begins
    <3>2. CASE i # n + 1
      <4>1. i \in 1..n
        BY <1>1, <3>2
      <4>2. Sequence(past[i].events) /\ Begins(past[i].events, Told.events)
        BY <4>1 DEF Heard
      <4> QED BY <2>2, <2>8, <4>1, <4>2
    <3> QED BY <3>1, <3>2
  <2>13. ~(pos' >= Len(past'))
    <3>1. Len(stream) = n - 1
      BY <1>3 DEF IInv, History
    <3>2. pos \in 0..Len(stream)
      BY DEF IInv, Reading
    <3> QED BY <1>1, <2>2, <3>1, <3>2
  <2>14. Heard'
    BY <1>1, <2>2, <2>3, <2>9, <2>10, <2>12, <2>13 DEF Heard
  <2> QED BY <2>3, <2>4, <2>11, <2>14
<1> QED BY <1>2, <1>3 DEF TrackerStep

\* The next event that was told is delivered, or nothing is.
Delivers ==
    LET before == Delivered(r.events, Told.events)
        after == Delivered(r.events, Told.events)'
    IN \/ after = before
       \/ /\ Len(before) < Len(Told.events)
          /\ after = Append(before, Told.events[Len(before) + 1])

\* The reader's steps deliver the next event or nothing.
LEMMA ReaderLogs ==
    ASSUME IInv, IInv', Heard, ReaderStep
    PROVE  Heard' /\ Told' = Told /\ Delivers
<1>1. /\ rstate = "reading" /\ UNCHANGED writer /\ pos' \in 0..Len(stream)
      /\ rstate' = "reading" => pos' = pos + 1
  BY ReaderTypes
<1>2. past' = past /\ Told' = Told /\ failed' = failed
  BY <1>1 DEF writer, Told
<1>3. /\ Len(stream) \in Nat /\ Len(past) \in Nat /\ pos \in Nat /\ Len(past) >= 1
      /\ Len(past) <= Len(stream) + 1 /\ pos <= Len(stream)
  BY AppendSequence DEF IInv, History, Reading
<1>4. PICK told : told = Told.events
  OBVIOUS
<1>5. PICK heard : heard = r.events
  OBVIOUS
<1>6. PICK hears : hears = r'.events
  OBVIOUS
<1>7. Sequence(told) /\ Sequence(heard) /\ Adds(heard, hears)
  <2>1. Len(past) \in 1..Len(past)
    BY <1>3
  <2> QED BY <1>4, <1>5, <1>6, <2>1, ReaderHearsOne DEF Heard, Told
<1>8. Sequence(hears) /\ Begins(heard, hears) /\ Len(heard) \in Nat /\ Len(hears) \in Nat /\ Len(told) \in Nat
  BY <1>7, AddsBegins, AppendSequence
<1>9. CASE pos + 1 < Len(past)
  <2>1. PICK p : p = past[pos + 1]
    OBVIOUS
  <2>2. PICK u : u = past[pos + 2]
    OBVIOUS
  <2>3. /\ pos + 1 \in 1..(Len(past) - 1) /\ pos + 1 \in 1..Len(past) /\ pos + 2 \in 1..Len(past)
        /\ pos < Len(stream) /\ pos < Len(past)
    BY <1>3, <1>9
  <2>4. ViewOK(p) /\ Tells(p, Current, u)
    <3>1. \A i \in 1..(Len(past) - 1) : Tells(past[i], stream[i], past[i + 1])
      BY DEF IInv, History
    <3>2. Tells(past[pos + 1], stream[pos + 1], past[pos + 1 + 1]) /\ pos + 1 + 1 = pos + 2
      BY <1>3, <2>3, <3>1
    <3>3. ViewOK(p)
      BY <2>1, <2>3 DEF IInv, History
    <3> QED BY <2>1, <2>2, <3>2, <3>3 DEF Current
  <2>5. Follows(p)
    BY <1>1, <2>1, <2>3 DEF IInv, Reading
  <2>6. Follows(u)' /\ pos' = pos + 1
    BY <2>3, <2>4, <2>5, Hears
  <2>7. heard = p.events /\ hears = u.events
    BY <1>5, <1>6, <2>5, <2>6 DEF Follows
  <2>8. Begins(heard, told) /\ Begins(hears, told)
    BY <1>4, <2>1, <2>2, <2>3, <2>7 DEF Heard
  <2>9. Heard'
    <3>1. ~(pos' >= Len(past'))
      BY <1>2, <1>3, <1>9, <2>6
    <3>2. Begins(r'.events, Told'.events) /\ Sequence(r'.events)
      BY <1>2, <1>4, <1>6, <1>8, <2>8
    <3>3. \A i \in 1..Len(past') : Sequence(past'[i].events) /\ Begins(past'[i].events, Told'.events)
      BY <1>2 DEF Heard
    <3> QED BY <3>1, <3>2, <3>3 DEF Heard
  <2>10. Delivered(heard, told) = heard /\ Delivered(hears, told) = hears
    BY <2>8, SomeDelivered
  <2>11. hears # heard => Len(heard) < Len(told) /\ hears = Append(heard, told[Len(heard) + 1])
    <3> SUFFICES ASSUME hears # heard
                 PROVE  Len(heard) < Len(told) /\ hears = Append(heard, told[Len(heard) + 1])
      OBVIOUS
    <3>1. PICK e : hears = Append(heard, e)
      BY <1>7 DEF Adds
    <3>2. Len(hears) = Len(heard) + 1 /\ hears[Len(heard) + 1] = e
      BY <1>7, <3>1, AppendSequence
    <3>3. Len(heard) + 1 \in 1..Len(hears)
      BY <1>8, <3>2
    <3>4. told[Len(heard) + 1] = e /\ Len(hears) <= Len(told)
      BY <2>8, <3>2, <3>3 DEF Begins
    <3> QED BY <1>8, <3>1, <3>2, <3>4
  <2>12. Delivers
    BY <1>2, <1>4, <1>5, <1>6, <2>10, <2>11 DEF Delivers
  <2> QED BY <1>2, <2>9, <2>12
<1>10. CASE pos + 1 >= Len(past)
  <2>1. Begins(told, heard)
    <3>1. CASE pos >= Len(past)
      BY <1>1, <1>4, <1>5, <3>1 DEF Heard
    <3>2. CASE pos + 1 = Len(past)
      <4>1. Follows(past[pos + 1])
        BY <1>1, <1>3, <3>2 DEF IInv, Reading
      <4>2. heard = told
        BY <1>4, <1>5, <3>2, <4>1 DEF Follows, Told
      <4> QED BY <1>8, <4>2 DEF Begins
    <3> QED BY <1>3, <1>10, <3>1, <3>2
  <2>2. Begins(told, hears)
    BY <1>8, <2>1 DEF Begins
  <2>3. Delivered(heard, told) = told /\ Delivered(hears, told) = told
    BY <1>7, <1>8, <2>1, <2>2, AllDelivered
  <2>4. Delivers
    BY <1>2, <1>4, <1>5, <1>6, <2>3 DEF Delivers
  <2>5. ASSUME ~failed PROVE r'.events = r.events
    <3>1. ReadTrailer \/ ReadEndOfFile \/ ReadTorn
      <4>1. CASE pos < Len(stream)
        <5>1. Current.kind \in {"TORN", "TRAILER"}
          BY <1>10, <2>5, <4>1, BeyondTold
        <5> QED BY <5>1 DEF ReaderStep, ReadContextSwitch, ReadFrameIndex, ReadFramePush, ReadFramePop,
             ReadNativeFrameIndex, ReadAllocation, ReadNativeAllocation, ReadThreadRecord,
             ReadMemoryRecord, ReadMemoryMapStart, ReadSegmentHeader, Reads
      <4>2. CASE ~(pos < Len(stream))
        BY <4>2 DEF ReaderStep, ReadContextSwitch, ReadFrameIndex, ReadFramePush, ReadFramePop,
             ReadNativeFrameIndex, ReadAllocation, ReadNativeAllocation, ReadThreadRecord,
             ReadMemoryRecord, ReadMemoryMapStart, ReadSegmentHeader, Reads
      <4> QED BY <4>1, <4>2
    <3> QED BY <3>1, ChangedName DEF ReadTrailer, ReadEndOfFile, ReadTorn, Stops, Same
  <2>6. Begins(hears, told) \/ (failed /\ Begins(told, hears))
    <3>1. CASE failed
      BY <2>2, <3>1
    <3>2. CASE ~failed
      BY <1>4, <1>5, <1>6, <2>5, <3>2 DEF Heard
    <3> QED BY <3>1, <3>2
  <2>7. \A i \in 1..Len(past') : Sequence(past'[i].events) /\ Begins(past'[i].events, Told'.events)
    BY <1>2 DEF Heard
  <2>8. Heard'
    BY <1>2, <1>4, <1>6, <1>8, <2>2, <2>6, <2>7 DEF Heard
  <2> QED BY <1>2, <2>4, <2>8
<1> QED BY <1>3, <1>9, <1>10

\* The log begins empty.
LEMMA LogInit ==
    ASSUME Init
    PROVE  Heard /\ Log!Init
<1>1. /\ NewView.stacks = [t \in Tids \cup {NoTid} |-> <<>>] /\ NewView.names = <<>>
      /\ NewView.events = <<>>
  BY DEF NewView, View
<1>2. /\ past = <<NewView>> /\ Len(past) = 1 /\ past[1] = NewView /\ r = NewView /\ failed = FALSE
      /\ pos = 0
  BY DEF Init
<1>3. Told = NewView
  BY <1>2 DEF Told
<1>4. Sequence(<<>>) /\ Begins(<<>>, <<>>) /\ Len(<<>>) = 0
  BY DEF Sequence, Begins
<1>5. Heard
  BY <1>1, <1>2, <1>3, <1>4 DEF Heard
<1>6. Log!Init
  BY <1>1, <1>2, <1>3, <1>4 DEF Log!Init
<1> QED BY <1>5, <1>6

\* What a record tells is a step of the log, if nothing is delivered.
LEMMA LogTellsNext ==
    ASSUME Told' = Told \/ LogTells(Told, Told'),
           Delivered(r.events, Told.events)' = Delivered(r.events, Told.events)
    PROVE  [Log!Next]_Log!vars
BY DEF LogTells, StacksOf, LogAllocation, Renamed, Delivered, Log!Next, Log!vars, Log!Push,
   Log!Pop, Log!SetName, Log!Tell, Log!CaptureMemorySnapshot

\* To be delivered the next event is a step of the log.
LEMMA LogDelivers ==
    ASSUME Told' = Told, Delivers
    PROVE  [Log!Next]_Log!vars
BY DEF Delivers, Delivered, Log!Next, Log!vars, Log!Deliver

\* The records implement the log: whatever is written is a push, a pop, a name or
\* an event that is told, or nothing to the log, and whatever is read is the
\* delivery of the next event or nothing (StreamingRecordWriter and
\* RecordReader::nextRecordFromAllAllocationsFile).
THEOREM ImplementsLog == Spec => Log!Spec
<1>1. ASSUME IInv, IInv', Heard, [Next]_vars PROVE Heard' /\ [Log!Next]_Log!vars
  <2>1. CASE ReaderStep
    BY <1>1, <2>1, ReaderLogs, LogDelivers
  <2>2. CASE UNCHANGED vars
    <3>1. past' = past /\ r' = r /\ pos' = pos /\ rstate' = rstate /\ failed' = failed /\ Told' = Told
      BY <2>2 DEF vars, writer, reader, Told
    <3>2. Heard'
      BY <1>1, <3>1 DEF Heard
    <3>3. [Log!Next]_Log!vars
      BY <3>1, LogTellsNext DEF Delivered
    <3> QED BY <3>2, <3>3
  <2>3. CASE Done
    BY <2>2, <2>3 DEF Done
  <2>4. CASE \/ WriterStep \/ CaptureMemorySnapshot \/ UpdateModuleCache \/ Close \/ Kill
             \/ \E t \in Tids : TrackAllocation(t) \/ TrackDeallocation(t)
                                \/ ForgetPythonStack(t) \/ RegisterThreadName(t)
    <3>1. closed => call = Idle
      BY <1>1 DEF IInv, Tracking
    <3>2. TrackerStep
      BY <2>4, <3>1, TrackerSteps
    <3> QED BY <1>1, <3>2, TrackerLogs, LogTellsNext
  <2> QED BY <1>1, <2>1, <2>2, <2>3, <2>4 DEF Next
<1>2. Init => Heard /\ Log!Init
  BY LogInit
<1> QED BY <1>1, <1>2, Invariance, PTL DEF Spec, Log!Spec
=============================================================================
