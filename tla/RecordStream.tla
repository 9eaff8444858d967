----------------------------- MODULE RecordStream -----------------------------
(***************************************************************************)
(* The stream of records between a tracked process and whoever reads its   *)
(* capture: StreamingRecordWriter (record_writer.cpp), driven by the       *)
(* methods of Tracker that write with s_mutex held (tracking_api.cpp), and *)
(* RecordReader (record_reader.cpp), which follows at its own pace, live   *)
(* through a socket or later from a file.                                  *)
(*                                                                         *)
(* Integers travel as deltas against the last value of their field, a      *)
(* thread is named only when it changes, and frames are defined once and   *)
(* then pushed by number, so a record means nothing without every record   *)
(* before it.  How a record becomes bytes is not modelled.                 *)
(***************************************************************************)
EXTENDS Integers, Sequences

CONSTANTS
    Tids,           \* thread ids, as generate_next_tid hands them out
    Word,           \* the fields that travel as deltas are 0..Word-1
    Codes,          \* function name, file name and entry flag of a frame
    Lines,          \* line numbers
    Ips,            \* instruction pointers of native frames
    Addresses,      \* of memory blocks
    Names,          \* of threads
    Images,         \* of shared objects
    Sizes,          \* of allocations, and resident set sizes
    Allocators,     \* which of malloc, free, mmap and munmap are called
    PopLimit,       \* 16: frames that one FRAME_POP record can pop
    NativeTraces,   \* is the tracker recording native traces?
    Faults,         \* what may go wrong: "write", "kill"
    Calls,          \* which of the tracker's methods are called
    MaxPops,        \* bound: frames popped by one call
    MaxPushes,      \* bound: frames pushed by one call
    MaxImages,      \* bound: shared objects that are mapped
    MaxRecords      \* bound: records after which no method begins.  That
                    \* numbers fit a word is a bound as well.

ASSUME WordAssumption == Word \in Nat /\ Word > 1
ASSUME TidAssumption == Tids \subseteq Nat \ {0}
ASSUME FieldAssumption ==
    /\ Lines \subseteq 0..(Word - 1)
    /\ Ips \subseteq 0..(Word - 1)
    /\ Addresses \subseteq 0..(Word - 1)
    /\ Sizes \subseteq Nat
    /\ Allocators \subseteq {"malloc", "free", "mmap", "munmap"}
ASSUME LimitAssumption ==
    /\ PopLimit \in Nat \ {0}
    /\ MaxPops \in Nat /\ MaxPushes \in Nat /\ MaxImages \in Nat /\ MaxRecords \in Nat
ASSUME NativeAssumption == NativeTraces \in BOOLEAN

VARIABLES
    call,     \* what the method that holds s_mutex has left to write
    w,        \* the tracker's and the writer's tables; what they have told
    active,   \* the tracker is active
    lost,     \* edges of the native tree whose nodes were never written
    failed,   \* history: a write has failed
    stream,   \* the records written
    closed,   \* the writer is gone
    past,     \* history: w before each record, as long as none failed
    r,        \* the reader's tables and what it has delivered
    pos,      \* records the reader has read
    rstate    \* what RecordReader::nextRecord last came to

writer == <<call, w, active, lost, failed, stream, closed, past>>
reader == <<r, pos, rstate>>
vars   == <<writer, reader>>

Words == 0..(Word - 1)

\* DeltaEncodedFields, but for thread_id, which travels as it is.
Fields == {"instruction_pointer", "data_pointer", "native_frame_id",
           "python_frame_id", "python_line_number"}

RawFrame == [code : Codes, line : Lines]
NoName == "no name"
CutOff == "cut off"  \* a part of a name
NoTid == 0

\* One side's tables: the last thread and field values, the frames by number,
\* the native frames by number, the stack and name of each thread, the images
\* of each generation, and the events.
View(tid, last, frames, natives, stacks, names, images, events) ==
    [tid |-> tid, last |-> last, frames |-> frames, natives |-> natives,
     stacks |-> stacks, names |-> names, images |-> images, events |-> events]

WithTid(v, tid) ==
    View(tid, v.last, v.frames, v.natives, v.stacks, v.names, v.images, v.events)
WithLast(v, last) ==
    View(v.tid, last, v.frames, v.natives, v.stacks, v.names, v.images, v.events)
WithFrames(v, frames) ==
    View(v.tid, v.last, frames, v.natives, v.stacks, v.names, v.images, v.events)
WithNatives(v, natives) ==
    View(v.tid, v.last, v.frames, natives, v.stacks, v.names, v.images, v.events)
WithStack(v, t, stack) ==
    View(v.tid, v.last, v.frames, v.natives, [v.stacks EXCEPT ![t] = stack],
         v.names, v.images, v.events)
WithName(v, t, name) ==
    View(v.tid, v.last, v.frames, v.natives, v.stacks,
         [u \in DOMAIN v.names \cup {t} |-> IF u = t THEN name ELSE v.names[u]],
         v.images, v.events)
WithImages(v, images) ==
    View(v.tid, v.last, v.frames, v.natives, v.stacks, v.names, images, v.events)
WithEvent(v, event) ==
    View(v.tid, v.last, v.frames, v.natives, v.stacks, v.names, v.images,
         Append(v.events, event))

NewView == View(NoTid, [f \in Fields |-> 0], <<>>, <<>>, [t \in Tids \cup {NoTid} |-> <<>>], <<>>, <<>>, <<>>)

-----------------------------------------------------------------------------
(* Deltas. *)

\* A sum or difference of two words, modulo 2^width.
Wrap(n) == IF n < 0 THEN n + Word ELSE IF n >= Word THEN n - Word ELSE n

\* RecordWriter::writeIntegralDelta and RecordReader::readIntegralDelta.
Deltas(v, values) == [f \in DOMAIN values |-> Wrap(values[f] - v.last[f])]
Values(v, deltas) == [f \in DOMAIN deltas |-> Wrap(v.last[f] + deltas[f])]

Updated(v, values) ==
    WithLast(v, [f \in Fields |-> IF f \in DOMAIN values THEN values[f] ELSE v.last[f]])

NoValues == [f \in {} |-> 0]
Record(kind, deltas, data) == [kind |-> kind, deltas |-> deltas, data |-> data]
Trailer == Record("TRAILER", NoValues, <<>>)

-----------------------------------------------------------------------------
(* The tracker and its writer. *)

\* What a reader is told of an allocation or deallocation.
Event(tid, allocation, node, generation, stack) ==
    [tid |-> tid, stack |-> stack,
     allocation |-> [allocator |-> allocation.allocator, address |-> allocation.address,
                     size |-> allocation.size, node |-> node, generation |-> generation]]

NoAllocation == [allocator |-> "none", address |-> 0, size |-> 0]
AllocationRecord ==
    [allocator : Allocators, address : Addresses, size : Sizes \cup {0}]

IsDeallocator(allocator) == allocator \in {"free", "munmap"}

\* What a method has to write: a name, pops, pushes, images, a native trace
\* of which the first `found` frames lead to `node`, an allocation.
Work(tid, name, pops, pushes, images, trace, found, node, allocation) ==
    [tid |-> tid, name |-> name, pops |-> pops, pushes |-> pushes, images |-> images,
     trace |-> trace, found |-> found, node |-> node, allocation |-> allocation]

Idle == Work(NoTid, NoName, 0, <<>>, <<>>, <<>>, 0, 0, NoAllocation)

\* FrameCollection::getIndex numbers frames from 0.
Registered(frame) == \E i \in 1..Len(w.frames) : w.frames[i] = frame
FrameId(frame) == (CHOOSE i \in 1..Len(w.frames) : w.frames[i] = frame) - 1

\* The child of a node of the tree of native frames, if there is one.
Node(ip, index) == [ip |-> ip, index |-> index]
Edge(node, child) == [node |-> node, child |-> child]
Edges == {Edge(w.natives[i], i) : i \in 1..Len(w.natives)} \cup lost
KnownNode(ip, index) == \E e \in Edges : e.node = Node(ip, index)
NodeId(ip, index) == (CHOOSE e \in Edges : e.node = Node(ip, index)).child

\* A record of which only a part was written: of a thread's name, or another.
WritesName == call.name # NoName /\ w.tid = call.tid
Torn == Record("TORN", NoValues, WritesName)

\* A record is written whole.  `after` are the tables with it.
Write(kind, values, data, after) ==
    /\ stream' = Append(stream, Record(kind, Deltas(w, values), data))
    /\ w' = after
    /\ past' = IF failed THEN past ELSE Append(past, after)
    /\ UNCHANGED <<active, lost, failed>>

\* A write fails, before the record or within it.  `left` is what that may
\* leave in the tables.
Loses(left) ==
    /\ "write" \in Faults
    /\ stream' \in {stream, Append(stream, Torn)}
    /\ w' \in left
    /\ failed' = TRUE
    /\ UNCHANGED past

\* The method reports the failure and deactivates tracking.
Fail(left) == Loses(left) /\ active' = FALSE /\ UNCHANGED lost

\* The first k values are cached for the next deltas, one after the other.
Cached(values, order) ==
    {Updated(w, [f \in {order[i] : i \in 1..k} |-> values[f]]) : k \in 0..Len(order)}

\* A method begins: a tracker is active and s_mutex is free.
Begin(name, work) ==
    /\ name \in Calls
    /\ call = Idle /\ active /\ ~closed /\ Len(stream) < MaxRecords
    /\ call' = work
    /\ UNCHANGED <<w, active, lost, failed, stream, closed, past, reader>>

\* Tracker::trackAllocationImpl: a name cached for the thread, the pops and
\* pushes that PythonStack emits, the native trace, the allocation.
TrackAllocation(t) ==
    \E name \in Names \cup {NoName}, pops \in 0..MaxPops, n \in 0..MaxPushes,
       a \in AllocationRecord :
        /\ ~IsDeallocator(a.allocator) /\ a.size \in Sizes
        /\ pops <= Len(w.stacks[t])
        /\ \E pushes \in [1..n -> RawFrame],
              trace \in IF NativeTraces THEN {<<>>} \cup {<<i>> : i \in Ips} \cup (Ips \X Ips) ELSE {<<>>} :
            Begin("trackAllocation", Work(t, name, pops, pushes, <<>>, trace, 0, 0, a))

\* Tracker::trackDeallocationImpl.
TrackDeallocation(t) ==
    \E name \in Names \cup {NoName}, a \in AllocationRecord :
        /\ IsDeallocator(a.allocator)
        /\ a.size \in IF a.allocator = "free" THEN {0} ELSE Sizes
        /\ Begin("trackDeallocation", Work(t, name, 0, <<>>, <<>>, <<>>, 0, 0, a))

\* PythonStackTracker::clear, which only pops.
ForgetPythonStack(t) ==
    \E pops \in 1..MaxPops :
        /\ pops <= Len(w.stacks[t])
        /\ Begin("forgetPythonStack", Work(t, NoName, pops, <<>>, <<>>, <<>>, 0, 0, NoAllocation))

RegisterThreadName(t) ==
    \E name \in Names :
        Begin("registerThreadName", Work(t, name, 0, <<>>, <<>>, <<>>, 0, 0, NoAllocation))

\* BackgroundThread::captureMemorySnapshot, a single record.
CaptureMemorySnapshot ==
    /\ "captureMemorySnapshot" \in Calls
    /\ call = Idle /\ active /\ ~closed /\ Len(stream) < MaxRecords
    /\ \E rss \in Sizes :
        \/ Write("MEMORY_RECORD", NoValues, rss, WithEvent(w, [rss |-> rss]))
        \/ Fail({w})
    /\ UNCHANGED <<call, closed, reader>>

\* Tracker::updateModuleCacheImpl: MEMORY_MAP_START, then the images.
UpdateModuleCache ==
    /\ "updateModuleCache" \in Calls /\ NativeTraces
    /\ call = Idle /\ active /\ ~closed /\ Len(stream) < MaxRecords
    /\ \/ /\ Write("MEMORY_MAP_START", NoValues, <<>>, WithImages(w, Append(w.images, <<>>)))
          /\ \E n \in 0..MaxImages : \E images \in [1..n -> Images] :
                call' = Work(NoTid, NoName, 0, <<>>, images, <<>>, 0, 0, NoAllocation)
       \/ /\ Fail({w})
          /\ UNCHANGED call
    /\ UNCHANGED <<closed, reader>>

WriteSegments ==
    /\ call.images # <<>>
    /\ LET g == Len(w.images) IN
       \/ /\ Write("SEGMENT_HEADER", NoValues, Head(call.images),
                   WithImages(w, [w.images EXCEPT ![g] = Append(@, Head(call.images))]))
          /\ call' = Work(NoTid, NoName, 0, <<>>, Tail(call.images), <<>>, 0, 0, NoAllocation)
       \/ Fail({w}) /\ call' = Idle
    /\ UNCHANGED <<closed, reader>>

\* The native trace is known by its node, if there is one.
TraceFound == call.found = Len(call.trace)

\* The next record of the method is about a thread.
NeedsThread ==
    \/ call.name # NoName
    \/ call.pops > 0
    \/ /\ call.pushes # <<>>
       /\ Registered(Head(call.pushes))
    \/ /\ call.pushes = <<>> /\ TraceFound
       /\ call.allocation # NoAllocation

\* What is left of the method once the record that comes next is written, or
\* could not be: the name; the pops; a push; the allocation.
After(pops, pushes) ==
    Work(call.tid, NoName, pops, pushes, <<>>, call.trace, call.found, call.node, call.allocation)
AfterName == After(call.pops, call.pushes)
AfterPops(left) == After(left, call.pushes)
AfterPush(left) == After(0, left)
AfterTrace(found, node) ==
    Work(call.tid, NoName, 0, <<>>, <<>>, call.trace, found, node, call.allocation)

\* The next record could not be written.  A frame that was not pushed ends the
\* pushes, pops are not tried again, and the allocation is written anyway.
Abandoned ==
    IF call.name # NoName THEN AfterName
    ELSE IF call.pops > 0 THEN AfterPops(0)
    ELSE IF call.pushes # <<>> THEN AfterPush(<<>>)
    ELSE Idle

\* A call that has nothing left is over.
Proceed(work) ==
    call' = IF /\ work.name = NoName /\ work.pops = 0 /\ work.pushes = <<>>
               /\ work.allocation = NoAllocation
            THEN Idle ELSE work

\* StreamingRecordWriter::maybeWriteContextSwitchRecordUnsafe.
WriteContextSwitch ==
    /\ call.tid # NoTid /\ NeedsThread /\ w.tid # call.tid
    /\ LET after == WithTid(w, call.tid) IN
       \/ Write("CONTEXT_SWITCH", NoValues, call.tid, after) /\ UNCHANGED call
       \/ Fail({after}) /\ Proceed(Abandoned)
    /\ UNCHANGED <<closed, reader>>

\* Mutant: the current thread is not compared.
InAnyThread == call.tid # NoTid /\ NeedsThread

\* The record that comes next may be written: its thread is the current one.
InThread == call.tid # NoTid /\ NeedsThread /\ w.tid = call.tid

WriteThreadRecord ==
    /\ InThread /\ call.name # NoName
    /\ \/ Write("THREAD_RECORD", NoValues, call.name, WithName(w, call.tid, call.name))
       \/ Fail({w})
    /\ Proceed(AfterName)
    /\ UNCHANGED <<closed, reader>>

\* Mutant: a chunk of frames is counted from one.
WriteFramePopOffByOne ==
    /\ InThread /\ call.name = NoName /\ call.pops > 0
    /\ LET n == IF call.pops > PopLimit THEN PopLimit ELSE call.pops
           stack == w.stacks[call.tid]
       IN \/ /\ Write("FRAME_POP", NoValues, n,
                      WithStack(w, call.tid, SubSeq(stack, 1, Len(stack) - n)))
             /\ Proceed(AfterPops(call.pops - n))
          \/ Fail({w}) /\ Proceed(Abandoned)
    /\ UNCHANGED <<closed, reader>>

\* One FRAME_POP record of a FramePop: at most PopLimit frames.
WriteFramePop ==
    /\ InThread /\ call.name = NoName /\ call.pops > 0
    /\ LET n == IF call.pops > PopLimit THEN PopLimit ELSE call.pops
           stack == w.stacks[call.tid]
       IN \/ /\ Write("FRAME_POP", NoValues, n - 1,
                      WithStack(w, call.tid, SubSeq(stack, 1, Len(stack) - n)))
             /\ Proceed(AfterPops(call.pops - n))
          \/ Fail({w}) /\ Proceed(Abandoned)
    /\ UNCHANGED <<closed, reader>>

\* Tracker::registerFrame: a frame seen for the first time is defined.  The
\* push is tried even if that fails.
RegisterFrame ==
    /\ call.name = NoName /\ call.pops = 0
    /\ call.pushes # <<>> /\ ~Registered(Head(call.pushes))
    /\ Len(w.frames) < Word
    /\ LET f == Head(call.pushes)
           values == [python_frame_id |-> Len(w.frames), python_line_number |-> f.line]
           frames == Append(w.frames, f)
       IN \/ Write("FRAME_INDEX", values, f.code, WithFrames(Updated(w, values), frames))
          \/ Fail({WithFrames(v, frames) :
                     v \in Cached(values, <<"python_frame_id", "python_line_number">>)})
    /\ UNCHANGED <<call, closed, reader>>

\* Tracker::pushFrame.
PushFrame ==
    /\ InThread /\ call.name = NoName /\ call.pops = 0 /\ call.pushes # <<>>
    /\ LET f == Head(call.pushes)
           values == [python_frame_id |-> FrameId(f)]
           after == WithStack(Updated(w, values), call.tid, Append(w.stacks[call.tid], f))
       IN \/ Write("FRAME_PUSH", values, <<>>, after) /\ Proceed(AfterPush(Tail(call.pushes)))
          \/ Fail(Cached(values, <<"python_frame_id">>)) /\ Proceed(Abandoned)
    /\ UNCHANGED <<closed, reader>>

\* FrameTree::getTraceIndex takes the frames of the trace from the outermost.
NextInTrace == call.trace[call.found + 1]
MayFindNode ==
    /\ call.name = NoName /\ call.pops = 0 /\ call.pushes = <<>>
    /\ ~TraceFound

FindNode ==
    /\ MayFindNode /\ KnownNode(NextInTrace, call.node)
    /\ call.node <= Len(w.natives)
    /\ call' = AfterTrace(call.found + 1, NodeId(NextInTrace, call.node))
    /\ UNCHANGED <<w, active, lost, failed, stream, closed, past, reader>>

\* A frame that is new in its place gets an edge, a record and a node.  If the
\* record fails the edge stays without its node, and the next frame is looked
\* for at the root; tracking goes on.
RegisterNode ==
    /\ MayFindNode /\ ~KnownNode(NextInTrace, call.node)
    /\ call.node <= Len(w.natives) /\ Len(w.natives) < Word - 1
    /\ LET node == Node(NextInTrace, call.node)
           values == [instruction_pointer |-> node.ip, native_frame_id |-> node.index]
       IN \/ /\ Write("NATIVE_TRACE_INDEX", values, <<>>,
                      WithNatives(Updated(w, values), Append(w.natives, node)))
             /\ call' = AfterTrace(call.found + 1, Len(w.natives) + 1)
          \/ /\ Loses(Cached(values, <<"instruction_pointer", "native_frame_id">>))
             /\ lost' = lost \cup {Edge(node, Len(w.natives) + 1)}
             /\ call' = AfterTrace(call.found + 1, 0)
             /\ UNCHANGED active
    /\ UNCHANGED <<closed, reader>>

\* An edge whose node was not written leads beyond the end of the tree: the
\* process crashes, of the things that may happen.
FollowLostEdge ==
    /\ MayFindNode /\ call.node > Len(w.natives)
    /\ call' = Idle /\ closed' = TRUE
    /\ UNCHANGED <<w, active, lost, failed, stream, past, reader>>

\* The last record of trackAllocationImpl or trackDeallocationImpl.
MayWriteAllocation ==
    /\ InThread /\ call.name = NoName /\ call.pops = 0 /\ call.pushes = <<>>
    /\ TraceFound /\ call.allocation # NoAllocation

\* What the event is to say of the thread's Python stack.
StackOf(t, a) == IF IsDeallocator(a.allocator) THEN <<>> ELSE w.stacks[t]

WriteAllocation ==
    /\ MayWriteAllocation
    /\ ~NativeTraces \/ IsDeallocator(call.allocation.allocator)
    /\ LET a == call.allocation
           values == [data_pointer |-> a.address]
           e == Event(call.tid, a, 0, 0, StackOf(call.tid, a))
       IN \/ Write("ALLOCATION", values, <<a.allocator, a.size>>, WithEvent(Updated(w, values), e))
          \/ Fail(Cached(values, <<"data_pointer">>))
    /\ call' = Idle
    /\ UNCHANGED <<closed, reader>>

WriteNativeAllocation ==
    /\ MayWriteAllocation
    /\ NativeTraces /\ ~IsDeallocator(call.allocation.allocator)
    /\ LET a == call.allocation
           values == [data_pointer |-> a.address, native_frame_id |-> call.node]
           e == Event(call.tid, a, call.node, Len(w.images), w.stacks[call.tid])
       IN \/ Write("ALLOCATION_WITH_NATIVE", values, <<a.allocator, a.size>>,
                   WithEvent(Updated(w, values), e))
          \/ Fail(Cached(values, <<"data_pointer", "native_frame_id">>))
    /\ call' = Idle
    /\ UNCHANGED <<closed, reader>>

\* Tracker::~Tracker writes the trailer, if it can, and drops the writer.
Close ==
    /\ call = Idle /\ ~closed
    /\ closed' = TRUE
    /\ \/ stream' = Append(stream, Trailer)
       \/ "write" \in Faults /\ stream' = stream
    /\ UNCHANGED <<call, w, active, lost, failed, past, reader>>

\* The process is killed, perhaps in the middle of a record.
Kill ==
    /\ "kill" \in Faults /\ ~closed
    /\ closed' = TRUE
    /\ call' = Idle
    /\ stream' \in {stream, Append(stream, Torn)}
    /\ UNCHANGED <<w, active, lost, failed, past, reader>>

-----------------------------------------------------------------------------
(* The reader: RecordReader::nextRecordFromAllAllocationsFile. *)

Current == stream[pos + 1]

\* The next record is complete and of this kind.
Reads(kind) ==
    /\ rstate = "reading" /\ pos < Len(stream)
    /\ Current.kind = kind
    /\ pos' = pos + 1
    /\ UNCHANGED writer

Goes(view) == r' = view /\ UNCHANGED rstate
Stops(state) == rstate' = state /\ UNCHANGED r

ReadContextSwitch ==
    /\ Reads("CONTEXT_SWITCH")
    /\ Goes(WithTid(r, Current.data))

\* A frame number that is already in the map is an error.
ReadFrameIndex ==
    /\ Reads("FRAME_INDEX")
    /\ LET x == Values(r, Current.deltas)
           id == x.python_frame_id
       IN IF id \in DOMAIN r.frames
          THEN Stops("error")
          ELSE Goes(WithFrames(Updated(r, x),
                  [i \in DOMAIN r.frames \cup {id} |->
                      IF i = id THEN [code |-> Current.data, line |-> x.python_line_number]
                      ELSE r.frames[i]]))

\* Mutant: the number of a pushed frame is not remembered for the next delta.
ReadFramePushForgetting ==
    /\ Reads("FRAME_PUSH")
    /\ LET x == Values(r, Current.deltas)
       IN Goes(WithStack(r, r.tid, Append(r.stacks[r.tid], x.python_frame_id)))

ReadFramePush ==
    /\ Reads("FRAME_PUSH")
    /\ LET x == Values(r, Current.deltas)
       IN Goes(WithStack(Updated(r, x), r.tid, Append(r.stacks[r.tid], x.python_frame_id)))

\* To pop an empty vector is undefined.
ReadFramePop ==
    /\ Reads("FRAME_POP")
    /\ LET stack == r.stacks[r.tid]
           count == Current.data + 1
       IN IF count > Len(stack)
          THEN Stops("undefined")
          ELSE Goes(WithStack(r, r.tid, SubSeq(stack, 1, Len(stack) - count)))

\* Mutant: a native frame's number and address are not remembered.
ReadNativeFrameIndexForgetting ==
    /\ Reads("NATIVE_TRACE_INDEX")
    /\ LET x == Values(r, Current.deltas)
       IN Goes(WithNatives(r, Append(r.natives, Node(x.instruction_pointer, x.native_frame_id))))

ReadNativeFrameIndex ==
    /\ Reads("NATIVE_TRACE_INDEX")
    /\ LET x == Values(r, Current.deltas)
       IN Goes(WithNatives(Updated(r, x),
                  Append(r.natives, Node(x.instruction_pointer, x.native_frame_id))))

\* The frames of a stack of frame numbers, as Py_GetStackFrame looks them up.
Resolved(v, ids) ==
    [i \in 1..Len(ids) |-> IF ids[i] \in DOMAIN v.frames THEN v.frames[ids[i]] ELSE "unknown"]

\* d_latest_allocation, which nextRecord returns.
Latest(x) ==
    [allocator |-> Current.data[1], address |-> x.data_pointer,
     size |-> IF Current.data[1] = "free" THEN 0 ELSE Current.data[2]]

ReadAllocation ==
    /\ Reads("ALLOCATION")
    /\ LET x == Values(r, Current.deltas)
           a == Latest(x)
       IN Goes(WithEvent(Updated(r, x),
                  Event(r.tid, a, 0, 0,
                        IF IsDeallocator(a.allocator) THEN <<>>
                        ELSE Resolved(r, r.stacks[r.tid]))))

ReadNativeAllocation ==
    /\ Reads("ALLOCATION_WITH_NATIVE")
    /\ LET x == Values(r, Current.deltas)
       IN Goes(WithEvent(Updated(r, x),
                  Event(r.tid, Latest(x), x.native_frame_id, Len(r.images),
                        Resolved(r, r.stacks[r.tid]))))

ReadThreadRecord ==
    /\ Reads("THREAD_RECORD")
    /\ Goes(WithName(r, r.tid, Current.data))

ReadMemoryRecord ==
    /\ Reads("MEMORY_RECORD")
    /\ Goes(WithEvent(r, [rss |-> Current.data]))

\* SymbolResolver::clearSegments begins a generation; addSegments adds to it.
ReadMemoryMapStart ==
    /\ Reads("MEMORY_MAP_START")
    /\ Goes(WithImages(r, Append(r.images, <<>>)))

ReadSegmentHeader ==
    /\ Reads("SEGMENT_HEADER")
    /\ LET g == Len(r.images) IN
       IF g = 0
       THEN Stops("undefined")
       ELSE Goes(WithImages(r, [r.images EXCEPT ![g] = Append(@, Current.data)]))

ReadTrailer ==
    /\ Reads("TRAILER")
    /\ Stops("end")

\* The end of the file, or of the connection, before any trailer.
ReadEndOfFile ==
    /\ rstate = "reading" /\ closed /\ pos = Len(stream)
    /\ Stops("end")
    /\ UNCHANGED <<writer, pos>>

\* A record of which only a part was written: an error if it is the last,
\* else what follows is taken for its missing part.  That is not modelled.
\* getline takes the end of a socket's stream, and of a compressed file's, for
\* the end of a name; the end of the stream is noticed next.
ReadTorn ==
    /\ rstate = "reading" /\ pos < Len(stream)
    /\ Current.kind = "TORN"
    /\ \/ pos + 1 < Len(stream) /\ Stops("garbled")
       \/ pos + 1 = Len(stream) /\ closed /\ Stops("error")
       \/ /\ pos + 1 = Len(stream) /\ closed /\ Current.data
          /\ r' = WithName(r, r.tid, CutOff) /\ rstate' = "end"
    /\ UNCHANGED <<writer, pos>>

-----------------------------------------------------------------------------
Init ==
    /\ call = Idle /\ w = NewView /\ active = TRUE /\ lost = {} /\ failed = FALSE
    /\ stream = <<>> /\ closed = FALSE /\ past = <<NewView>>
    /\ r = NewView /\ pos = 0 /\ rstate = "reading"

\* A method that has begun goes on with its next record.
WriterStep ==
    \/ WriteContextSwitch \/ WriteThreadRecord \/ WriteFramePop \/ RegisterFrame
    \/ PushFrame \/ FindNode \/ RegisterNode \/ FollowLostEdge \/ WriteAllocation
    \/ WriteNativeAllocation \/ WriteSegments

ReaderStep ==
    \/ ReadContextSwitch \/ ReadFrameIndex \/ ReadFramePush \/ ReadFramePop
    \/ ReadNativeFrameIndex \/ ReadAllocation \/ ReadNativeAllocation
    \/ ReadThreadRecord \/ ReadMemoryRecord \/ ReadMemoryMapStart
    \/ ReadSegmentHeader \/ ReadTrailer \/ ReadEndOfFile \/ ReadTorn

\* The capture is over and has been read.
Done == closed /\ rstate # "reading" /\ UNCHANGED vars

Next ==
    \/ WriterStep \/ ReaderStep \/ CaptureMemorySnapshot \/ UpdateModuleCache
    \/ Close \/ Kill \/ Done
    \/ \E t \in Tids :
        TrackAllocation(t) \/ TrackDeallocation(t) \/ ForgetPythonStack(t) \/ RegisterThreadName(t)

Spec == Init /\ [][Next]_vars

\* A reader that polls until the stream ends.
FairSpec == Spec /\ WF_vars(ReaderStep)

-----------------------------------------------------------------------------
(* Properties *)

\* The tables as they were before the first write that failed.
Told == past[Len(past)]

\* What the reader has built is what the tracker had told at that record.
InStep(p) ==
    /\ r.tid = p.tid /\ r.last = p.last /\ r.natives = p.natives
    /\ r.names = p.names /\ r.images = p.images /\ r.events = p.events
    /\ r.frames = [i \in 0..(Len(p.frames) - 1) |-> p.frames[i + 1]]
    /\ \A t \in Tids : Resolved(r, r.stacks[t]) = p.stacks[t]

\* Tables hold words and threads, and the reader does not overtake the writer.
TypeOK ==
    /\ active \in BOOLEAN /\ failed \in BOOLEAN /\ closed \in BOOLEAN
    /\ ~active \/ lost # {} => failed
    /\ \A v \in {w, r} :
        /\ v.tid \in Tids \cup {NoTid}
        /\ v.last \in [Fields -> Words]
    /\ \A i \in 1..Len(stream) : \A f \in DOMAIN stream[i].deltas : stream[i].deltas[f] \in Words
    /\ pos \in 0..Len(stream)
    /\ rstate \in {"reading", "end", "error", "garbled", "undefined"}
    /\ call.node \in 0..(Len(w.natives) + 1) /\ call.found \in 0..Len(call.trace)

\* The ancestors of each node of the tree, from the outermost.
Traces(natives) ==
    LET trace[n \in 0..Len(natives)] ==
            IF n = 0 THEN <<>> ELSE Append(trace[natives[n].index], natives[n].ip)
    IN trace

\* The node that an allocation's record names stands for the frames of its
\* native trace, and no two nodes stand for the same frames.
NodesAreTraces ==
    LET traces == Traces(w.natives) IN
    /\ ~failed => traces[call.node] = SubSeq(call.trace, 1, call.found)
    /\ \A m, n \in DOMAIN traces : traces[m] = traces[n] => m = n

\* After any number of records a reader has exactly the tables the tracker had
\* when it wrote that many: threads, last values, frame numbers, stacks, native
\* frames, names, generations of images and events agree, as long as every
\* record up to there was written without a failure; and the native frames are
\* those of the traces that were meant.  Each delta is a word.
ReaderInLockstep ==
    /\ TypeOK /\ NodesAreTraces
    /\ rstate = "reading" /\ pos < Len(past) => InStep(past[pos + 1])

\* A reader fails only on a record that was not completely written: it never
\* finds a frame number defined twice, pops a frame that is not there or adds
\* an image to no generation.
ReaderFailsOnlyOnTornRecords ==
    /\ rstate \in {"garbled", "undefined"} => failed
    /\ rstate = "error" /\ ~failed => Current.kind = "TORN" /\ pos + 1 = Len(stream)

\* The records implement the promise of RecordLog.
NodeIds == IF NativeTraces THEN Words ELSE {0}
Generations == IF NativeTraces THEN 0..MaxRecords ELSE {0}
Log == INSTANCE RecordLog WITH
    Frames <- RawFrame,
    Allocations <- [allocator : Allocators, address : Addresses,
                    size : Sizes \cup {0}, node : NodeIds, generation : Generations],
    RSS <- Sizes,
    stacks <- [t \in Tids |-> Told.stacks[t]],
    names <- Told.names,
    events <- Told.events,
    delivered <- IF Len(r.events) <= Len(Told.events) THEN r.events
                 ELSE SubSeq(r.events, 1, Len(Told.events))

\* Records written without a failure are a log to whoever reads them: every
\* allocation is delivered once, in order, with the stack of its thread, and
\* all of them in the end if somebody reads.
DeliversLog == Log!FairSpec
=============================================================================
