---------------------------- MODULE PythonStack ----------------------------
(***************************************************************************)
(* The shadow Python stack of memray: PythonStackTracker and the trace     *)
(* functions of tracking_api.cpp, driven by threads that call, return,     *)
(* move from line to line, enter and leave the GIL and allocate.           *)
(*                                                                         *)
(* Every thread keeps a thread-local copy of its Python stack (tls) that   *)
(* the profile function maintains under the GIL and that the allocation    *)
(* hooks read without it.  Frames reach the capture file lazily, when an   *)
(* allocation happens: `emitted` is the stack that a reader of the file    *)
(* has rebuilt for each thread from the FramePush and FramePop records.    *)
(***************************************************************************)
EXTENDS Integers, Sequences, FiniteSets

CONSTANTS
    Threads,          \* OS threads of the traced process
    NoThread,         \* owner of a lock that is free
    Codes,            \* code objects: a function with its file name
    Lines,            \* line numbers
    MaxDepth,         \* bound: depth of a Python stack
    MaxGen,           \* bound: trackers created in the life of the process
    Faults,           \* what may fail: "write" (output), "rss" (statm)
    MidCallCallbacks  \* threads whose C code calls PyGILState_Ensure when a
                      \* tracker started under a Python call still in progress

ASSUME ConstantsAssumption ==
    /\ NoThread \notin Threads
    /\ Lines \subseteq Nat \ {0}
    /\ MaxDepth \in Nat
    /\ MaxGen \in Nat
    /\ MidCallCallbacks \subseteq Threads

VARIABLES
    gil,       \* the thread that holds the GIL
    tstate,    \* does the thread have a PyThreadState?
    pystack,   \* the interpreter's stack of the thread, oldest frame first
    prof,      \* tstate->c_profilefunc
    inst,      \* s_instance # nullptr: a tracker is active
    open,      \* s_instance_owner's record writer has not been reset
    hooked,    \* the symbol patches are in place
    gen,       \* s_tracker_generation
    captured,  \* s_initial_stack_by_thread, in the order get() pushes it
    tls,       \* the thread-local PythonStackTracker
    lock,      \* owner of Tracker::s_mutex
    pc,        \* where the thread is in memray's code
    emitted    \* the stack a reader of the file holds for the thread

interpreter == <<gil, tstate, pystack, prof>>
tracker     == <<inst, open, hooked>>
shadow      == <<gen, captured, tls>>
vars        == <<interpreter, tracker, shadow, lock, pc, emitted>>

NOT_EMITTED == "NOT_EMITTED"
MAY_HAVE_CHANGED == "EMITTED_BUT_LINE_NUMBER_MAY_HAVE_CHANGED"
HAS_NOT_CHANGED == "EMITTED_AND_LINE_NUMBER_HAS_NOT_CHANGED"
FrameState == {NOT_EMITTED, MAY_HAVE_CHANGED, HAS_NOT_CHANGED}

\* A frame of the interpreter; inC: it has called a C function.
PyFrame == [code : Codes, line : Lines, inC : BOOLEAN]

\* What the file records of a frame.
RawFrame == [code : Codes, line : Lines \cup {0}]

\* `at` is the PyFrameObject pointer: the depth of the frame it points to.
LazilyEmittedFrame ==
    [at : Nat, code : Codes, line : Lines \cup {0}, state : FrameState]

\* c_profilefunc: none of memray's, the Python function start_thread_trace,
\* PyTraceTrampoline or PyTraceFunction.
ProfileFunction == {"none", "starter", "trampoline", "trace"}

Locations == {"run", "track", "emit", "write", "ensure",
              "activate", "restore", "unhook", "close"}

-----------------------------------------------------------------------------
(* The shadow stack as pure operators. *)

\* A frame to be emitted with the given line number.
ToEmit(at, code, line) == [at |-> at, code |-> code, line |-> line, state |-> NOT_EMITTED]

LazyFrame(at, code) == ToEmit(at, code, 0)

WithState(frame, state) ==
    [at |-> frame.at, code |-> frame.code, line |-> frame.line, state |-> state]

\* A thread-local tracker: its generation, pending pops and stack.
Shadow(g, pops, stack) == [gen |-> g, pops |-> pops, stack |-> stack]

\* Every frame of a Python stack, none of them emitted yet.
PythonFrameToStack(frames) ==
    [i \in 1..Len(frames) |-> LazyFrame(i, frames[i].code)]

NewTracker == Shadow(0, 0, <<>>)

\* Mutant: the thread's own copy survives the start of another tracker.
GetKeepingOwnStack(t) == Shadow(gen, tls[t].pops, tls[t].stack)

\* PythonStackTracker::get(): when a tracker has been installed since the
\* thread last looked, its own copy gives way to the captured one.
Get(t) ==
    IF tls[t].gen = gen
    THEN tls[t]
    ELSE Shadow(gen, 0, captured[t])

\* get() takes the captured stack out of the map.
CapturedAfterGet(t) ==
    IF tls[t].gen = gen THEN captured ELSE [captured EXCEPT ![t] = <<>>]

\* PyFrame_GetLineNumber.  0 stands for a read through a dangling pointer.
LineNumber(t, frame) ==
    IF frame.at \in 1..Len(pystack[t]) THEN pystack[t][frame.at].line ELSE 0

MustEmit(t, frame) ==
    \/ frame.state = NOT_EMITTED
    \/ /\ frame.state = MAY_HAVE_CHANGED
       /\ LineNumber(t, frame) # frame.line

\* How many of the oldest frames need no record: the loop that scans the
\* stack from the youngest frame stops at the last of them.
Kept(t, stack) ==
    CHOOSE k \in 0..Len(stack) :
        /\ \A i \in (k + 1)..Len(stack) : MustEmit(t, stack[i])
        /\ k > 0 => ~MustEmit(t, stack[k])

\* Mutant: the frame that stops the loop is not settled.
UnsettledRefreshed(t, stack) ==
    [i \in 1..Len(stack) |->
        IF i > Kept(t, stack)
        THEN ToEmit(stack[i].at, stack[i].code, LineNumber(t, stack[i]))
        ELSE stack[i]]

\* The stack after that loop: line numbers brought up to date.
Refreshed(t, stack) ==
    LET k == Kept(t, stack) IN
    [i \in 1..Len(stack) |->
        IF i > k
        THEN ToEmit(stack[i].at, stack[i].code, LineNumber(t, stack[i]))
        ELSE IF i = k THEN WithState(stack[i], HAS_NOT_CHANGED) ELSE stack[i]]

\* Emitted frames whose line changed are popped, to be pushed again.
ArtificialPops(t, stack) ==
    Cardinality({i \in (Kept(t, stack) + 1)..Len(stack) : stack[i].state = MAY_HAVE_CHANGED})

\* Mutant: the youngest frame is taken to stay on its line.
TrustMostRecentFrameLineNumber(stack) == stack

InvalidateMostRecentFrameLineNumber(stack) ==
    IF stack # <<>> /\ stack[Len(stack)].state = HAS_NOT_CHANGED
    THEN [stack EXCEPT ![Len(stack)] = WithState(stack[Len(stack)], MAY_HAVE_CHANGED)]
    ELSE stack

MarkEmitted(stack, k, last) ==
    [i \in 1..Len(stack) |->
        IF i > k /\ i <= last THEN WithState(stack[i], HAS_NOT_CHANGED) ELSE stack[i]]

\* What the reader does with FramePop(n), then with the FramePush records of
\* frames k+1..last of the stack.
ReadPops(frames, n) == SubSeq(frames, 1, Len(frames) - n)

ReadPushes(frames, stack, k, last) ==
    frames \o [i \in 1..(last - k) |-> [code |-> stack[k + i].code, line |-> stack[k + i].line]]

NumEmitted(stack) == Cardinality({i \in 1..Len(stack) : stack[i].state # NOT_EMITTED})

\* The youngest frame of a Python stack, and the stack with that frame moved to
\* another line, into or out of a C function.
Youngest(stack) == stack[Len(stack)]

SetYoungest(stack, line, inC) ==
    [stack EXCEPT ![Len(stack)] = [code |-> Youngest(stack).code, line |-> line, inC |-> inC]]

\* The stack without its youngest frame.
WithoutYoungest(stack) == SubSeq(stack, 1, Len(stack) - 1)

\* Mutant: a frame whose line may have changed is popped without a record.
PopFrameUnrecorded(s) ==
    IF s.stack = <<>>
    THEN s
    ELSE Shadow(s.gen,
                IF s.stack[Len(s.stack)].state = HAS_NOT_CHANGED THEN s.pops + 1 ELSE s.pops,
                InvalidateMostRecentFrameLineNumber(WithoutYoungest(s.stack)))

PopFrame(s) ==
    IF s.stack = <<>>
    THEN s
    ELSE Shadow(s.gen,
                IF s.stack[Len(s.stack)].state = NOT_EMITTED THEN s.pops ELSE s.pops + 1,
                InvalidateMostRecentFrameLineNumber(WithoutYoungest(s.stack)))

PushFrame(s, at, code) == Shadow(s.gen, s.pops, Append(s.stack, LazyFrame(at, code)))

\* The thread uses get() and leaves `after` behind.
UseTracker(t, after) ==
    /\ tls' = [tls EXCEPT ![t] = after]
    /\ captured' = CapturedAfterGet(t)

-----------------------------------------------------------------------------
Init ==
    /\ gil = NoThread
    /\ tstate = [t \in Threads |-> FALSE]
    /\ pystack = [t \in Threads |-> <<>>]
    /\ prof = [t \in Threads |-> "none"]
    /\ inst = FALSE /\ open = FALSE /\ hooked = FALSE
    /\ gen = 0
    /\ captured = [t \in Threads |-> <<>>]
    /\ tls = [t \in Threads |-> NewTracker]
    /\ lock = NoThread
    /\ pc = [t \in Threads |-> "run"]
    /\ emitted = [t \in Threads |-> <<>>]

\* The thread holds the GIL and runs the program's code, not memray's.
Running(t) == gil = t /\ pc[t] = "run"

\* Bound: the program calls and returns as long as a tracker is active or may
\* still be created.
Observed == inst \/ gen < MaxGen

\* Bound: shadow stacks that no tracker uses any more stay short.
ShadowIsShort(t) == Len(tls[t].stack) <= MaxDepth

(***************************************************************************)
(* Threads, the GIL, and the interpreter's profile events.                 *)
(***************************************************************************)

\* A new OS thread with fresh thread-locals and a fresh tid.  Only those
\* started through the threading module run threading's profile hook.
Spawn(t) ==
    /\ ~tstate[t] /\ pc[t] = "run" /\ Observed
    /\ tstate' = [tstate EXCEPT ![t] = TRUE]
    /\ \E p \in {"none", "starter"} : prof' = [prof EXCEPT ![t] = p]
    /\ tls' = [tls EXCEPT ![t] = NewTracker]
    /\ emitted' = [emitted EXCEPT ![t] = <<>>]
    /\ UNCHANGED <<gil, pystack, tracker, gen, captured, lock, pc>>

\* PyEval_RestoreThread and PyEval_SaveThread: memray does not see them.
TakeGIL(t) ==
    /\ gil = NoThread /\ tstate[t] /\ pc[t] = "run"
    /\ gil' = t
    /\ UNCHANGED <<tstate, pystack, prof, tracker, shadow, lock, pc, emitted>>

DropGIL(t) ==
    /\ Running(t)
    /\ gil' = NoThread
    /\ UNCHANGED <<tstate, pystack, prof, tracker, shadow, lock, pc, emitted>>

\* It is in the body of a Python function.
InPython(t) == Running(t) /\ pystack[t] # <<>> /\ ~Youngest(pystack[t]).inC

\* The effect of install_trace_function on everything but the GIL, once the
\* thread's Python stack is the value of pystack[t] in `frames`.
InstallTraceFunction(t, frames) ==
    IF prof[t] = "trace"
    THEN UNCHANGED <<prof, captured, tls>>
    ELSE /\ prof' = [prof EXCEPT ![t] = "trace"]
         /\ UseTracker(t, Shadow(gen, Get(t).pops, Get(t).stack \o PythonFrameToStack(frames)))

\* May the hook find a thread whose stack was captured in the middle of a
\* Python call?  Only MidCallCallbacks threads; others call back later or have
\* no Python frame.
MayCallBack(t) == t \in MidCallCallbacks \/ pystack[t] = <<>>

\* C code of thread t calls PyGILState_Ensure.  The hook first waits for the
\* GIL in the real function, and only then installs the trace function.
EnsureCall(t) ==
    /\ pc[t] = "run" /\ gil # t
    /\ pystack[t] # <<>> => Youngest(pystack[t]).inC
    /\ prof[t] = "trampoline" => MayCallBack(t)
    /\ IF hooked
       THEN /\ pc' = [pc EXCEPT ![t] = "ensure"]
            /\ UNCHANGED <<gil, tstate>>
       ELSE /\ gil = NoThread
            /\ gil' = t
            /\ tstate' = [tstate EXCEPT ![t] = TRUE]
            /\ UNCHANGED pc
    /\ UNCHANGED <<pystack, prof, tracker, shadow, lock, emitted>>

EnsureReturn(t) ==
    /\ pc[t] = "ensure" /\ gil = NoThread
    /\ gil' = t
    /\ tstate' = [tstate EXCEPT ![t] = TRUE]
    /\ pc' = [pc EXCEPT ![t] = "run"]
    /\ InstallTraceFunction(t, pystack[t])
    /\ UNCHANGED <<pystack, tracker, gen, lock, emitted>>

\* Tracker::forgetPythonStack, run by the destructor of ProfileFunctionGuard
\* when PyTraceFunction is uninstalled from the thread that runs it.
ForgetPythonStack(t) ==
    IF ~inst
    THEN UNCHANGED <<inst, captured, tls, emitted>>
    ELSE /\ lock = NoThread
         /\ UseTracker(t, Shadow(gen, 0, <<>>))
         /\ \/ /\ emitted' = [emitted EXCEPT ![t] =
                                ReadPops(@, Get(t).pops + NumEmitted(Get(t).stack))]
               /\ UNCHANGED inst
            \/ /\ "write" \in Faults
               /\ inst' = FALSE     \* the FramePop is not written: deactivate
               /\ UNCHANGED emitted

\* PyGILState_Release of the outermost PyGILState_Ensure, or the end of a
\* Python thread: the thread state is cleared, its profile function dropped.
Detach(t) ==
    /\ Running(t) /\ Observed /\ pystack[t] = <<>>
    /\ gil' = NoThread
    /\ tstate' = [tstate EXCEPT ![t] = FALSE]
    /\ prof' = [prof EXCEPT ![t] = "none"]
    /\ IF prof[t] = "trace"
       THEN ForgetPythonStack(t)
       ELSE UNCHANGED <<inst, captured, tls, emitted>>
    /\ UNCHANGED <<pystack, open, hooked, gen, lock, pc>>

\* The program calls sys.setprofile.  The call itself is an event that makes
\* a trampoline give way to PyTraceFunction.
SetProfile(t) ==
    /\ InPython(t) /\ Observed
    /\ prof[t] \in {"trampoline", "trace"} /\ ShadowIsShort(t)
    /\ prof' = [prof EXCEPT ![t] = "none"]
    /\ ForgetPythonStack(t)
    /\ UNCHANGED <<gil, tstate, pystack, open, hooked, gen, lock, pc>>

\* PyTraceTrampoline and PyTraceFunction on an event that calls for
\* `after`, the new value of the thread-local tracker.
TraceFunction(t, after) ==
    /\ prof' = [prof EXCEPT ![t] = "trace"]
    /\ IF inst
       THEN UseTracker(t, after)
       ELSE UNCHANGED <<tls, captured>>

\* A Python function is called, from Python or from C: its frame exists when
\* the event arrives.
Call(t) ==
    /\ Running(t) /\ Observed /\ Len(pystack[t]) < MaxDepth
    /\ \E c \in Codes, l \in Lines :
        LET frames == Append(pystack[t], [code |-> c, line |-> l, inC |-> FALSE]) IN
        /\ pystack' = [pystack EXCEPT ![t] = frames]
        /\ \/ /\ prof[t] = "none"
              /\ UNCHANGED <<prof, captured, tls>>
           \/ /\ prof[t] = "starter"
              /\ InstallTraceFunction(t, frames)
           \/ /\ prof[t] \in {"trampoline", "trace"}
              /\ TraceFunction(t, PushFrame(Get(t), Len(frames), c))
    /\ UNCHANGED <<gil, tstate, tracker, gen, lock, pc, emitted>>

\* A Python function returns: its frame still exists when the event arrives.
Return(t) ==
    /\ InPython(t) /\ Observed
    /\ pystack' = [pystack EXCEPT ![t] = WithoutYoungest(@)]
    /\ \/ /\ prof[t] \in {"none", "starter"}
          /\ UNCHANGED <<prof, captured, tls>>
       \/ /\ prof[t] \in {"trampoline", "trace"}
          /\ TraceFunction(t, PopFrame(Get(t)))
    /\ UNCHANGED <<gil, tstate, tracker, gen, lock, pc, emitted>>

\* Python code calls a C function.  PyTraceFunction itself ignores the event.
CCall(t) ==
    /\ InPython(t) /\ Observed
    /\ pystack' = [pystack EXCEPT ![t] = SetYoungest(@, Youngest(@).line, TRUE)]
    /\ \/ /\ prof[t] = "starter"
          /\ InstallTraceFunction(t, pystack[t])
       \/ /\ prof[t] # "starter"
          /\ prof' = [prof EXCEPT ![t] = IF @ = "none" THEN @ ELSE "trace"]
          /\ UNCHANGED <<captured, tls>>
    /\ UNCHANGED <<gil, tstate, tracker, gen, lock, pc, emitted>>

\* The C function returns.
CReturn(t) ==
    /\ Running(t) /\ Observed
    /\ pystack[t] # <<>> /\ Youngest(pystack[t]).inC
    /\ pystack' = [pystack EXCEPT ![t] = SetYoungest(@, Youngest(@).line, FALSE)]
    /\ prof' = [prof EXCEPT ![t] = IF @ = "trampoline" THEN "trace" ELSE @]
    /\ UNCHANGED <<gil, tstate, tracker, shadow, lock, pc, emitted>>

\* The youngest frame moves on to another line.  No event reports it.
NextLine(t) ==
    /\ InPython(t) /\ Observed
    /\ \E l \in Lines : pystack' = [pystack EXCEPT ![t] = SetYoungest(@, l, FALSE)]
    /\ UNCHANGED <<gil, tstate, prof, tracker, shadow, lock, pc, emitted>>

(***************************************************************************)
(* Tracker::trackAllocation, called with or without the GIL.               *)
(***************************************************************************)

TrackAllocation(t) ==
    /\ pc[t] = "run" /\ inst
    /\ pc' = [pc EXCEPT ![t] = "track"]
    /\ UNCHANGED <<interpreter, tracker, shadow, lock, emitted>>

\* Mutant: the singleton is not read again.
LockTrackerUnchecked(t) ==
    /\ pc[t] = "track" /\ lock = NoThread
    /\ lock' = t
    /\ pc' = [pc EXCEPT ![t] = "emit"]
    /\ UNCHANGED <<interpreter, tracker, shadow, emitted>>

\* s_mutex is taken and the singleton read again.
LockTracker(t) ==
    /\ pc[t] = "track" /\ lock = NoThread
    /\ IF inst
       THEN /\ lock' = t
            /\ pc' = [pc EXCEPT ![t] = "emit"]
       ELSE /\ pc' = [pc EXCEPT ![t] = "run"]
            /\ UNCHANGED lock
    /\ UNCHANGED <<interpreter, tracker, shadow, emitted>>

\* emitPendingPushesAndPops up to the point where it reads the singleton,
\* then `finish`, which writes with what it found.
EmitPendingPushesAndPops(t) ==
    /\ pc[t] = "emit"
    /\ pc' = [pc EXCEPT ![t] = "write"]
    /\ LET s == Get(t)
           k == Kept(t, s.stack)
           n == Len(s.stack)
           fresh == Refreshed(t, s.stack)
           pops == s.pops + ArtificialPops(t, s.stack)
           After(left, last) ==
               Shadow(gen, left, InvalidateMostRecentFrameLineNumber(MarkEmitted(fresh, k, last)))
       IN \/ /\ inst            \* every record is written
             /\ UseTracker(t, After(0, n))
             /\ emitted' = [emitted EXCEPT ![t] = ReadPushes(ReadPops(@, pops), fresh, k, n)]
             /\ UNCHANGED inst
          \/ /\ inst            \* a write fails, which deactivates the tracker
             /\ "write" \in Faults
             /\ inst' = FALSE
             /\ \E popped \in BOOLEAN, last \in k..n :
                 /\ UseTracker(t, After(0, last))
                 /\ emitted' = [emitted EXCEPT ![t] =
                        ReadPushes(IF popped THEN ReadPops(@, pops) ELSE @, fresh, k, last)]
          \/ /\ ~inst           \* deactivated since LockTracker: nothing is written
             /\ UseTracker(t, After(pops, k))
             /\ UNCHANGED <<inst, emitted>>
    /\ UNCHANGED <<interpreter, open, hooked, gen, lock>>

\* The allocation record is written; a reader attributes it to emitted[t].
WriteAllocation(t) ==
    /\ pc[t] = "write"
    /\ pc' = [pc EXCEPT ![t] = "run"]
    /\ lock' = NoThread
    /\ \/ UNCHANGED inst
       \/ "write" \in Faults /\ inst' = FALSE
    /\ UNCHANGED <<interpreter, open, hooked, shadow, emitted>>

(***************************************************************************)
(* The life of a tracker, as far as it touches the shadow stacks.  The GIL *)
(* is held from Create to Activate and from Deactivate to CloseWriter.     *)
(***************************************************************************)

\* Tracker::Tracker: capture every thread's stack, install the trampoline.
Create(t) ==
    /\ InPython(t) /\ ~open /\ gen < MaxGen
    /\ \A u \in Threads : pc[u] = "ensure" => MayCallBack(u)
    /\ gen' = gen + 1
    /\ captured' = [u \in Threads |-> IF tstate[u] THEN PythonFrameToStack(pystack[u]) ELSE <<>>]
    /\ prof' = [u \in Threads |-> IF tstate[u] THEN "trampoline" ELSE "none"]
    /\ open' = TRUE /\ hooked' = TRUE
    /\ pc' = [pc EXCEPT ![t] = "activate"]
    /\ UNCHANGED <<gil, tstate, pystack, inst, tls, lock, emitted>>

Activate(t) ==
    /\ pc[t] = "activate" /\ lock = NoThread
    /\ inst' = TRUE
    /\ pc' = [pc EXCEPT ![t] = "run"]
    /\ UNCHANGED <<interpreter, open, hooked, shadow, lock, emitted>>

\* The background thread cannot read the RSS.  It does not take s_mutex.
RssUnavailable ==
    /\ inst /\ "rss" \in Faults
    /\ inst' = FALSE
    /\ UNCHANGED <<interpreter, open, hooked, shadow, lock, pc, emitted>>

\* Tracker::~Tracker starts by deactivating, without s_mutex.
Deactivate(t) ==
    /\ InPython(t) /\ open
    /\ inst' = FALSE
    /\ pc' = [pc EXCEPT ![t] = "restore"]
    /\ UNCHANGED <<interpreter, open, hooked, shadow, lock, emitted>>

RestoreSymbols(t) ==
    /\ pc[t] = "restore" /\ lock = NoThread
    /\ hooked' = FALSE
    /\ pc' = [pc EXCEPT ![t] = "unhook"]
    /\ UNCHANGED <<interpreter, inst, open, shadow, lock, emitted>>

RemoveProfileHooks(t) ==
    /\ pc[t] = "unhook"
    /\ prof' = [u \in Threads |-> "none"]
    /\ captured' = [u \in Threads |-> <<>>]
    /\ pc' = [pc EXCEPT ![t] = "close"]
    /\ UNCHANGED <<gil, tstate, pystack, tracker, gen, tls, lock, emitted>>

CloseWriter(t) ==
    /\ pc[t] = "close" /\ lock = NoThread
    /\ open' = FALSE
    /\ emitted' = [u \in Threads |-> <<>>]
    /\ pc' = [pc EXCEPT ![t] = "run"]
    /\ UNCHANGED <<interpreter, inst, hooked, shadow, lock>>

-----------------------------------------------------------------------------
\* Steps of memray itself, which go on once they have started.
TrackerStep(t) ==
    \/ LockTracker(t) \/ EmitPendingPushesAndPops(t) \/ WriteAllocation(t)
    \/ Activate(t) \/ RestoreSymbols(t) \/ RemoveProfileHooks(t) \/ CloseWriter(t)

Next ==
    \/ RssUnavailable
    \/ \E t \in Threads :
        \/ TrackerStep(t)
        \/ Spawn(t) \/ TakeGIL(t) \/ DropGIL(t) \/ EnsureCall(t) \/ EnsureReturn(t)
        \/ Detach(t) \/ SetProfile(t) \/ Call(t) \/ Return(t) \/ CCall(t) \/ CReturn(t)
        \/ NextLine(t) \/ TrackAllocation(t) \/ Create(t) \/ Deactivate(t)

Spec == Init /\ [][Next]_vars

-----------------------------------------------------------------------------
(* Properties *)

\* Type correctness of the thread-local trackers and of everything around them.
TypeOK ==
    /\ gil \in Threads \cup {NoThread}
    /\ tstate \in [Threads -> BOOLEAN]
    /\ pystack \in [Threads -> Seq(PyFrame)]
    /\ prof \in [Threads -> ProfileFunction]
    /\ inst \in BOOLEAN /\ open \in BOOLEAN /\ hooked \in BOOLEAN
    /\ gen \in Nat
    /\ captured \in [Threads -> Seq(LazilyEmittedFrame)]
    /\ tls \in [Threads -> [gen : Nat, pops : Nat, stack : Seq(LazilyEmittedFrame)]]
    /\ lock \in Threads \cup {NoThread}
    /\ pc \in [Threads -> Locations]
    /\ emitted \in [Threads -> Seq(RawFrame)]

\* Frames 1..k of a shadow stack are the emitted ones.
EmittedUpTo(stack, k) ==
    \A i \in 1..Len(stack) :
        /\ i < k => stack[i].state = HAS_NOT_CHANGED
        /\ i = k => stack[i].state \in {HAS_NOT_CHANGED, MAY_HAVE_CHANGED}
        /\ i > k => stack[i].state = NOT_EMITTED

FramesInOrder(stack) == \E k \in 0..Len(stack) : EmittedUpTo(stack, k)

\* The order of frame states that the loop of emitPendingPushesAndPops relies
\* on to stop early: any number of frames that are emitted and settled, at
\* most one whose line may have changed, any number that were never emitted.
FrameOrder == \A t \in Threads : FramesInOrder(tls[t].stack)

\* The frames of a Python stack, with their lines.
Frames(stack) == [i \in 1..Len(stack) |-> [code |-> stack[i].code, line |-> stack[i].line]]

\* What memray would take the thread's Python stack to be if asked now.
ShadowStack(t) == Get(t).stack

Mirrors(stack, frames) ==
    /\ Len(stack) = Len(frames)
    /\ \A i \in 1..Len(frames) : stack[i].at = i /\ stack[i].code = frames[i].code

\* While a tracker is active, the shadow stack of a thread with a profile
\* function of memray's holds exactly the frames of its Python stack, whether
\* it was maintained by events, rebuilt by install_trace_function or captured
\* by the thread that started the tracker; and a thread that memray does not
\* trace has no shadow stack that could go stale.
ShadowIsPythonStack ==
    inst => \A t \in Threads :
        IF prof[t] \in {"trampoline", "trace"}
        THEN Mirrors(ShadowStack(t), pystack[t])
        ELSE ShadowStack(t) = <<>>

\* While a tracker is active, what a reader has rebuilt for a thread is the
\* emitted part of the shadow stack below the frames whose pops are pending:
\* no FramePop can ever ask a reader for more frames than it holds.
ReaderInSync ==
    inst => \A t \in Threads :
        LET s == Get(t)
            n == NumEmitted(s.stack)
        IN /\ Len(emitted[t]) = n + s.pops
           /\ \A i \in 1..n : emitted[t][i] = [code |-> s.stack[i].code, line |-> s.stack[i].line]

\* An allocation recorded while the tracker is still active is attributed by
\* the reader to the exact stack, with the exact lines, that the allocating
\* thread has at that moment (to no stack at all if it is not traced).  When
\* the tracker has been deactivated since the thread took s_mutex, emission has
\* skipped the frames but the allocation is written all the same.
Attribution ==
    \A t \in Threads : pc[t] = "write" /\ inst =>
        emitted[t] = IF prof[t] \in {"trampoline", "trace"} THEN Frames(pystack[t]) ELSE <<>>

\* A thread inside trackAllocationImpl uses a tracker that is not destroyed
\* under it, although ~Tracker clears the singleton without taking s_mutex.
NoUseAfterClose ==
    \A t \in Threads : pc[t] \in {"emit", "write"} => open /\ lock = t

-----------------------------------------------------------------------------
(* The inductive invariant behind the properties above. *)

\* The thread is past the point where the tracker or its destruction waits.
InTracker(t) == pc[t] \in {"emit", "write"}
InLifecycle(t) == pc[t] \in {"activate", "restore", "unhook", "close"}

LockDiscipline ==
    \A t \in Threads :
        /\ lock = t <=> InTracker(t)
        /\ InTracker(t) => open /\ ~(\E u \in Threads : pc[u] = "activate")

GILDiscipline ==
    \A t \in Threads :
        /\ gil = t => tstate[t] /\ pc[t] # "ensure"
        /\ InLifecycle(t) => gil = t /\ open /\ ~inst
        /\ ~tstate[t] => pystack[t] = <<>> /\ prof[t] = "none"

\* From the capture of the stacks on, until the tracker is deactivated.
Live == inst \/ \E t \in Threads : pc[t] = "activate"

Generations ==
    /\ inst => open
    /\ Live => gen > 0
    /\ \A t \in Threads :
        /\ tls[t].gen <= gen
        /\ pc[t] = "activate" => \A u \in Threads : tls[u].gen # gen
        /\ Live /\ (tls[t].gen = gen \/ ~tstate[t]) => captured[t] = <<>>
        /\ \A i \in 1..Len(captured[t]) : captured[t][i].state = NOT_EMITTED

\* The youngest frame is never taken to stay on its line.
YoungestMayMove ==
    \A t \in Threads :
        tls[t].stack # <<>> => tls[t].stack[Len(tls[t].stack)].state # HAS_NOT_CHANGED

\* No callback is under way in a thread whose stack was captured mid-call.
CallbacksAreFresh ==
    \A t \in Threads : pc[t] = "ensure" /\ prof[t] = "trampoline" => pystack[t] = <<>>

\* The shadow stack against the Python stack; a settled frame has its line.
MirroringOf(t) ==
    IF prof[t] \in {"trampoline", "trace"}
    THEN /\ Mirrors(ShadowStack(t), pystack[t])
         /\ \A i \in 1..Len(ShadowStack(t)) :
                ShadowStack(t)[i].state = HAS_NOT_CHANGED
                    => ShadowStack(t)[i].line = pystack[t][i].line
    ELSE ShadowStack(t) = <<>>

Mirroring == Live => \A t \in Threads : MirroringOf(t)

\* Frames 1..k of a shadow stack are what the reader holds, under n more.
ReadUpTo(frames, stack, k, n) ==
    /\ EmittedUpTo(stack, k)
    /\ Len(frames) = k + n
    /\ \A i \in 1..k : frames[i] = [code |-> stack[i].code, line |-> stack[i].line]

ReadingOf(t) ==
    \E k \in 0..Len(ShadowStack(t)) : ReadUpTo(emitted[t], ShadowStack(t), k, Get(t).pops)

Reading ==
    /\ ~open => \A t \in Threads : emitted[t] = <<>>
    /\ Live => \A t \in Threads : ReadingOf(t)

\* Between the emission and the allocation record nothing is left to emit.
SettledOf(t) ==
    /\ tls[t].gen = gen /\ tls[t].pops = 0
    /\ EmittedUpTo(tls[t].stack, Len(tls[t].stack))
    /\ prof[t] \in {"trampoline", "trace"} /\ tls[t].stack # <<>> =>
        tls[t].stack[Len(tls[t].stack)].line = pystack[t][Len(tls[t].stack)].line

Settled == \A t \in Threads : pc[t] = "write" /\ inst => SettledOf(t)

\* Everything that the steps of the specification preserve together.
IInv ==
    /\ TypeOK /\ LockDiscipline /\ GILDiscipline /\ Generations /\ FrameOrder
    /\ YoungestMayMove /\ CallbacksAreFresh /\ Mirroring /\ Reading /\ Settled
=============================================================================
