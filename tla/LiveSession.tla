----------------------------- MODULE LiveSession -----------------------------
(***************************************************************************)
(* A live session: the command that shows a process live (live, run --live *)
(* or attach), the process that is tracked, the thread that reads its      *)
(* records (BackgroundSocketReader), the thread that fetches snapshots     *)
(* (UpdateThread) and the screen of LiveView.                              *)
(*                                                                         *)
(* What the tracked process does before it listens, and when it ends, is   *)
(* up to it.  With attach it also answers on a control channel, which      *)
(* ErrorReaderThread reads.  Textual is external: it runs handlers one by  *)
(* one and on_unmount before App.run returns.                              *)
(***************************************************************************)
EXTENDS LiveView

CONSTANTS
    Fronts,         \* the commands: "live", "run", "attach"
    Blocks,         \* what may be allocated: [id, tid, stack, size]
    Bursts,         \* sets of blocks that are allocated, or freed, in one go
    MaxQueue,       \* bound: the messages waiting for the screen
    MaxWire,        \* bound: the bursts on their way
    Bounds          \* for each command: how many events there are, the keys that
                    \* the user presses and, twice each, the bursts; and how
                    \* often the user presses Ctrl-C

ASSUME BurstsAssumption == Bursts \subseteq SUBSET Blocks
ASSUME BlocksAssumption == IsFiniteSet(Blocks) /\ \A b \in Blocks : b.size \in Nat

VARIABLES
    front,
    ui, exc, outcome,   \* the main thread, what it is raising, how it ended
    remote, status,     \* the tracked process, and its end
    wire, allocated, sent,      \* bursts not read yet, live blocks, how many
    control, er, error, sigint, \* the control channel and its reader
    impl, connected, d_stop_thread, bg, pending, heap,
    ut, update_requested, canceled, fetched, queue,
    keys, interrupts,
    lost, missed, stale, abandoned \* histories: see Clear, Return, Add, Interrupted

main == <<front, ui, exc, outcome>>
process == <<remote, status, wire, allocated, sent>>
channel == <<control, er, error, sigint>>
reader == <<impl, connected, d_stop_thread, bg, pending, heap>>
updates == <<ut, update_requested, canceled, fetched, queue>>
bounds == <<keys, interrupts>>
histories == <<lost, missed, stale, abandoned>>
vars == <<main, process, channel, reader, updates, bounds, histories, view>>

InitSession ==
    /\ front \in Fronts
    /\ ui = "connecting" /\ exc = "none" /\ outcome = "none"
    /\ remote = "starting" /\ status = "running"
    /\ wire = <<>> /\ allocated = {} /\ sent = 0
    /\ control = "open" /\ er = IF front = "attach" THEN "reading" ELSE "none"
    /\ error = "unset" /\ sigint = FALSE
    /\ impl = FALSE /\ connected = FALSE /\ d_stop_thread = FALSE
    /\ bg = "none" /\ pending = <<>> /\ heap = {}
    /\ ut = "new" /\ update_requested = TRUE /\ canceled = FALSE
    /\ fetched = EmptySnapshot /\ queue = <<>>
    /\ keys = 0 /\ interrupts = 0
    /\ lost = FALSE /\ missed = FALSE /\ stale = FALSE /\ abandoned = FALSE

Init == InitView /\ InitSession

-----------------------------------------------------------------------------
(* The tracked process *)

ProcessOnly == UNCHANGED <<main, er, error, sigint, reader, updates, bounds, histories, view>>

RemoteListens ==
    /\ remote = "starting" /\ remote' = "listening"
    /\ ProcessOnly /\ UNCHANGED <<status, wire, allocated, sent, control>>

\* The header is written by the constructor of the tracker.
RemoteTracks ==
    /\ remote = "accepted" /\ remote' = "tracking"
    /\ ProcessOnly /\ UNCHANGED <<status, wire, allocated, sent, control>>

\* No tracker: the port is taken, another tracker is active, a typing error.
RemoteFails ==
    /\ remote \in {"starting", "listening", "accepted"} /\ remote' = "failed"
    /\ status' = "bad" /\ control' = IF control = "open" THEN "error" ELSE control
    /\ ProcessOnly /\ UNCHANGED <<wire, allocated, sent>>

\* The script that attach has injected ends, usually without an exception.
RemoteAnswers ==
    /\ remote = "tracking" /\ control = "open"
    /\ control' \in {"closed", "error"}
    /\ ProcessOnly /\ UNCHANGED <<remote, status, wire, allocated, sent>>

RemoteSends ==
    /\ remote = "tracking" /\ connected /\ Len(wire) < MaxWire
    /\ 2 * (sent + 1) + keys <= Bounds[front].events
    /\ \E burst \in Bursts :
          allocated' = SymDiff(allocated, burst) /\ wire' = Append(wire, burst)
    /\ sent' = sent + 1
    /\ ProcessOnly /\ UNCHANGED <<remote, status, control>>

\* It may also be killed before it has got that far.  Only run looks at its
\* exit status.
RemoteEnds ==
    /\ status = "running"
    /\ remote' = IF remote = "tracking" THEN "ended" ELSE "gone"
    /\ status' \in IF front = "run" THEN {"good", "bad"} ELSE {"good"}
    /\ control' = IF control = "open" THEN "closed" ELSE control
    /\ ProcessOnly /\ UNCHANGED <<wire, allocated, sent>>

-----------------------------------------------------------------------------
(* BackgroundSocketReader *)

ReaderOnly == UNCHANGED <<main, remote, status, allocated, sent, channel, updates, bounds, view, impl, connected>>

\* The top of the loop, and nextRecord.
ReadRecord ==
    /\ bg = "loop" /\ ~d_stop_thread /\ connected /\ wire # <<>>
    /\ pending' = <<Head(wire)>> /\ wire' = Tail(wire) /\ bg' = "adding"
    /\ ReaderOnly /\ UNCHANGED <<d_stop_thread, heap, histories>>

\* END_OF_FILE, or the socket was shut down.
ReadEnd ==
    /\ bg = "loop"
    /\ d_stop_thread \/ ~connected \/ (wire = <<>> /\ remote = "ended")
    /\ d_stop_thread' = TRUE /\ bg' = "done"
    /\ ReaderOnly /\ UNCHANGED <<wire, pending, heap, histories>>

\* Mutant: what is freed stays.
AddOnly ==
    /\ bg = "adding"
    /\ IF d_stop_thread THEN bg' = "done" /\ UNCHANGED <<heap, stale>>
       ELSE heap' = heap \cup Head(pending) /\ bg' = "loop" /\ stale' = TRUE
    /\ pending' = <<>>
    /\ ReaderOnly /\ UNCHANGED <<wire, d_stop_thread, lost, missed, abandoned>>

\* addAllocation, under the mutex; a burst is what is added between two looks
\* of anybody at the heap.
Add ==
    /\ bg = "adding"
    /\ IF d_stop_thread THEN bg' = "done" /\ UNCHANGED <<heap, stale>>
       ELSE heap' = SymDiff(heap, Head(pending)) /\ bg' = "loop" /\ stale' = TRUE
    /\ pending' = <<>>
    /\ ReaderOnly /\ UNCHANGED <<wire, d_stop_thread, lost, missed, abandoned>>

-----------------------------------------------------------------------------
(* UpdateThread *)

UpdatesOnly == UNCHANGED <<main, process, channel, reader, bounds, view>>

\* The wait ends, and the thread has not been cancelled.
Wake ==
    /\ ut = "waiting" /\ update_requested
    /\ ut' = IF canceled THEN "done" ELSE "clearing"
    /\ UpdatesOnly /\ UNCHANGED <<update_requested, canceled, fetched, queue, histories>>

\* If cancel() came since, its request is lost as well.
Clear ==
    /\ ut = "clearing" /\ ut' = "fetching"
    /\ update_requested' = FALSE
    /\ lost' = (lost \/ ui \notin {"running", "canceling", "requesting"})
    /\ UpdatesOnly /\ UNCHANGED <<canceled, fetched, queue, missed, stale, abandoned>>

HeapSize(blocks) == SumFunction([b \in blocks |-> b.size])

\* Blocks of one stack and thread are one record, in no order.
RecordsOf(blocks) ==
    LET keysOf == {[tid |-> b.tid, stack |-> b.stack] : b \in blocks}
        ofKey(k) == {b \in blocks : b.tid = k.tid /\ b.stack = k.stack}
    IN {[tid |-> k.tid, stack |-> k.stack, size |-> HeapSize(ofKey(k)),
         n_allocations |-> Cardinality(ofKey(k))] : k \in keysOf}

\* What get_current_snapshot may give of a heap, and UpdateThread make of it.
Snapshots ==
    UNION {{[heap |-> blocks, snapshot |-> SnapshotOf(records)] : records \in SetToSeqs(RecordsOf(blocks))} :
              blocks \in SUBSET Blocks}

\* The BackgroundSocketReader is deleted, and _impl not NULL yet: to use it now
\* is undefined, it may seem to be as it was or not, or the process may crash.
Deleted == ui = "forgetting"

\* Without a BackgroundSocketReader there is nothing to give.
Fetch ==
    /\ ut = "fetching" /\ ut' = "posting"
    /\ \E s \in Snapshots :
          /\ Deleted \/ s.heap = IF impl THEN heap ELSE {}
          /\ fetched' = s.snapshot
    /\ stale' = FALSE
    /\ UpdatesOnly /\ UNCHANGED <<update_requested, canceled, queue, lost, missed, abandoned>>

is_active == impl /\ ~d_stop_thread

\* What UpdateThread may find it to be.
IsActive == IF Deleted THEN BOOLEAN ELSE {is_active}

\* Mutant: a thread that finds its reader stopped has nothing more to say.
PostActive ==
    /\ ut = "posting" /\ Len(queue) < MaxQueue
    /\ IF is_active
       THEN queue' = Append(queue, [snapshot |-> fetched, disconnected |-> FALSE]) /\ ut' = "posted"
       ELSE ut' = "done" /\ UNCHANGED queue
    /\ fetched' = EmptySnapshot
    /\ UpdatesOnly /\ UNCHANGED <<update_requested, canceled, histories>>

\* Without its event loop the application may also raise.
Post ==
    /\ ut = "posting" /\ Len(queue) < MaxQueue
    /\ queue' = IF ui = "running"
                THEN Append(queue, [snapshot |-> fetched, disconnected |-> ~is_active])
                ELSE queue
    /\ \/ \E active \in IsActive : ut' = IF active THEN "posted" ELSE "done"
       \/ abandoned /\ ut' = "done"
    /\ fetched' = EmptySnapshot
    /\ UpdatesOnly /\ UNCHANGED <<update_requested, canceled, histories>>

\* is_active is read again: a reader that has stopped in between ends the
\* thread with nobody told.
Return ==
    /\ ut = "posted"
    /\ \E active \in IsActive : ut' = IF active THEN "waiting" ELSE "done"
    /\ missed' = (missed \/ ~is_active)
    /\ UpdatesOnly /\ UNCHANGED <<update_requested, canceled, fetched, queue, lost, stale, abandoned>>

Crash ==
    /\ Deleted /\ ut \in {"fetching", "posting", "posted"}
    /\ ui' = "exited" /\ outcome' = "crashed"
    /\ ut' = "done" /\ er' = (IF er = "none" THEN "none" ELSE "done")
    /\ UNCHANGED <<front, exc, process, control, error, sigint, reader, update_requested, canceled,
                   fetched, queue, bounds, histories, view>>

-----------------------------------------------------------------------------
(* The main thread *)

Goes(step) == ui' = step /\ UNCHANGED <<front, exc, outcome>>

\* SocketSource connects as soon as somebody listens.
Connect ==
    /\ ui = "connecting" /\ remote = "listening"
    /\ Goes("header")
    /\ remote' = "accepted" /\ connected' = TRUE
    /\ UNCHANGED <<status, wire, allocated, sent, channel, impl, d_stop_thread, bg, pending, heap, updates, bounds, histories, view>>

\* SocketReader.__enter__ has the header and starts the background thread.
Enter ==
    /\ ui = "header" /\ remote \in {"tracking", "ended"}
    /\ Goes("mounting")
    /\ impl' = TRUE /\ bg' = "loop"
    /\ UNCHANGED <<process, channel, connected, d_stop_thread, pending, heap, updates, bounds, histories, view>>

\* start_live_interface raises: what comes next is up to the command.
Raises(e) == ui' = "left" /\ exc' = e /\ UNCHANGED <<front, outcome>>

NoHeader ==
    /\ ui = "header" /\ remote \in {"failed", "gone"}
    /\ Raises("error") /\ connected' = FALSE
    /\ UNCHANGED <<process, channel, impl, d_stop_thread, bg, pending, heap, updates, bounds, histories, view>>

\* TUIApp.on_mount.
Mount ==
    /\ ui = "mounting" /\ Goes("running")
    /\ ut' = "waiting"
    /\ UNCHANGED <<process, channel, reader, update_requested, canceled, fetched, queue,
                   bounds, histories, view>>

schedule_update ==
    /\ ui = "running" /\ ~update_requested
    /\ update_requested' = TRUE
    /\ UNCHANGED <<main, process, channel, reader, ut, canceled, fetched, queue,
                   bounds, histories, view>>

OnSnapshotFetched ==
    /\ ui = "running" /\ queue # <<>>
    /\ queue' = Tail(queue)
    /\ UNCHANGED <<main, process, channel, reader, ut, update_requested, canceled, fetched,
                   bounds, histories>>
    /\ on_snapshot_fetched(Head(queue).snapshot, Head(queue).disconnected)

PressKey ==
    /\ ui = "running" /\ 2 * sent + keys + 1 <= Bounds[front].events
    /\ \E k \in Keys : Press(k)
    /\ keys' = keys + 1
    /\ UNCHANGED <<main, process, channel, reader, updates, interrupts, histories>>

\* The widgets are gone, and the messages that wait for them.
Unmount ==
    /\ queue' = <<>>
    /\ screen' = InitialScreen /\ table' = InitialTable /\ label' = ThreadLabel(InitialScreen)
    /\ footer' = Footer(InitialScreen) /\ status_message' = {}
    /\ maxval' = 1 /\ toggled' = FALSE /\ peak' = 0

Quit ==
    /\ ui = "running" /\ Goes("canceling") /\ Unmount
    /\ UNCHANGED <<process, channel, reader, ut, update_requested, canceled, fetched,
                   bounds, histories>>

\* on_unmount: cancel() sets one event, then the other; then join.
Cancel ==
    /\ ui = "canceling" /\ Goes("requesting")
    /\ canceled' = TRUE
    /\ UNCHANGED <<process, channel, reader, ut, update_requested, fetched, queue,
                   bounds, histories, view>>

\* Mutant: the thread is not woken up to find that it is cancelled.
RequestNothing ==
    /\ ui = "requesting" /\ Goes("joining_update")
    /\ UNCHANGED <<process, channel, reader, updates, bounds, histories, view>>

RequestLast ==
    /\ ui = "requesting" /\ Goes("joining_update")
    /\ update_requested' = TRUE
    /\ UNCHANGED <<process, channel, reader, ut, canceled, fetched, queue, bounds, histories, view>>

\* Mutant: the reader is taken down without waiting for the thread.
LeaveUpdate ==
    /\ ui = "joining_update" /\ Goes("closing")
    /\ UNCHANGED <<process, channel, reader, updates, bounds, histories, view>>

JoinUpdate ==
    /\ ui = "joining_update" /\ ut = "done" /\ Goes("closing")
    /\ UNCHANGED <<process, channel, reader, updates, bounds, histories, view>>

\* ~BackgroundSocketReader closes the source, stops the thread and joins it.
Close ==
    /\ ui = "closing" /\ Goes("stopping")
    /\ connected' = FALSE
    /\ UNCHANGED <<process, channel, impl, d_stop_thread, bg, pending, heap, updates,
                   bounds, histories, view>>

Stop ==
    /\ ui = "stopping" /\ Goes("joining_reader")
    /\ d_stop_thread' = TRUE
    /\ UNCHANGED <<process, channel, impl, connected, bg, pending, heap, updates,
                   bounds, histories, view>>

JoinReader ==
    /\ ui = "joining_reader" /\ bg = "done" /\ Goes("forgetting")
    /\ UNCHANGED <<process, channel, reader, updates, bounds, histories, view>>

\* _teardown has the GIL again.
Forget ==
    /\ ui = "forgetting" /\ Goes("left")
    /\ impl' = FALSE
    /\ UNCHANGED <<process, channel, connected, d_stop_thread, bg, pending, heap, updates,
                   bounds, histories, view>>

-----------------------------------------------------------------------------
(* How each command ends *)

Ends(o) == outcome' = o /\ ui' = "exiting" /\ UNCHANGED <<front, exc>>

\* LiveCommand.run suppresses KeyboardInterrupt.
LeaveLive ==
    /\ ui = "left" /\ front = "live"
    /\ Ends(IF exc = "error" THEN "raised" ELSE "ok")
    /\ UNCHANGED <<process, channel, reader, updates, bounds, histories, view>>

\* process.terminate() looks whether the child has ended before it kills it.
LeaveRun ==
    /\ ui = "left" /\ front = "run"
    /\ IF status = "running"
       THEN remote' = (IF remote = "tracking" THEN "ended" ELSE "gone") /\ status' = "killed"
       ELSE UNCHANGED <<remote, status>>
    /\ Ends(IF exc = "error" THEN "raised"
            ELSE IF exc = "none" /\ status = "bad" THEN "failed" ELSE "ok")
    /\ UNCHANGED <<wire, allocated, sent, channel, reader, updates, bounds, histories, view>>

\* The except clause of AttachCommand.run.
Except(e) ==
    CASE error = "error" -> "failed"
      [] error = "unset" -> "AttributeError"
      [] error = "none"  -> IF e = "error" THEN "raised" ELSE "ok"

\* Mutant: the command does not wait for the thread.
LeaveAttachAtOnce ==
    /\ ui = "left" /\ front = "attach" /\ ~sigint
    /\ Ends(IF exc = "none" THEN "ok" ELSE Except(exc))
    /\ UNCHANGED <<process, channel, reader, updates, bounds, histories, view>>

\* error_reader.join() returns.
LeaveAttach ==
    /\ ui = "left" /\ front = "attach" /\ er = "done" /\ ~sigint
    /\ Ends(IF exc = "none" THEN "ok" ELSE Except(exc))
    /\ UNCHANGED <<process, channel, reader, updates, bounds, histories, view>>

\* The interpreter waits for the threads, which are no daemons.
Exit ==
    /\ ui = "exiting" /\ er \in {"none", "done"} /\ ut \in {"new", "done"} /\ Goes("exited")
    /\ UNCHANGED <<process, channel, reader, updates, bounds, histories, view>>

\* on_unmount is left with its thread about, perhaps not even cancelled.
LeaveUnmount ==
    /\ ui' = "closing"
    /\ abandoned' = (ut # "done") /\ lost' = (lost \/ ui # "joining_update")

\* Where a KeyboardInterrupt is raised: between two attempts to connect, in the
\* screen, which is unmounted first, in on_unmount, unless it is the first and
\* asyncio keeps it for later, and in the join of LeaveAttach.
Interrupted ==
    /\ UNCHANGED <<missed, stale>>
    /\ \/ ui = "connecting" /\ Raises("interrupt") /\ UNCHANGED <<queue, view, lost, abandoned>>
       \/ /\ ui = "running" /\ ui' = "canceling" /\ exc' = "interrupt"
          /\ Unmount /\ UNCHANGED <<front, outcome, lost, abandoned>>
       \/ /\ ui \in {"canceling", "requesting", "joining_update"}
          /\ exc' = "interrupt"
          /\ LeaveUnmount \/ (exc = "none" /\ UNCHANGED <<ui, lost, abandoned>>)
          /\ UNCHANGED <<front, outcome, queue, view>>
       \/ /\ ui = "left" /\ front = "attach" /\ Ends(Except("interrupt"))
          /\ UNCHANGED <<queue, view, lost, abandoned>>

\* In the screen Ctrl-C is a key like others.
CtrlC ==
    /\ interrupts < Bounds[front].interrupts /\ interrupts' = interrupts + 1
    /\ ui # "running" /\ Interrupted
    /\ UNCHANGED <<process, channel, reader, ut, update_requested, canceled, fetched, keys>>

Sigint ==
    /\ sigint /\ sigint' = FALSE /\ Interrupted
    /\ UNCHANGED <<process, control, er, error, reader, ut, update_requested, canceled, fetched, bounds>>

\* ErrorReaderThread.run
ReadError ==
    /\ er = "reading" /\ control # "open"
    /\ error' = IF control = "error" THEN "error" ELSE "none"
    /\ er' = IF control = "error" THEN "killing" ELSE "done"
    /\ UNCHANGED <<main, process, control, sigint, reader, updates, bounds, histories, view>>

Kill ==
    /\ er = "killing" /\ er' = "done" /\ sigint' = TRUE
    /\ UNCHANGED <<main, process, control, error, reader, updates, bounds, histories, view>>

-----------------------------------------------------------------------------
Process == RemoteListens \/ RemoteTracks \/ RemoteFails \/ RemoteAnswers \/ RemoteSends \/ RemoteEnds
Background == ReadRecord \/ ReadEnd \/ Add
Update == Wake \/ Clear \/ Fetch \/ Post \/ Return \/ Crash
Main ==
    \/ Connect \/ Enter \/ NoHeader \/ Mount \/ OnSnapshotFetched
    \/ Cancel \/ RequestLast \/ JoinUpdate \/ Close \/ Stop \/ JoinReader \/ Forget
    \/ LeaveLive \/ LeaveRun \/ LeaveAttach \/ Exit \/ Sigint
User == PressKey \/ Quit \/ CtrlC
Errors == ReadError \/ Kill

Next == Process \/ Background \/ Update \/ Main \/ schedule_update \/ User \/ Errors

Spec == Init /\ [][Next]_vars

\* Threads that can run do; the timer of the screen fires; a tracked process
\* that has accepted a connection gets its tracker and answers, or fails.
Fairness ==
    /\ WF_bg(Background) /\ WF_ut(Update) /\ WF_<<ui, queue>>(Main)
    /\ WF_update_requested(schedule_update) /\ WF_er(Errors)
    /\ WF_remote(RemoteTracks) /\ WF_control(RemoteAnswers)
FairSpec == Spec /\ Fairness

-----------------------------------------------------------------------------
\* The types, and which of the threads is about when.
TypeOK ==
    /\ front \in Fronts /\ exc \in {"none", "error", "interrupt"}
    /\ outcome \in {"none", "ok", "raised", "failed", "AttributeError", "crashed"}
    /\ ui \in {"connecting", "header", "mounting", "running", "canceling", "requesting",
               "joining_update", "closing", "stopping", "joining_reader", "forgetting",
               "left", "exiting", "exited"}
    /\ remote \in {"starting", "listening", "accepted", "tracking", "ended", "gone", "failed"}
    /\ er = "none" <=> front # "attach"
    /\ wire \in Seq(Bursts) /\ heap \subseteq Blocks /\ allocated \subseteq Blocks
    /\ ut = "new" => queue = <<>>
    /\ bg = "none" <=> ~impl /\ heap = {} /\ ~d_stop_thread

\* UpdateThread asks a BackgroundSocketReader that is there, and the process
\* does not crash: it is torn down only after that thread has ended, unless an
\* interrupt has taken the main thread out of on_unmount; and always after the
\* thread that fills it.
NoUseAfterTeardown ==
    /\ TypeOK
    /\ ~abandoned =>
         /\ ut \in {"fetching", "posting", "posted"} => impl /\ connected
         /\ outcome # "crashed"
         /\ ui \in {"exiting", "exited"} => ut \in {"new", "done"}
    /\ ~impl \/ Deleted => bg \in {"none", "done"}

\* The heap that is read, with what is under way, is that of the remote; and the
\* one that is shown when the remote has disconnected is all that was received,
\* but for a record that came after the last snapshot was fetched.
HeapIsRemote ==
    /\ connected => allocated = FoldLeft(SymDiff, heap, pending \o wire)
    /\ screen.disconnected /\ ~stale =>
         screen.latest.heap_size = HeapSize(heap)

\* An error that the attached process reports is what attach ends with, unless it
\* crashes or the user presses Ctrl-C while the command waits for the error; and
\* without Ctrl-C a session that never got a header does not end as if all was well.
ErrorIsReported ==
    ui = "exited" /\ front = "attach" =>
        /\ error = "error" => outcome \in {"failed", "AttributeError", "crashed"}
        /\ outcome = "AttributeError" => interrupts > 0
        /\ exc = "error" /\ interrupts = 0 => outcome # "ok"

\* A command that is being left ends; except when the request of cancel() is
\* lost, or the attached process is not yet where it would answer.
QuitEnds ==
    ui \in {"canceling", "left"} ~>
        (ui = "exited" \/ lost \/ (front = "attach" /\ remote \in {"starting", "listening"}))

\* When the tracked process has ended the screen says so, unless it is being
\* left or the reader stopped between the two times UpdateThread looks.
DisconnectIsShown ==
    (ui = "running" /\ remote = "ended") ~> (screen.disconnected \/ ui # "running" \/ missed)
=============================================================================
