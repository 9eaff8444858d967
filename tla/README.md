# A verification development of memray

memray traces the memory allocations of a Python process. Inside the process a
C++ extension intercepts the allocators, follows the Python stack of every
thread, and writes a stream of records to a file or a socket. Outside of it (or
later) a reader turns the stream back into allocations with stacks, and
reporters aggregate them; a live screen does so while the process runs, and
`memray attach` starts all this in a process that is already there. This
directory holds TLA+ models of that program, translated from its source, the TLC
configurations that check them and the proofs that TLAPS checks. `PROJECT.json`
maps every definition to the lines it stands for.

## The system

| part | state it keeps | operations | how it meets the others |
|---|---|---|---|
| Allocator hooks (`hooks.cpp`) | the original functions | malloc, free, realloc, mmap, ... | call the real function and then (for `free`, before) `Tracker::trackAllocation` and `trackDeallocation` |
| Python stack tracker (`tracking_api.cpp`) | per thread: a shadow stack of lazily emitted frames, pending pops, the generation of the tracker it was taken for; shared: captured stacks, generation | call, return, get, emit, clear, capture, install and remove hooks, greenlet switch | profile functions called by CPython with the GIL; emission from any allocation, without it |
| Tracker (`tracking_api.*`) | the singleton (`s_instance`, `s_instance_owner`), `s_mutex`, the frame table, the native frame tree, cached thread names, a background thread | create, destroy, activate, deactivate, track, fork | writes through the record writer; every writing method holds `s_mutex` |
| Background thread | a condition variable, a stop flag | start, capture a memory snapshot every interval, stop | takes `s_mutex`; may deactivate tracking |
| Record writers (`record_writer.*`) | last value of every delta field, statistics; the aggregating writer keeps aggregates | write one record of a kind, trailer, header, clone in a child | a sink |
| Sinks (`sink.cpp`) | file descriptor, mapped window or buffer | write, seek, grow, flush, clone, compress | a file or a socket |
| Sources (`source.cpp`) | stream, bytes read, readable size | read, getline, close | what the sink wrote |
| Record reader (`record_reader.*`) | last values, frame map, stack per thread, native frames, thread names, memory maps | next record | a source; a mutex protects the tables that the interface thread looks things up in |
| Aggregators (`snapshot.*`) | allocations, intervals, high water marks, lifetimes | add an allocation, capture a snapshot, results | the reader, the aggregating writer, the live reader |
| `FileReader` (`_memray.pyx`) | the first pass's peak, counts and memory records; a cache of stacks | open, one pass for each kind of record | the record reader and the aggregators; a capture may grow between passes |
| Live reader (`socket_reader_thread.*`, `SocketReader`) | a stop flag, an aggregator under a mutex | connect, run, snapshot, close | the socket source and the screen |
| Native symbols (`native_resolver.*`) | memory maps per generation, caches | clear and add segments, resolve | the reader |
| Linker patching (`elf_*`, `macho_*`) | patched symbols | overwrite, restore | the hooks |
| Python layer (`_memray.pyx`, `_thread_name_interceptor.py`) | tracker creation lock, previous profile functions, interceptors | enter and exit a Tracker | everything above |
| Report commands (`commands/`) | the names of a capture and of an output file | check names, read, build, write | a `FileReader`, then a reporter |
| Reporters (`reporters/`) | nodes, rows, bins, tables of strings | build from records, render | records with their stacks |
| Live screen (`reporters/tui.py`, `live.py`, `run.py`) | threads, thread index, sort order, paused, last snapshot; the thread that fetches it, with two events | keys, snapshots, unmount | the live reader, in three threads |
| attach and detach (`attach.py`, `inject.cpp`) | in the target: `_last_tracker`, timers, an exit handler; in the command: a control channel and its reading thread | inject, start, end, wait, report an error | a debugger starts a thread in the target, whose script comes over a socket |
| IPython magic (`_ipython/`) | - | run a cell under a Tracker, report | a Tracker and the flame graph command's steps |

What is hard about it: allocations happen in any thread at any time, with and
without the GIL, inside the interpreter and inside memray; a tracker may be
created, destroyed or deactivated while all of that goes on; frames are emitted
long after they were pushed, when their line has moved; the stream has no
redundancy, so one missing record garbles all that follow; writes fail,
processes fork and are killed; a report reads a file twice while its process
may write on; a live session is taken apart by three threads, a remote process
and Ctrl-C at once; scripts of several attach commands meet in one target.

What would make each part correct:

- *Python stack tracker*: an allocation is attributed to the Python stack, with
  line numbers, that its thread had; nothing refers to a tracker that is gone.
- *Records*: whoever reads has, after n records, what the writer had after n
  records, and errs on nothing but a record cut short.
- *Lifecycle*: creation, destruction and fork leave no lock held, no hook
  behind and no thread waiting for ever; deactivation is final.
- *Aggregators*: peak, leaks and temporary allocations equal those of a direct
  definition over the whole history.
- *Files*: every complete record of a killed process is read, or at most one is lost.
- *Hooks*: the live blocks a reader computes are the blocks that are live.
- *Reports*: a report adds up to the heap of the capture as it was first read,
  keeps the stacks of its records, and destroys no output that was there.
- *Live screen*: what it shows is what was received; it ends when it is left.
- *attach*: a tracker that was attached can be found and ended, and nobody ends
  the tracker of another.

## Modules

| module | models | built on |
|---|---|---|
| `PythonStack` | shadow stacks, trace functions, emission, captured stacks, the tracker's end | - |
| `PythonStackProofs` | proofs about it | `PythonStack`, TLAPS |
| `RecordLog` | what a capture promises: a log of events with stacks | - |
| `RecordStream` | the records, their writer and their reader | `RecordLog` by refinement |
| `RecordStreamProofs` | proofs about it, the refinement included | `RecordStream`, TLAPS |
| `CaptureFile` | the bytes of a capture: sink, file, kill, source | - |
| `Hooks` | the allocator hooks and what a reader makes of their records | - |
| `CaptureProofs` | proofs about both of them | `CaptureFile`, `Hooks`, `SumTheorems` |
| `TrackerLifecycle` | how a tracker begins and ends: enter, exit, background thread, fork | - |
| `TrackerLifecycleProofs` | proofs about it | `TrackerLifecycle`, TLAPS |
| `IntervalTree` | the tree of mappings and what `munmap` removes of it | - |
| `Allocations` | what the aggregators process | - |
| `HighWaterMark` | `HighWaterMarkAggregator` and `UsageHistory` | `Allocations`, `IntervalTree` |
| `HighWatermarkFinder` | the first pass of a `FileReader` | `Allocations`, `IntervalTree` |
| `AllocationLifetime` | `AllocationLifetimeAggregator` | `Allocations`, `IntervalTree` |
| `Aggregators` | all of them, and the second pass, over the same records | the four above |
| `SumTheorems` | the lemmas about sums over finite sets that the proofs need | TLAPS |
| `AggregatorsProofs` | proofs about `HighWaterMark` and about the aggregators together | `Aggregators`, `SumTheorems` |
| `FileReader` | the passes of a `FileReader`, temporary and leaked allocations, statistics | - |
| `StackTraces` | Python, native and hybrid stacks of a record | - |
| `Reporters` | what each reporter builds | `StackTraces` |
| `Histogram` | the bins of allocation sizes | - |
| `ReportCommand` | the report commands, `run` with an output file, the magic | the four above |
| `LiveView` | the live screen: table, header, footer, graph, keys | - |
| `LiveSession` | a live session with its threads and its remote | `LiveView` |
| `LiveSessionProofs` | proofs about it | `LiveSession`, `SumTheorems` |
| `Attach` | attach and detach in the target | - |
| `CommandsProofs` | proofs about it, and about `ReportCommand` | `Attach`, `ReportCommand`, TLAPS |
| `MCPythonStack`, `MCRecordStream`, `MCCaptureFile`, `MCHooks`, `MCTrackerLifecycle`, `MCAggregators`, `MCReportCommand`, `MCLiveSession`, `MCAttach` | small instances: symmetry sets and constants that a .cfg cannot write | the module they are named after |

### PythonStack

State: for each thread its Python frames (`pyframes`, CPython's side) and its
`tls` (shadow stack, pending pops, generation: the members of
`PythonStackTracker`); for the process the interpreter lock, `s_mutex`, the
singleton, the generation and captured stacks; for the writer, what each thread
has been told to have pushed (`reader`), which is what a record reader would
rebuild. Actions are the trace function on call and return, a line that moves
on, `PyGILState_Ensure` callbacks, an allocation in the steps its locking has
(check the singleton, lock, emit, write), the creation and destruction of a
tracker in the steps between which other threads run, and a deactivation by
the background thread.

An allocation's emission is one step, since it runs with `s_mutex` held; that
the interpreter may move a line or that a tracker may be deactivated in between
is kept by reading the singleton and line numbers at the step where the code
does. Names of functions and files are one value, `code`.

Properties: `FrameOrder` (states along a shadow stack are in the order that
lets emission stop early), `ShadowIsPythonStack` (what the thread's tracker
would emit is its Python stack), `ReaderInSync` (what a reader knows is what
the thread believes emitted), `Attribution` (an allocation's record names the
exact stack and lines), `NoUseAfterClose` (nobody is inside a tracker whose
writer is gone).

### RecordStream and RecordLog

`RecordStream` has two sides with the same tables (`View`): last thread, last
value of each delta field, frames, native frames, stacks, names, memory maps
and events. The writer's `w` is the tracker's and the writer's state; the
reader's `r` is the reader's. A method that writes several records (an
allocation with its cached name, pops, pushes, native trace) is a `call`, and
each record one step, because a write may fail at each and the process may be
killed between any two; `s_mutex` keeps two calls from interleaving. Deltas are
taken modulo `Word`, as the code's integers wrap. `past` is a history of the
writer's tables, one per record, up to the first failure: the reader at
position n must equal `past[n + 1]`.

A failed write may leave part of a record (`Torn`), may have updated the value
cached for the next delta, and deactivates tracking, except within a native
trace, where the code goes on; the edge of the tree that lost its node is kept
in `lost`. What a reader makes of the bytes after a torn record is not
modelled here: it stops as `garbled` (`CaptureFile` reads the bytes), and nothing is
claimed of it. A torn record is an error if it is the last, unless it was a
thread's name, of which `SocketSource::getline` delivers what has come (`CutOff`).

`RecordLog` is the promise without records: a log of events, each with the
stack of its thread at that moment, delivered in order. `DeliversLog` is the
refinement, fairness of the reader included. `ReaderInLockstep` has the type
invariant, the equality of the tables and the native traces;
`ReaderFailsOnlyOnTornRecords` says that a reader errs on nothing else.

### CaptureFile

`RecordStream` writes whole records; here a record is its fields, each a call of
`writeAll`, and the file is its bytes. `stage` says what is being written: the
header, records, the trailer, and (after `Rewind`) the header once more with its
statistics. A streaming writer writes a record when it comes; an aggregating one
keeps it (`kept`) until the trailer. `FileSink` grows the file in pages of zeros
by the 110 % rule (`Grow`), moves its window (`Slide`), copies (`MemCpy`) and
compresses on closing. Growing and mapping may fail: a failed mapping leaves the
old needle over no window, from which the next one is mapped astray
(`SlideAstray`). `Kill` may come between any two bytes. Then a reader opens the
file: `Open` computes `d_readable_size` by cutting off the zeros at the end,
`ReadHeader` and `NextRecord` read field by field. `Gets` is the end of a string: where
there is no readable size (a compressed file), the end of the file ends it too.

Properties: `FileHoldsStream` (behind any windows and growth the file has every
complete record, the trailer when it is complete, and zeros after the needle)
and `CaptureIsReadable`: a closed capture is read as a whole; a killed one loses
at most its last record, and that only if it ends in a zero byte; one whose
write has failed may have at most one record more, which the trailer has
completed.

### Hooks

A hook calls the function it replaces and tells the tracker, in one order or
the other, and other threads run in between. The state is the heap (`heap`,
`python`), where each thread is in its hook (`pc`, `block`, `old`),
and `known`, the blocks that a reader of the records takes to be
allocated. Functions that only differ in the size they report are one. Each
call that the code makes in a hook (the real function, `trackAllocation`,
`trackDeallocation`) is one step; a call into Python's allocator is guarded by
`RecursionGuard`, so that what it asks of `malloc` is not recorded. A call that fails is
a step of the model where the hook does something for it: Python's `malloc` and
`calloc` are recorded with the `NULL` that they return (the C library's are not), and
`munmap` is recorded before it fails (`MunmapFails`).

The GIL is left out: it orders most calls of Python's allocators, but not those
of the raw domain, and memory that they give back goes to `malloc`, which needs
no GIL. What a reader can be wrong about follows from the order of real call and
record alone.

Properties: `ReaderErrsOnlyOnReuse` (outside of the hooks in progress, the
reader has exactly the blocks that are live, except for a block that was
allocated again between its release and the record of it, that
`realloc(p, 0)` freed or a failed `munmap` did not, and for one at `NULL`),
`RecordedOnce` (with the same exceptions, no block is
recorded twice, neither by nested hooks nor after its address was reused). The
history `doubtful` keeps the exceptions but `NULL`.

### TrackerLifecycle

The state is who holds the GIL and the two mutexes, the singleton and its owner,
what is installed (`hooks`), the background thread of each tracker (`worker`,
`d_stop`), generations, and where each thread is (`pc`, `at`). Construction and
destruction take one step for each stretch of code that either can throw or
takes a lock. A thread that records sees the singleton, takes `s_mutex`, sees it
again, perhaps reloads its captured stack under the second mutex, and writes;
what it writes is the business of the other modules. `Fork` replaces the process
by its child: one thread lives, `s_mutex` is new, the other locks are as they
were. For the parent a fork changes nothing.

Properties: `WriterOutlivesItsUsers` (no recording thread and no background
thread uses a writer that has written its trailer), `NothingLeftBehind` (no hook
and no background thread once the tracker is gone, unless a constructor threw
or a fork left a tracker), `EveryCallReturns` (entering, exiting, the fork handler
and whoever has `s_mutex` come to an end).

### Aggregators

`HighWaterMark` keeps the aggregator's members under their names. A location
(`key`) has a `UsageHistory`: what it contributed to the last peak that it knows
of, what it did since, and what has been recorded for earlier snapshots. The
point of the algorithm is that nothing is updated until a location allocates
or frees again, however many peaks and snapshots have passed; so the histories
`heap` (what each key has on the heap) and `peaks` (for each snapshot, the latest
highest heap and its contents) say directly what it must answer. A `munmap`
that reaches several mappings records one delta for each, between which the
heap may pass a peak: `FreeRanged` computes the `removed` pieces, and
`RecordRemoved` records one per step until the aggregator is `Quiet` again.
Sizes are integers: the code's unsigned differences wrap around and back.

`HighWatermarkFinder` and `AllocationLifetime` add their members and one
operator for each case of their handlers. `Aggregators` feeds each record to
all three, which is what lets their answers be compared: `ReadSimple`,
`ReadSimpleFree`, `ReadRanged`, `ReadRangedFree`, `ReadUnknownFree`, and
`ReadMemoryRecord`, at which a temporal report captures a snapshot. A mapping's
shared `Allocation` is an `id`, and `use_count` counts the pieces that have it.

Assumed of the records: an address is freed before it is allocated again and
mappings do not overlap. (`mmap` with `MAP_FIXED`, and the reuse of an address
whose release was not recorded, break this; the aggregators then count both.)

Properties: `HistoriesInv` (the inductive invariant of the proofs, with type
correctness, the loop that fires at most twice, the ends of the index and its
counts), `DeltasAddUp`, `IndexIsHeapAtPeak` (the index of a temporal report
against `peaks`), `HighestIsHeapAtPeak` (the non-temporal report of an
aggregating tracker), `FormatsAgree` (that report against the two passes over a
file of all allocations) and `LifetimesAddUp`. Two histories keep exceptions,
`cancelled` and `uncounted` (see "Met on the way").

### FileReader, StackTraces, Reporters, Histogram and ReportCommand

These are the way from a capture to a report. The first four have no state:
their operators are what a class computes. `FileReader` has the passes over a
sequence of records of either format (`FirstPass`, the high water mark,
leaked, temporary and temporal allocations, `compute_statistics`).
`StackTraces` has the Python, native and hybrid stacks of a record; a hybrid
stack is made by a walk from the oldest native frame to the youngest, in which
each call of the evaluation loop gives way to the Python frames that it
evaluated. `Reporters` has the flame graph (with its inverted and temporal forms,
the drop of import frames and the numbered strings of its JSON), the tree with
its elided locations and what the screen hides of it, the summary, the table,
and gprof2dot and csv. `Histogram` has the bins of sizes; the code's logarithms
are comparisons of powers.

`ReportCommand` is the state machine around them: look for the names, first
pass, second pass, build, open the output, write. While it runs, the capture may
grow (`file` is extended by any record that may follow), somebody else may create
the output, and each call that can fail may fail, writing the report
included (`FailToWrite`), which the code handles or not. `before` is a history of what the output was when it was looked
for. `run` with an output file (`CreateOutput`, `RunProgram`, `ScriptEnds`) and
the magic (`RunCell`, `ReadCell`) are the other two commands that handle such
files. A string is a model value and a frame a location with a line.

Properties: `ReportIsOfFirstPass` (the records of a report are those of the
capture as it was when it was first read), `IntervalsMatchSnapshots` (the
intervals of a temporal report number the memory records that are shown beside
them; for a stride of 0), `TemporariesAreTemporary` (against a direct definition,
when no thread frees another's block), `OutputIsSafe` (an output that was there is
kept unless overwriting was asked for; a file without its report is left only by
`transform`, which reads while it writes, and by a `run` that could not write, and a
report is cut off only by a write that raised, with which the command ends; the
format that the magic chooses supports its report), `StacksAreKept` (hybrid
stacks, import marks and indices lose and add no frame), `ReportsAddUp` (each
report adds up to its records: every node, row and bin).

### LiveView and LiveSession

`LiveView` is the screen as its handlers leave it: the attributes of `TUI`
(`screen`), the table, the label of the header, the footer, the message and the
scale of the graph. Setting a reactive attribute runs its watchers at once, so
that each handler is one operator. `LiveSession` has the main thread (`ui`, from
connecting to exited), the thread that reads records (`bg`), the thread that
fetches snapshots (`ut`), with `attach` the thread that reads the control
channel (`er`), and the tracked process (`remote`), which comes up late, never,
fails, tracks or ends. A step of a thread is what it does between two accesses
to what another may change: `Clear` after `Wake` after the look at `_canceled`;
the two reads of `is_active` in `Post` and `Return`. Teardown is the code's
sequence: cancel, the last snapshot, join, close, stop, join the reader, forget it, and
then the `finally` and `except` clauses of the command. Ctrl-C, and the SIGINT of an
error, may come at each of these steps up to the join in `on_unmount` (`Interrupted`; the
first is kept by asyncio on Python 3.11 and later, so that there it takes two), and in
the join of `attach`. An interrupted `on_unmount` leaves `UpdateThread` about while the
reader is torn down; between the deletion of the `BackgroundSocketReader` and the
assignment of `NULL` (`Deleted`) a use of it may have any result or end the process
(`Crash`). A KeyboardInterrupt within the teardown itself, or while the interpreter waits
for its threads, is not modelled.

Properties: `NoUseAfterTeardown` (the reader is gone only after the thread that fills it
has ended, and after the one that asks it unless `on_unmount` was interrupted, which
the history `abandoned` marks), `HeapIsRemote` (what was read and what is
under way make up the remote's heap, and the last screen shows it),
`ErrorIsReported` (an error of the attached process becomes the exit of the
command), `ScreenTellsTruth` (table, header, footer, message and graph belong
together and to the last snapshot, after any sequence of keys), `QuitEnds` and
`DisconnectIsShown` (liveness). The histories `lost`, `missed` and `stale` mark
the windows in which the code does not keep them.

### Attach

`Attach` has, for each time that attach or detach is run, the command (`client`,
`mode`), the script it injects and the timer that the script may start, and for
the target the exit handler, its own use of a Tracker and its exit. They meet in
`last_tracker`, `attach_event_threads`, `registered`, `canceled` and the one
tracker (`owner`, `writing`). The GIL makes each access to a shared attribute a
step of its own (`at` names the next); the list that a script appends its timer to is
read in one and changed in another, between which it may have been popped (`loaded`). Any
one step may fail: the debugger, the connection, the tracker, the start of the timer's
thread, what the timer prints. The histories `overlap`, `late`, `broken` and `untimed`
say whether two agents have been at work at once, whether a script
worked while the exit handlers ran, whether interceptors were left, and whose timer
could not be started or failed before it did anything.

Properties: `NoOrphanTracker`, `QuietIsCoherent` (without overlap: what detach
would end is the tracker there is, failed scripts leave none, timers are those
of trackers with a duration; but for the trackers that are `untimed`), `ExitEndsTracker`, `TrackersOfOthersKept` (an action
property) and `CommandsEnd` (liveness).

## What is checked

| run | instance | shows |
|---|---|---|
| `ps_lines` | one thread, two functions, two lines, stacks of three | frame order and exact attribution |
| `ps_restart` | two threads, two trackers in a row | faithful shadow stacks, a reader in sync and no use of a closed writer under all interleavings with the end of a tracker; captured stacks replace remembered ones; the inductive invariant of the proofs |
| `rs_frames` | two threads, pops longer than a record's limit, names, memory records, a kill | lockstep of writer and reader, errors only on torn records, and the stream refines the log |
| `rs_native` | native traces, memory maps, `mmap` and `munmap`, failing writes | the same lockstep up to the failure, and nodes of the tree stand for traces in spite of lost edges |
| `cf_file` | both formats, two faults, a kill between any two bytes | the file holds the stream, and what a reader gets of it |
| `hk_threads` | three threads, two addresses, all functions, failing allocators and `munmap` | the reader knows the heap but for the named exceptions |
| `lc_trackers` | three threads, two trackers, one fork, all faults | a writer outlives its users, nothing is left behind, every call returns |
| `lc_fork` | two threads, a fork during a reload | **violation**: the child waits for ever (see findings) |
| `ag_heap` | three locations, four records, three memory records | every incremental answer is the one of the definition; the file formats agree |
| `rp_command` | 19 command lines, captures of up to four records, six kinds of faults | reports are of the first pass, add up, keep stacks and outputs |
| `lv_session` | three commands, three blocks of three threads, four keys | the screen tells the truth and a session that is left ends |
| `at_attach` | two commands, one failure | attached trackers are found and ended, each by its own agents, and commands return |

Bounds. A shadow stack of three frames has a frame below, at and above the one
emission stops at, which is all its loop distinguishes; two threads are enough
for every race on one mutex and one singleton; two trackers are what it takes
to be a generation behind. For records, a word of eight values wraps in both
directions between the chosen values, `PopLimit` is 1 so that two pops take two
records, and three to five records already have a context switch between a
definition and its use. `MaxRecords` bounds only when a method may begin: a
method that has begun writes everything it has.
Pages of two bytes and a window of two pages put every boundary of page and
window within some record, and three records are enough to cross the window and
to be last, second to last and first.
Two addresses and three threads let an address be freed by one thread, reused
by a second and looked at by a third, and `realloc` move. A fork leaves one thread, so three threads
and two trackers (one to inherit, one for the child) show what a child can meet.
Three snapshots leave a location behind by more than the two that the loop of
the aggregator distinguishes; four pages let a mapping be split and leave room
for a second one; four records are one more than split and then remove a
mapping, or fall from a peak and cancel out.
The stacks of `rp_command` are one of each kind (inlined, imported, too deep,
without Python frames, without a recognized evaluation loop), so that four
records of two threads meet in nodes, differ, and are cut off; each command line
differs from another in one option that a branch looks at.
A live session has one message and one burst waiting at a time; with `live` four
events (keys and bursts) reach every pair of a key before and after a snapshot,
with the other commands the ways to fail and to be interrupted. Two commands are
what it takes for an agent to meet another's tracker; larger sets are proved.
Captures, files, reports, sessions and commands come to an end, so `ag_heap`,
`cf_file`, `lv_session` and `at_attach` have states with no successor.

Fairness. `EveryCallReturns` assumes weak fairness of the steps a thread takes
inside memray, and of the background thread: the operating system runs every
thread that can run. Weak fairness is enough for the locks because nobody begins
to record while a tracker is created or destroyed (the singleton is null), so
that contention for `s_mutex` ends. A recording thread that waits for `s_mutex`
may be overtaken for ever, and nothing is claimed of it. `DeliversLog` assumes
only that somebody keeps reading. `QuitEnds` and `DisconnectIsShown` assume that
each thread of the session that can run does, that the screen's timer fires, and
that a tracked process that has accepted a connection gets its tracker and, on
the control channel, answers; not that it ever listens, allocates or ends, nor
that the user does anything. `CommandsEnd` assumes it of each command, script and
timer and of the exit of a target that has begun to exit; not that the debugger
succeeds or that somebody connects to a socket that a tracker waits on.

## What is proved

Each theorem holds for every value of the constants that the named assumptions
of its module allow; TLC evaluates those assumptions in the runs. They say what
the code's types say (words, numbers, sets), that values standing for nobody are
nobody's, and nothing about sizes. Every inductive invariant was checked by TLC on
the runs' instances before it was proved.

`PythonStackProofs` proves for all finite or infinite sets of threads,
functions and lines, all depths and numbers of trackers, that `PythonStack`
keeps its inductive invariant `IInv`, and from it `TypeOK`, `FrameOrder`,
`ShadowIsPythonStack`, `ReaderInSync`, `Attribution` and `NoUseAfterClose`. The
assumption is `MidCallCallbacks = {}`: no callback into Python runs in a thread
that was captured in the middle of a C call, the first case of "Met on the way".

`IInv` strengthens the properties with who holds which lock at which step, with
which generation a thread's stack belongs to, with what a thread that is in the
middle of an emission has settled, and with the relation between what the
reader knows, the emitted prefix of the shadow stack and the pending pops. The
last is what makes `ReaderInSync` inductive: pops are owed, so the reader's
stack is the emitted prefix with as many frames more as are pending. Each
action has one step in the proof, split by the conjuncts it can disturb; the
operators on shadow stacks (emission, invalidation, pops) have lemmas of their
own.

`RecordStreamProofs` proves of `RecordStream` `ReaderInLockstep`,
`ReaderFailsOnlyOnTornRecords` and the safety part of `DeliversLog`
(`ImplementsLog`), for any threads, frames, traces, widths of a word, failures and
lengths. `Tells(v, x, u)` says what record `x`, written to what `v` has told,
leaves told: eleven kinds of record, one definition each. `Hears` is the heart of
the proof, with a lemma for each kind: a reader whose tables follow `v` follows `u`
once it has read `x`. It needs that deltas come back as the values they were made
of (`WrapBack`, `DeltasBack`), that a new frame's number is in no reader's map,
and that the numbers on a reader's stacks stand for the frames on the tracker's
(`StandFor`). `IInv` is then three statements: `Tracking` (a method in progress
fits the tables: it pops no more than there is, and its native node stands for
the frames found so far), `History` (record i tells the step from `past[i]` to
`past[i + 1]`, up to the first failure, and after the writer is gone there is one
record more at most) and `Reading` (a reader at `pos` follows `past[pos + 1]`). That
no two nodes have one trace is an argument about `Traces`, a recursive function:
a trace is determined by its tree by the least node at which two would differ
(`TracesAgree`), and a new node leaves the older ones' traces alone
(`TracesOfMore`). For the refinement `LogTells` says which action of the log a
record is (`TellsLog`), and a second invariant, `Heard`, that the events a reader
has heard begin, or after a failure continue, those that were told; a
step of the reader then delivers the next event or nothing.

`CaptureProofs` is about two modules. Of `Hooks` it proves `ReaderErrsOnlyOnReuse` and `RecordedOnce` for any
number of threads and addresses. `IInv` says who holds a block (`Held`: a block in
a hook is nobody else's, and whoever is between the record of a `free` and the
real call still has it), and, while a tracker is active, that what each thread is
about to record does not contradict what has been (`Consistent`), unless the block
is `doubtful` or `NULL`. The assumption is that `NULL`, and the value for no block, are
no addresses of blocks.

Of `CaptureFile` it proves `FileHoldsStream` and `CaptureIsReadable`, for any values,
sizes of pages and of the window, and any number of records and faults; the
assumption is that a window is whole pages. Both need to know, in the middle of any
copy, what of which record is where. `WInv` says it with `Padded(f, c)`: the file `f` is
the bytes `c` and zeros. `Contents` has one conjunct for each stage: the header, the
records so far, and as much of the field that is under way as has been copied end
where the needle is (`Doing`), the header's statistics are the first ones until the
final header has replaced them byte by byte, and after a failure there are only
records, part of one and perhaps a trailer (`LeftIn`), which is what is left whenever
the process is killed too (`LeftAtAnyTime`). `Placed` says that windows begin at
pages and lie within the file, so that a page that is mapped is there;
`Queued` which fields are yet to be copied in which stage. The stream of the records
is a `FlattenSeq`, a fold that is a recursive function: `FlattenOfAppend` unfolds it, `StreamAt` and
`StreamSplit` say where in it a record begins. For the reader, `RecordRead` shows
that the bytes of a record at the reader's position are read as that record and
as nothing else, whatever follows, and `TailRead` what becomes of the part of a record
that a kill or a failure leaves: nothing, or one record that is completed by zeros
or by the trailer, exactly what `CaptureIsReadable` allows. `RInv` puts them together
(`Reached`: the reader is at the end of record k of the stream and has delivered the
first k).

`TrackerLifecycleProofs` proves of `TrackerLifecycle` `WriterOutlivesItsUsers` and
`NothingLeftBehind` for any number of threads, trackers and forks and whatever
fails. `IInv` says which step has which lock (so that one thread constructs or
destroys at a time), that between the steps of a construction or a destruction
there is no owner (`Singleton`), whose background threads run (`Workers`), and what
the destructor has already removed at each of its steps (`Installed`).

`AggregatorsProofs` proves of `HighWaterMark`, for any locations, addresses,
sizes and pages and any number of records and snapshots, `HistoriesInv` and with it
`TypeOK`, `LoopFiresAtMostTwice`, `IndexEndsRight`, `IndexIsHeapAtPeak` and
`CountsAreRight`. The one assumption is that sizes and pages are natural
numbers. It then shows that a reader with all its aggregators implements `HighWaterMark` (each step is one of its steps or a stutter), so
that the same holds of the specification that `ag_heap` checks.

The properties speak of what the index would be if it were asked for now; the
state has only a lazily kept history for each location. `HistoriesInv` says what that
history determines. The numbers of the highest peaks of the snapshots increase
(`PeaksInOrder`), so that a location's last known peak tells whether a later one
has come; a heap that has not fallen is the highest of its snapshot, otherwise
the last peak is (`HighestOfCurrent`). Of each location, `UpToDate` says that it
had at its last known snapshot's peak what it contributed up to that number,
and that it has had what it has now in all snapshots since; `Recorded` that the
list gives every earlier snapshot; `CancelsOut` is the exact condition under
which the loop may skip snapshots by looking at the number of allocations alone.
The argument then has three parts: bringing a location up to date (`CatchesUp`,
from `Iteration`) keeps all that and leaves it at the current snapshot, which
bounds the loop; a delta (`DeltaStep`) first does so for its own location
(`DeltaHere`) and cannot disturb another, whose last known peak is at most that
of its snapshot (`DeltaElsewhere`); a snapshot (`CaptureStep`) leaves every
location behind by one more. `RecordAsOf` says what the list gives after a
record that may be left out because it equals the one before.

The rest of `AggregatorsProofs` is about a reader with all its aggregators. Its
invariant `ReaderInv` says that the aggregators' tables hold the same blocks and
the same pieces of mappings (`MappingsOK`), that the finder's current memory is what
its tables add up to (`FinderAgrees`), that each location's `heap` is its blocks and
pieces in them, plus what a `munmap` has removed and yet to record (`HeapsAgree`,
with `Pending`), and that the finder's mark is the highest peak of all
(`MarkAgrees`). From it follow `DeltasAddUp`, `HighestIsHeapAtPeak` and
`FormatsAgree`, for any locations, addresses, sizes and records; the assumptions
are that sizes and pages are natural numbers and that there are finitely many
locations, without which their heap adds up to nothing. The sums are folds over
finite sets, whose order nobody fixes. `SumTheorems` shows that a fold is one
function's value (`SumTold`), that the order does not matter (`SumsInAnyOrder`) and
the laws that follow: an element more or fewer, a change at one element, disjoint
sets, sets mapped one to one, sums over groups (`SumOfGroups`). Induction over a
set is an argument about its smallest part without the property
(`FiniteInduction`). A `munmap` is the case that needs most of it: what it removes
of a piece and what it leaves add up to the piece (`MunmapTells`).

`LifetimesAddUp` has an invariant of its own, `LifetimeInv`: for each snapshot that
was captured and each location, what has been freed since (`FreedAcross`, in
`allocation_history`) and what was allocated before it and is live (`SimpleBefore`,
`RangedBefore`) add up to what was live then (`Balanced`). A free moves its bytes
from one part to the other (`FreeKeeps`), an allocation is in neither
(`SimpleKeeps`, `RangedKeeps`), and a new snapshot finds all of them live
(`CaptureKeeps`). The numbers of allocations need more: that a mapping's pieces are
freed together or one after the other, and that it counts once, when
`UseCount` is 1 (`CountOfMunmap`). That is false for a location of which one `munmap`
frees the last pieces together, which is why `uncounted` is in the invariant. That
mappings do not overlap is known of the other aggregator's table; `SameBlocks` says
that this one has nothing else. `LifetimesAre` is the step from the tables to what
`generateIndex` computes: a sum over generations of sums over blocks is the sum over
the blocks (`SumByGeneration`).

`CommandsProofs` is about two modules. Of `ReportCommand` it proves `OutputIsSafe`,
for any command lines, captures and faults. A command learns once whether it may
overwrite, in `Validate` or, for `stats`, in `ReadStatistics`; `Allowed` carries what
it has learnt to the step that opens the file, past those at which somebody else
may create one, and `Untouched` says where the file is still the user's. What is cut
off has been cut off by the last step of a command.

It also proves `ReportIsOfFirstPass`, for any captures in the format of all
allocations and any writes to them between the two passes. The invariant `PassInv`
says, of a command that is about to read its records or has them, that what the
first pass found holds of that many first events of the file (`Passed`). It is kept
when a record is written because the events that were there stay the first ones
(`EventsGrow`, `FirstEventsStay`). `SnapshotAddsUp` is the second pass: the table of
blocks may be in any order, its records are one for each location, and the sum over
them is a sum over groups of places, that is over all blocks that are not freed.
`PeakIs` is the first: the heap after `index + 1` events is the peak. To select the
elements of a sequence by a test is opaque to the prover, so `FileReader` selects
them by their places (`Selected`, `InOrder`), which `InOrderIs` and `SelectedIs`
describe. The assumptions are what the records of such a capture may be
(`WritesAssumption`) and which options a command has (`CommandAssumption`: only the
commands that write a file can be asked for leaks).

Of `Attach` it proves, for any set of commands and any number of
failures, `NoOrphanTracker`, `ExitEndsTracker`, `QuietIsCoherent` and the action
property `TrackersOfOthersKept`, from `AgentAssumption` (the values that stand for
nobody are not commands). It has two inductive invariants. `IInv` has four parts:
`Types`; `Findable` (an attached tracker's command is in `last_tracker`, or some
agent is between its `__enter__` and setting it, or between reading it and
`__exit__`); `Registration` (whoever is past the start of its script has the exit
handler registered); `AtExit` (once the exit handlers run, only they are at work,
but for what came late). Each agent's step moves one of these obligations to
another; none drops one. `QInv` is about targets where no two agents have been at
work at once (`~overlap`): there the one that is at work, if any, tells from its
step what the tracker, `last_tracker`, the list of timers and the timers are
(`During`, `DuringScript`, `DuringTimer`), and they agree before and after
(`Settled`), a command that is `untimed` having no timer.

`LiveSessionProofs` proves of `LiveSession` `NoUseAfterTeardown`, `ErrorIsReported` and
`HeapIsRemote`, for any blocks, keys, bounds and commands. `Stages` tells from the
step of the main thread where the background thread and the update thread may be:
they are joined, in that order, before the reader goes, the update thread unless the
session is `abandoned`. `Reported` and `Decided`
follow an error of the target from the thread that reads it to the exit status; the
assumptions are that bursts are sets of blocks, that blocks are finitely many and
that their sizes are natural numbers. `HeapInv` is the invariant of the heap:
`Received` (the blocks read, with the bursts that are under way, are the remote's)
and `Shown`, which follows a snapshot from `allocated` through the update thread
(`fetched`), the queue and the screen, and says that a session that has posted its
last one, without one of the windows that `stale` names, has read all there was.
What a burst does to a heap is a fold over a sequence (`FoldOfAppend`,
`FoldOfFirst`); that the screen's sum over the records in any order is the
heap's is `SizeOfHeap`, by groups of one thread and stack.

Outside the reach of the provers, and only model-checked: liveness
(`EveryCallReturns`, `QuitEnds`, `DisconnectIsShown`, `CommandsEnd`, and that a reader
that goes on reading is told everything, the fairness in `DeliversLog`). Only
model-checked too is what the pure operators compute for each input:
`ScreenTellsTruth` of `LiveView` (a graph's scale and rows, sorted by an operator
over sequences) and what `FileReader` and the reporters build
(`IntervalsMatchSnapshots`, `TemporariesAreTemporary`, `StacksAreKept`,
`ReportsAddUp`): they fold and walk over whole captures and trees,
so that each would be proved by induction over data, one operator at a time.

## Findings

- `lc_fork`: `childFork` (tracking_api.cpp:772) re-creates `s_mutex`, but not the
  mutex of `PythonStackTracker`, which a thread without the GIL may hold when
  another forks; the child's new tracker then waits for it in `recordAllStacks`.

Met on the way: what the models have of the code where it departs from a comment,
a document or what one would expect, and what the properties therefore leave
out by name.

In the tracked process:

- `install_trace_function` (tracking_api.cpp:1242) pushes all frames of a thread
  whose captured stack `get()` has just reloaded, so that they are twice in the
  shadow stack, which tracking_api.h:182 calls a mirror copy. It takes a
  callback in a thread that was captured within a C call: `MidCallCallbacks`.
- A tracker deactivated by its destruction while a thread is between taking
  `s_mutex` and emitting skips the frames and writes the allocation under the
  stack emitted before (tracking_api.cpp:200).
- The hook of `realloc` (hooks.cpp:212) records the end of the old block after
  the real function has released it, so that another thread's allocation at
  that address may be recorded first and then ended; the comment at
  hooks.cpp:187-188 says why `free` avoids this.
- `pymalloc_malloc` and `pymalloc_calloc` record what they return without a look at it
  (hooks.cpp:116-118, 147-149; `malloc` looks, 176), so that a call that fails leaves a
  reader with a block at `NULL`. `munmap` is recorded before the real call
  (hooks.cpp:270), also when that fails and the mapping stays.
- A greenlet switch may run Python code with `s_mutex` held
  (tracking_api.cpp:1228), and of two names that are set aside for a thread the
  first is kept (tracking_api.h:309). Neither is modelled.
- After a failed write the trailer may complete the torn record into one that
  nobody wrote (`CaptureIsReadable` allows one). A failed mapping in `seek` leaves
  the needle and the end of the old window with a null `d_buffer`
  (sink.cpp:135-139), so that the trailer is mapped astray. The result of
  `visitAllocations` is ignored (record_writer.cpp:506). A capture in the
  aggregated format of a process that is killed is an empty file.
- `FileSource::getline` tests the pointer to its stream and not the stream
  (source.cpp:60). A compressed file has no readable size, so that a string that its end
  cuts off is taken for whole, and the zeros behind a failed capture end in an error.
  `SocketSource::getline` takes the end of the stream for the end of a string as well
  (source.cpp:278-282), so that a live reader may be given part of a thread's name.

In the aggregators and readers:

- `recordContributionsToCompletedSnapshots` (snapshot.cpp:368) asks only whether
  the number of allocations since the peak is 0. After malloc 3, free, malloc 1 at
  one location, a snapshot's peak of 3 bytes stands for the snapshots that
  follow as well, in which there was 1; the comment at 338-341 speaks of
  different amounts. The history `cancelled` marks such locations.
- `recordRangedDeallocation` counts a mapping as freed when its `use_count` is 1,
  but `RemovalStats` holds one reference for each piece, so that a `munmap` that
  frees the last two pieces at once counts neither (snapshot.cpp:735-738);
  reports over time then show a location that has freed everything as one that
  has not: `uncounted`.
- A temporary allocation's entry stays in the deque (snapshot.cpp:207), and
  misleads when another thread has freed the block and its address is reused.
- With more memory records than `max_memory_records` the list that is shown keeps
  every n-th from the first (_memray.pyx:955-957), the lifetimes capture a snapshot at
  every n-th from the n-th (1155-1158), and the temporal high water marks at all
  (1201-1202): the three number apart. A high water mark of a capture without events reads one record if
  the file has grown (_memray.pyx:1090).
- Of a hybrid stack whose native frames run out, the whole Python stack is
  returned, hidden frames included, and `max_stacks` is ignored
  (_memray.pyx:254-259). Merged flame graphs keep the first record's thread
  (snapshot.cpp:145-153; docs/flamegraph.rst:266-268).

In the commands:

- A size that is exactly a rounded bound of the histogram lies one above what the
  JSON calls the maximum of its bin; `stats --json` raises `ValueError` for a
  capture of sizes 0 only and `ZeroDivisionError` when no size is above 1.
- An output path with `~` is looked for as it is and opened expanded
  (common.py:133, 215): what is there is overwritten without `--force`.
  A write that fails (`print`, `json.dump`; common.py:215-222) leaves a report cut off in
  a file that has been truncated, and a traceback.
  `transform` opens its output before it reads, and `summary` and `transform`
  let an `OSError` through, as does every command a `NotImplementedError` of an
  aggregated capture.
- The tree divides by the root's bytes for its elided node (tree.py:352), counts
  elided locations in its root (docs/tree.rst:16-18 says shown ones), and takes 200
  locations where the document says 10; `e` toggles where it says expand
  (docs/tree.rst:32-33).
- `run` takes an `OSError` of the script for one of its tracker (run.py:193), says
  that results were generated also after the script has raised or writing has
  failed, and does not catch an unreadable script. It overwrites nothing even
  in a race (O_EXCL), unlike the reports, which look and then open.

In live sessions and attach:

- `cancel()` between `UpdateThread`'s look at `_canceled` and its `clear()` is lost:
  the thread waits for ever, and `on_unmount`'s join with it (tui.py:719-721,
  744-746). `is_active` is read twice (tui.py:737, 741): a remote that ends in
  between is never shown as disconnected (docs/live.rst:40).
- A Ctrl-C, or the SIGINT of `attach`, during the join in `on_unmount` (tui.py:796) leaves
  `UpdateThread` running while live.py:30 tears the reader down: it may then use a
  `BackgroundSocketReader` that has been deleted and is not yet forgotten
  (_memray.pyx:1352-1355, 1413-1421).
- The table starts with one thread while the header says "All threads"
  (tui.py:288, 550; docs/live.rst:61). Records beyond 95 % of the heap are left out
  before threads are selected, so that a small thread's table may be empty.
- `run --live` does not read the pipe of its child's stderr (run.py:128); a child that
  fails before it listens leaves the screen polling, and Ctrl-C then exits with 0.
- A second Ctrl-C while `attach` joins its reading thread ends in an
  `AttributeError` (attach.py:504). A thread in the target that cannot connect
  leaves the command in `accept` for ever; a target that goes before it answers
  counts as a success.
- `__exit__` ends whatever tracker there is, so that a deactivation that comes
  late can end another's. After two deactivations and an attach, `_last_tracker`
  may be one that is gone, and the next attach fails once. A constructor that
  fails leaves its interceptors, and every later attach ends in an
  `AssertionError` (_memray.pyx:706).
- When the thread of a timer cannot be started (attach.py:112) `attach` reports the error,
  and the tracker stays, without an end. So does that of a timer whose first `print`
  raises (attach.py:103), for instance since the target has closed its stderr. A script
  may append its timer to a list that another has popped (attach.py:82, 113), and then
  nobody can cancel it.

## What is left

1. `ThreadNames`: the interceptor, names set aside for other threads, identities
   of threads that are reused. `Greenlets`: a switch renames the thread and
   rebuilds its stack with `s_mutex` held. Both extend `PythonStack` and
   `RecordStream`.
2. `SocketSink` with its buffer, between `RecordStream` and `LiveSession`; the
   aggregating writer's own tables; the sink's clone in a forked child.
3. Native symbols: the lookup of an address among the segments of a generation.
4. The reaggregator; the temporal high water mark in `ReportCommand` (the
   aggregator is in `HighWaterMark`); forks of the script of `run`; the keys of the
   tree screen.
5. Proofs of what `FileReader` and the reporters compute, one operator at a time.

Not modelled, and why: binary formats of executables (linker patching: nearly all
of it is the layout of tables), LZ4 and libbacktrace (libraries), Textual and
the debugger (external: their part is what they call and in which order), argument
parsing, the look of reports, progress bars and the JavaScript of the flame graph
(no state that a model checker would add to), `setup.py` and the fixtures of the
repository's tests, and the compatibility shims, which have no state.
