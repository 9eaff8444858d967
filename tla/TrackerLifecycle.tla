--------------------------- MODULE TrackerLifecycle ---------------------------
(***************************************************************************)
(* How a tracker begins and ends: Tracker.__enter__ and __exit__, the      *)
(* constructor and destructor of the C++ class, its background thread and  *)
(* the handler that runs in the child of a fork, against threads that      *)
(* record allocations, with and without the GIL, at any moment.            *)
(* Enter, Exit and the handler keep the GIL from beginning to end, so that *)
(* tracker_creation_lock is never contended: that a __del__ of a previous  *)
(* profile argument could lose the GIL in between is left out.  After a    *)
(* fork the behaviour goes on in the child; for the parent nothing changed.*)
(***************************************************************************)
EXTENDS Naturals

CONSTANTS
    Threads,
    NoThread,
    MaxTrackers,      \* bound: how many trackers are constructed
    MaxForks,         \* bound: how often the process forks
    Faults,           \* what may fail: "header", "statm", "rss", "write"
    ForkInReload      \* may a fork come while another thread is in
                      \* reloadStackIfTrackerChanged?

ASSUME SomeThreadAssumption == Threads # {}
ASSUME NoThreadAssumption == NoThread \notin Threads
ASSUME BoundsAssumption == MaxTrackers \in Nat /\ MaxForks \in Nat
ASSUME FlagAssumption == ForkInReload \in BOOLEAN

VARIABLES
    living,      \* threads of the process
    pc, at,      \* where each thread is, and the tracker it is about
    gil,         \* the owner of the GIL
    s_mutex,     \* the owner of Tracker::s_mutex
    stacks_mutex,\* the owner of PythonStackTracker::s_mutex
    s_instance, s_instance_owner,  \* trackers, or NoTracker
    created,     \* the number of trackers constructed, which is the newest
    finished,    \* those whose writer has written its trailer and is gone
    inside,      \* the thread that is in the body of a "with Tracker"
    hooks,       \* what is installed
    worker,      \* where the background thread of each tracker is
    d_stop,      \* the trackers whose background thread is to stop
    generation, seen,  \* the tracker generation, and what each thread has seen
    forks,       \* the number of forks that led to this process
    forking,     \* the thread that runs childFork
    guarded,     \* the thread whose RecursionGuard::isActive prepareFork set
    spoiled      \* history: a constructor threw or a tracker was not followed

process == <<living, forks, forking, guarded, spoiled>>
locks == <<gil, s_mutex, stacks_mutex>>
singleton == <<s_instance, s_instance_owner, created, finished, inside>>
background == <<worker, d_stop>>
stacks == <<generation, seen>>
vars == <<process, locks, singleton, background, stacks, hooks, pc, at>>

NoTracker == 0
Trackers == 1..MaxTrackers

\* ThreadNameInterceptor on threading.Thread, the profile function of the
\* threads, Python's allocators, the symbols of loaded libraries.
Hooks == {"interceptors", "profile", "pymalloc", "symbols"}

Entering == {"asserting", "header", "stacks", "statm", "snapshot", "activating"}
Leaving == {"joining", "restoring", "unregistering", "unhooking", "closing"}
Recording == {"locked", "reloading", "writing"}

Init ==
    /\ living = Threads
    /\ pc = [t \in Threads |-> "idle"] /\ at = [t \in Threads |-> NoTracker]
    /\ gil = NoThread /\ s_mutex = NoThread /\ stacks_mutex = NoThread
    /\ s_instance = NoTracker /\ s_instance_owner = NoTracker
    /\ created = 0 /\ finished = {} /\ inside = NoThread
    /\ hooks = {}
    /\ worker = [k \in Trackers |-> "none"] /\ d_stop = {}
    /\ generation = 0 /\ seen = [t \in Threads |-> 0]
    /\ forks = 0 /\ forking = NoThread /\ guarded = NoThread
    /\ spoiled = FALSE

Goes(t, step) == pc' = [pc EXCEPT ![t] = step]

\* A thread that is not in any of the calls below may begin one.
Idle(t) == t \in living /\ pc[t] = "idle"

\* The calling thread has the lock only within the step.
Free(lock) == lock = NoThread

-----------------------------------------------------------------------------
(* Tracker.__enter__ and the constructor *)

\* __enter__ raises, with nothing changed, when there is an instance.
Enter(t) ==
    /\ Idle(t) /\ Free(gil)
    /\ s_instance = NoTracker /\ created < MaxTrackers
    /\ Goes(t, "asserting") /\ gil' = t
    /\ UNCHANGED <<process, s_mutex, stacks_mutex, singleton, background, stacks, hooks, at>>

\* assert not hasattr(threading.Thread, attr), then the interceptors.
InstallInterceptors(t) ==
    /\ pc[t] = "asserting"
    /\ IF "interceptors" \in hooks
       THEN Goes(t, "idle") /\ gil' = NoThread /\ UNCHANGED hooks
       ELSE /\ Goes(t, "header") /\ UNCHANGED gil
            /\ hooks' = hooks \cup {"interceptors"}
    /\ UNCHANGED <<process, s_mutex, stacks_mutex, singleton, background, stacks, at>>

\* The constructor throws: the exception leaves __enter__ or childFork, and
\* what was installed stays, and the guard that childFork would have reset.
Throws(t) ==
    /\ Goes(t, "idle") /\ at' = [at EXCEPT ![t] = NoTracker]
    /\ gil' = NoThread /\ forking' = NoThread /\ spoiled' = TRUE
    /\ UNCHANGED <<living, forks, guarded, s_mutex, stacks_mutex, background, stacks, hooks,
                   s_instance, s_instance_owner, created, finished, inside>>

HeaderFails(t) ==
    pc[t] = "header" /\ "header" \in Faults /\ Throws(t)

WriteHeader(t) ==
    /\ pc[t] = "header"
    /\ created' = created + 1 /\ at' = [at EXCEPT ![t] = created + 1]
    /\ Goes(t, "stacks")
    /\ UNCHANGED <<process, locks, s_instance, s_instance_owner, finished, inside,
                   background, stacks, hooks>>

\* installProfileHooks, which records all stacks, and registerPymallocHooks.
InstallHooks(t) ==
    /\ pc[t] = "stacks" /\ Free(stacks_mutex)
    /\ generation' = generation + 1
    /\ hooks' = hooks \cup {"profile", "pymalloc"}
    /\ Goes(t, "statm")
    /\ UNCHANGED <<process, locks, singleton, background, seen, at>>

\* The constructor of BackgroundThread opens /proc/self/statm.
StatmFails(t) ==
    pc[t] = "statm" /\ "statm" \in Faults /\ Throws(t)

OpenStatm(t) ==
    /\ pc[t] = "statm"
    /\ Goes(t, "snapshot")
    /\ UNCHANGED <<process, locks, singleton, background, stacks, hooks, at>>

\* BackgroundThread::start captures a snapshot before there is a thread, which
\* there never is when that fails, and overwrite_symbols.
Start(t) ==
    /\ pc[t] = "snapshot"
    /\ \/ Free(s_mutex) /\ worker' = [worker EXCEPT ![at[t]] = "waiting"]
       \/ "rss" \in Faults /\ UNCHANGED worker
       \/ "write" \in Faults /\ Free(s_mutex) /\ UNCHANGED worker
    /\ hooks' = hooks \cup {"symbols"}
    /\ Goes(t, "activating")
    /\ UNCHANGED <<process, locks, singleton, d_stop, stacks, at>>

\* createTracker takes s_mutex to activate the tracker, childFork does not.
Activate(t) ==
    /\ pc[t] = "activating" /\ (Free(s_mutex) \/ forking = t)
    /\ s_instance_owner' = at[t] /\ s_instance' = at[t]
    /\ IF forking = t
       THEN guarded' = NoThread /\ UNCHANGED inside
       ELSE inside' = t /\ UNCHANGED guarded
    /\ Goes(t, "idle") /\ at' = [at EXCEPT ![t] = NoTracker]
    /\ gil' = NoThread /\ forking' = NoThread
    /\ UNCHANGED <<living, forks, spoiled, s_mutex, stacks_mutex, created, finished,
                   background, stacks, hooks>>

-----------------------------------------------------------------------------
(* Tracker.__exit__ and the destructor *)

\* What __exit__ does after destroyTracker.
LeavesWith(t) ==
    /\ Goes(t, "idle") /\ at' = [at EXCEPT ![t] = NoTracker]
    /\ gil' = NoThread /\ inside' = NoThread

\* The singleton's pointer is null before the destructor runs; that
\* deactivates, and asks the background thread to stop.  A child that did not
\* follow its parent's tracker has nothing to destroy.
Exit(t) ==
    /\ Idle(t) /\ Free(gil) /\ inside = t
    /\ IF s_instance_owner = NoTracker
       THEN /\ LeavesWith(t) /\ hooks' = hooks \ {"interceptors"}
            /\ UNCHANGED <<s_instance, s_instance_owner, d_stop>>
       ELSE /\ s_instance' = NoTracker /\ s_instance_owner' = NoTracker
            /\ d_stop' = d_stop \cup {s_instance_owner}
            /\ Goes(t, "joining") /\ at' = [at EXCEPT ![t] = s_instance_owner]
            /\ gil' = t /\ UNCHANGED <<inside, hooks>>
    /\ UNCHANGED <<process, s_mutex, stacks_mutex, created, finished, worker, stacks>>

\* BackgroundThread::stop waits for the thread, with the GIL.
Join(t) ==
    /\ pc[t] = "joining" /\ worker[at[t]] = "none"
    /\ Goes(t, "restoring")
    /\ UNCHANGED <<process, locks, singleton, background, stacks, hooks, at>>

\* Under a mutex, one kind of hook is removed.
Removes(t, from, to, hook, mutex) ==
    /\ pc[t] = from /\ Free(mutex)
    /\ hooks' = hooks \ {hook}
    /\ Goes(t, to)
    /\ UNCHANGED <<process, locks, singleton, background, stacks, at>>

RestoreSymbols(t) == Removes(t, "restoring", "unregistering", "symbols", s_mutex)
\* Mutant: Python's allocators are restored only while tracking is active.
UnregisterPymallocHooksIfActive(t) ==
    Removes(t, "unregistering", "unhooking",
            IF s_instance = NoTracker THEN "" ELSE "pymalloc", s_mutex)

UnregisterPymallocHooks(t) == Removes(t, "unregistering", "unhooking", "pymalloc", s_mutex)
RemoveProfileHooks(t) == Removes(t, "unhooking", "closing", "profile", stacks_mutex)

\* The trailer and the header are written and the writer is destroyed.
Close(t) ==
    /\ pc[t] = "closing" /\ Free(s_mutex)
    /\ finished' = finished \cup {at[t]}
    /\ LeavesWith(t) /\ hooks' = hooks \ {"interceptors"}
    /\ UNCHANGED <<process, s_mutex, stacks_mutex, s_instance, s_instance_owner, created,
                   background, stacks>>

-----------------------------------------------------------------------------
(* The background thread of tracker k *)

\* It wakes up to stop or, after the interval, to capture a snapshot.
Stop(k) ==
    /\ worker[k] = "waiting" /\ k \in d_stop
    /\ worker' = [worker EXCEPT ![k] = "none"]
    /\ UNCHANGED <<process, locks, singleton, d_stop, stacks, hooks, pc, at>>

WakeUp(k) ==
    /\ worker[k] = "waiting" /\ k \notin d_stop
    /\ worker' = [worker EXCEPT ![k] = "capturing"]
    /\ UNCHANGED <<process, locks, singleton, d_stop, stacks, hooks, pc, at>>

CaptureMemorySnapshot(k) ==
    /\ worker[k] = "capturing" /\ Free(s_mutex)
    /\ worker' = [worker EXCEPT ![k] = "waiting"]
    /\ UNCHANGED <<process, locks, singleton, d_stop, stacks, hooks, pc, at>>

\* No RSS is known, found out without s_mutex, or the record is not written:
\* the thread deactivates whatever is active and ends.
CaptureFails(k) ==
    /\ worker[k] = "capturing"
    /\ "rss" \in Faults \/ ("write" \in Faults /\ Free(s_mutex))
    /\ worker' = [worker EXCEPT ![k] = "none"]
    /\ s_instance' = NoTracker
    /\ UNCHANGED <<process, locks, s_instance_owner, created, finished, inside, d_stop,
                   stacks, hooks, pc, at>>

-----------------------------------------------------------------------------
(* Recording, in any thread at any time *)

\* A hook finds a tracker active, in Python code or without the GIL.
BeginRecording(t) ==
    /\ Idle(t) /\ s_instance # NoTracker /\ t # guarded
    /\ Goes(t, "locking") /\ at' = [at EXCEPT ![t] = s_instance]
    /\ gil' \in {gil} \cup (IF Free(gil) THEN {t} ELSE {})
    /\ UNCHANGED <<process, s_mutex, stacks_mutex, singleton, background, stacks, hooks>>

\* Mutant: the tracker seen without s_mutex is used.
LockTrackerUnchecked(t) ==
    /\ pc[t] = "locking" /\ Free(s_mutex)
    /\ Goes(t, "locked") /\ s_mutex' = t
    /\ UNCHANGED <<process, gil, stacks_mutex, singleton, background, stacks, hooks, at>>

EndRecording(t) ==
    /\ Goes(t, "idle") /\ at' = [at EXCEPT ![t] = NoTracker]
    /\ gil' = IF gil = t THEN NoThread ELSE gil

\* The singleton is read again with s_mutex.
LockTracker(t) ==
    /\ pc[t] = "locking" /\ Free(s_mutex)
    /\ IF s_instance = NoTracker
       THEN EndRecording(t) /\ UNCHANGED s_mutex
       ELSE /\ Goes(t, "locked") /\ at' = [at EXCEPT ![t] = s_instance]
            /\ s_mutex' = t /\ UNCHANGED gil
    /\ UNCHANGED <<process, stacks_mutex, singleton, background, stacks, hooks>>

\* PythonStackTracker::get: the thread is of the current generation, or
\* fetches its captured stack, which no step of another thread sees, but a fork.
UpToDate(t) ==
    /\ pc[t] = "locked" /\ seen[t] = generation
    /\ Goes(t, "writing")
    /\ UNCHANGED <<process, locks, singleton, background, stacks, hooks, at>>

BeginReload(t) ==
    /\ pc[t] = "locked" /\ seen[t] # generation /\ Free(stacks_mutex)
    /\ stacks_mutex' = t /\ Goes(t, "reloading")
    /\ UNCHANGED <<process, gil, s_mutex, singleton, background, stacks, hooks, at>>

EndReload(t) ==
    /\ pc[t] = "reloading"
    /\ stacks_mutex' = NoThread /\ seen' = [seen EXCEPT ![t] = generation]
    /\ Goes(t, "writing")
    /\ UNCHANGED <<process, gil, s_mutex, singleton, background, generation, hooks, at>>

\* The records are written, or not, which deactivates; s_mutex is released.
Write(t) ==
    /\ pc[t] = "writing"
    /\ s_instance' \in {s_instance} \cup (IF "write" \in Faults THEN {NoTracker} ELSE {})
    /\ EndRecording(t) /\ s_mutex' = NoThread
    /\ UNCHANGED <<process, stacks_mutex, s_instance_owner, created, finished, inside,
                   background, stacks, hooks>>

-----------------------------------------------------------------------------
(* Fork *)

\* Mutant: the child keeps using the mutex it inherited.
NewMutexKept == UNCHANGED s_mutex

\* The old mutex is leaked and replaced.
NewMutex == s_mutex' = NoThread

AllIdleBut(t, step) == pc' = [u \in Threads |-> IF u = t THEN step ELSE "idle"]

\* prepareFork and childFork, in the child of a fork by a thread that runs
\* Python code: no other thread lives on, the tracker is leaked and, if it was
\* active, is to be followed and its writer can be cloned, a new one is made.
Fork(t) ==
    /\ Idle(t) /\ Free(gil) /\ forks < MaxForks
    /\ ForkInReload \/ Free(stacks_mutex)
    /\ forks' = forks + 1 /\ living' = {t}
    /\ worker' = [k \in Trackers |-> "none"] /\ UNCHANGED d_stop
    /\ NewMutex
    /\ s_instance_owner' = NoTracker /\ s_instance' = NoTracker
    /\ \/ /\ s_instance # NoTracker /\ created < MaxTrackers
          /\ AllIdleBut(t, "header") /\ gil' = t
          /\ forking' = t /\ guarded' = t /\ UNCHANGED spoiled
       \/ /\ spoiled' = (spoiled \/ s_instance_owner # NoTracker)
          /\ AllIdleBut(t, "idle") /\ guarded' = NoThread /\ UNCHANGED <<gil, forking>>
    /\ at' = [u \in Threads |-> NoTracker]
    /\ UNCHANGED <<stacks_mutex, created, finished, inside, stacks, hooks>>

-----------------------------------------------------------------------------
Threadwise(t) ==
    \/ InstallInterceptors(t) \/ HeaderFails(t) \/ WriteHeader(t) \/ InstallHooks(t)
    \/ StatmFails(t) \/ OpenStatm(t) \/ Start(t) \/ Activate(t)
    \/ Join(t) \/ RestoreSymbols(t) \/ UnregisterPymallocHooks(t)
    \/ RemoveProfileHooks(t) \/ Close(t)
    \/ LockTracker(t) \/ UpToDate(t) \/ BeginReload(t) \/ EndReload(t) \/ Write(t)

Workerwise(k) == Stop(k) \/ WakeUp(k) \/ CaptureMemorySnapshot(k) \/ CaptureFails(k)

\* The program may end, or go on without memray, when it is in none of this.
Terminated ==
    /\ \A t \in Threads : pc[t] = "idle"
    /\ \A k \in Trackers : worker[k] = "none"
    /\ UNCHANGED vars

Next ==
    \/ \E t \in Threads : Threadwise(t) \/ Enter(t) \/ Exit(t) \/ BeginRecording(t) \/ Fork(t)
    \/ \E k \in Trackers : Workerwise(k)
    \/ Terminated

Spec == Init /\ [][Next]_vars

\* The operating system runs every thread that can take a step.  A hook may be
\* called or not, and a program may never enter, exit or fork.
FairSpec ==
    /\ Spec
    /\ \A t \in Threads : WF_vars(Threadwise(t))
    /\ \A k \in Trackers : WF_vars(Workerwise(k))

-----------------------------------------------------------------------------
(* Properties *)

\* Locks are held where the code holds them, by threads that are alive.
TypeOK ==
    /\ living \subseteq Threads /\ living # {}
    /\ pc \in [Threads -> {"idle", "locking"} \cup Entering \cup Leaving \cup Recording]
    /\ at \in [Threads -> {NoTracker} \cup Trackers]
    /\ {gil, s_mutex, stacks_mutex, inside, forking, guarded} \subseteq Threads \cup {NoThread}
    /\ {s_instance, s_instance_owner} \subseteq {NoTracker} \cup Trackers
    /\ created \in 0..MaxTrackers /\ finished \subseteq Trackers /\ d_stop \subseteq Trackers
    /\ hooks \subseteq Hooks
    /\ worker \in [Trackers -> {"none", "waiting", "capturing"}]
    /\ generation \in 0..MaxTrackers /\ seen \in [Threads -> 0..MaxTrackers]
    /\ forks \in 0..MaxForks /\ spoiled \in BOOLEAN
    /\ \A t \in living :
        /\ s_mutex = t <=> pc[t] \in Recording
        /\ stacks_mutex = t <=> pc[t] = "reloading"
        /\ pc[t] \in Entering \cup Leaving => gil = t

\* Nobody writes to a tracker whose writer has written its trailer and is
\* gone: not a thread that records, nor the background thread.
WriterOutlivesItsUsers ==
    /\ TypeOK
    /\ \A t \in living : pc[t] \in Recording => at[t] \notin finished \cup {NoTracker}
    /\ \A k \in finished : worker[k] = "none"
    /\ s_instance \notin finished

\* When there is no tracker and none is being made or destroyed, nothing of
\* one is left in the process, as long as no constructor threw and no fork
\* left an active tracker behind.
NothingLeftBehind ==
    (/\ s_instance_owner = NoTracker /\ ~spoiled
     /\ \A t \in living : pc[t] \in {"idle", "locking"})
    => hooks = {} /\ \A k \in Trackers : worker[k] = "none"

\* Whoever enters, exits, forks, or records with s_mutex comes back from it: no
\* lock is waited for that its owner cannot release.  (A thread that waits for
\* s_mutex to record may be overtaken by others for as long as a tracker is
\* active.)
EveryCallReturns ==
    \A t \in Threads :
        pc[t] \notin {"idle", "locking"} ~> pc[t] = "idle"
=============================================================================
