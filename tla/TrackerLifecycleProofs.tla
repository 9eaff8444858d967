------------------------ MODULE TrackerLifecycleProofs ------------------------
(***************************************************************************)
(* Proofs about TrackerLifecycle, for any number of threads, trackers and  *)
(* forks and whatever may fail.                                            *)
(***************************************************************************)
EXTENDS TrackerLifecycle, TLAPS

Constructed == {"stacks", "statm", "snapshot", "activating"}

\* The steps between which the singleton has no tracker.
Changing == {"header"} \cup Constructed \cup Leaving

\* The parts of TypeOK.
ThreadTypes ==
    /\ living \subseteq Threads /\ living # {}
    /\ pc \in [Threads -> {"idle", "locking"} \cup Entering \cup Leaving \cup Recording]
    /\ at \in [Threads -> {NoTracker} \cup Trackers]

OwnerTypes ==
    {gil, s_mutex, stacks_mutex, inside, forking, guarded} \subseteq Threads \cup {NoThread}

TrackerTypes ==
    /\ {s_instance, s_instance_owner} \subseteq {NoTracker} \cup Trackers
    /\ created \in 0..MaxTrackers /\ finished \subseteq Trackers /\ d_stop \subseteq Trackers
    /\ hooks \subseteq Hooks
    /\ worker \in [Trackers -> {"none", "waiting", "capturing"}]
    /\ generation \in 0..MaxTrackers /\ seen \in [Threads -> 0..MaxTrackers]
    /\ forks \in 0..MaxForks /\ spoiled \in BOOLEAN

LocksOf(t) ==
    /\ s_mutex = t <=> pc[t] \in Recording
    /\ stacks_mutex = t <=> pc[t] = "reloading"
    /\ pc[t] \in Entering \cup Leaving => gil = t

\* A fork leaves only the thread that called it, which had the GIL.
Alive ==
    \A t \in Threads \ living : pc[t] = "idle"

\* The tracker that a thread constructs is the newest, and nobody has finished
\* it; the one that a thread destroys is not finished yet.
NumberedOf(t) ==
    /\ pc[t] \in {"asserting", "header"} => created < MaxTrackers
    /\ pc[t] = "stacks" => generation < created
    /\ pc[t] \in Constructed => at[t] = created
    /\ pc[t] \in Constructed \cup Leaving \cup Recording =>
          at[t] \notin finished \cup {NoTracker} /\ at[t] <= created

Numbered ==
    /\ finished \subseteq 1..created /\ generation <= created
    /\ \A t \in Threads : NumberedOf(t)

Singleton ==
    /\ s_instance \in {NoTracker, s_instance_owner}
    /\ s_instance_owner <= created /\ s_instance_owner \notin finished
    /\ \A t \in Threads : pc[t] \in Changing => s_instance_owner = NoTracker

\* Whose background thread there is.
Workers ==
    \A k \in Trackers : worker[k] # "none" =>
        \/ k = s_instance_owner
        \/ \E t \in Threads : at[t] = k /\ pc[t] \in {"activating", "joining"}

\* What is installed, in the order in which the destructor removes it.
InstalledOf(t) ==
    /\ pc[t] \in {"unregistering", "unhooking", "closing"} => "symbols" \notin hooks
    /\ pc[t] \in {"unhooking", "closing"} => "pymalloc" \notin hooks
    /\ pc[t] = "closing" => "profile" \notin hooks
    /\ pc[t] \in {"header"} \cup Constructed => "interceptors" \in hooks

Installed ==
    /\ s_instance_owner # NoTracker => "interceptors" \in hooks
    /\ (/\ s_instance_owner = NoTracker /\ ~spoiled
        /\ \A t \in Threads : pc[t] \notin Changing) => hooks = {}
    /\ \A t \in Threads : InstalledOf(t)

IInv == TypeOK /\ Alive /\ Numbered /\ Singleton /\ Workers /\ Installed

-----------------------------------------------------------------------------
(* Who has the GIL *)

Actor(t) == pc[t] \in Entering \cup Leaving

\* The thread that acts is alive and holds the GIL, and is the only one.
LEMMA OneActor ==
    ASSUME IInv, NEW t \in Threads, Actor(t)
    PROVE  /\ t \in living /\ gil = t
           /\ \A u \in Threads \ {t} : ~Actor(u)
  BY DEF IInv, TypeOK, Alive, Actor, Entering, Leaving

\* While the GIL is free no thread acts.
LEMMA NoActor ==
    ASSUME IInv, Free(gil)
    PROVE  \A u \in Threads : ~Actor(u)
  BY NoThreadAssumption DEF IInv, TypeOK, Alive, Actor, Entering, Leaving, Free

-----------------------------------------------------------------------------
(* Steps of one thread *)

\* With the GIL free, nobody is changing the singleton.
LEMMA EnterStep ==
    ASSUME IInv, NEW t \in Threads, Enter(t)
    PROVE  IInv'
  <1> USE NoThreadAssumption, BoundsAssumption
      DEF IInv, process, locks, singleton, background, stacks, Goes, Idle, Free,
          NoTracker, Trackers, Actor, Enter
  <1>o. \A u \in Threads : ~Actor(u)
    BY NoActor
  <1>1. TypeOK'
    BY DEF TypeOK, Entering, Recording
  <1>2. Alive' /\ Numbered'
    BY DEF Alive, Numbered, NumberedOf, Constructed, Leaving, Recording
  <1>3. Singleton' /\ Workers'
    BY DEF Singleton, Workers, Changing, Constructed, Leaving
  <1>4. Installed'
    BY <1>o DEF Installed, InstalledOf, Changing, Constructed
  <1> QED
    BY <1>1, <1>2, <1>3, <1>4

\* The assertion fails, as it does while there is a tracker, or it is the first
\* hook that is installed.
LEMMA InterceptorsStep ==
    ASSUME IInv, NEW t \in Threads, InstallInterceptors(t)
    PROVE  IInv'
  <1> USE NoThreadAssumption, BoundsAssumption
      DEF IInv, process, locks, singleton, background, stacks, Goes, Idle, Free,
          NoTracker, Trackers, Actor, InstallInterceptors
  <1>o. t \in living /\ gil = t /\ \A u \in Threads \ {t} : ~Actor(u)
    BY OneActor DEF Entering
  <1>1. TypeOK'
    <2>1. ThreadTypes'
      BY DEF ThreadTypes, TypeOK, Entering
    <2>2. OwnerTypes'
      BY DEF OwnerTypes, TypeOK
    <2>3. TrackerTypes'
      BY DEF TrackerTypes, TypeOK, Hooks
    <2>4. ASSUME NEW u \in living' PROVE LocksOf(u)'
      BY <1>o DEF TypeOK, LocksOf, Entering, Leaving, Recording
    <2> QED
      BY <2>1, <2>3, <2>4 DEF TypeOK, ThreadTypes, TrackerTypes, LocksOf
  <1>2. Alive' /\ Numbered'
    BY DEF TypeOK, Alive, Numbered, NumberedOf, Constructed, Leaving, Recording
  <1>3. Singleton' /\ Workers'
    <2>1. pc'[t] \in Changing => s_instance_owner = NoTracker
      BY DEF TypeOK, Installed, Changing, Constructed, Leaving
    <2>2. \A u \in Threads : u # t => pc'[u] = pc[u]
      BY DEF TypeOK
    <2>3. Singleton'
      BY <2>1, <2>2 DEF Singleton, Changing, Constructed, Leaving
    <2>4. Workers'
      BY DEF TypeOK, Workers
    <2> QED
      BY <2>3, <2>4
  <1>4. Installed'
    BY DEF TypeOK, Installed, InstalledOf, Changing, Constructed, Leaving
  <1> QED
    BY <1>1, <1>2, <1>3, <1>4

\* A constructor that throws spoils what it leaves.
LEMMA ThrowsStep ==
    ASSUME IInv, NEW t \in Threads, HeaderFails(t) \/ StatmFails(t)
    PROVE  IInv'
  <1> USE NoThreadAssumption, BoundsAssumption
      DEF IInv, process, locks, singleton, background, stacks, Goes, Idle, Free,
          NoTracker, Trackers, Actor
  <1>x. /\ pc[t] \in {"header", "statm"}
        /\ pc' = [pc EXCEPT ![t] = "idle"] /\ at' = [at EXCEPT ![t] = NoTracker]
        /\ gil' = NoThread /\ forking' = NoThread /\ spoiled' = TRUE
        /\ UNCHANGED <<living, forks, guarded, s_mutex, stacks_mutex, background, stacks, hooks,
                       singleton>>
    BY DEF HeaderFails, StatmFails, Throws
  <1>o. t \in living /\ gil = t /\ \A u \in Threads \ {t} : ~Actor(u)
    BY OneActor, <1>x DEF Entering
  <1>1. TypeOK'
    BY <1>o, <1>x DEF TypeOK, Entering, Leaving, Recording
  <1>2. Alive' /\ Numbered'
    BY <1>x DEF TypeOK, Alive, Numbered, NumberedOf, Constructed, Leaving, Recording
  <1>3. Singleton' /\ Workers'
    BY <1>x DEF Singleton, Workers, Changing, Constructed
  <1>4. Installed'
    BY <1>x DEF Installed, InstalledOf, Constructed
  <1> QED
    BY <1>1, <1>2, <1>3, <1>4

\* The newest tracker is the one that is constructed.
LEMMA HeaderStep ==
    ASSUME IInv, NEW t \in Threads, WriteHeader(t)
    PROVE  IInv'
  <1> USE NoThreadAssumption, BoundsAssumption
      DEF IInv, process, locks, singleton, background, stacks, Goes, Idle, Free,
          NoTracker, Trackers, Actor, WriteHeader
  <1>o. t \in living /\ gil = t /\ \A u \in Threads \ {t} : ~Actor(u)
    BY OneActor DEF Entering
  <1>1. TypeOK'
    BY DEF TypeOK, Numbered, NumberedOf, Entering, Recording
  <1>2. Alive' /\ Numbered'
    BY <1>o DEF TypeOK, Alive, Numbered, NumberedOf, Constructed, Entering
  <1>3. Singleton' /\ Workers'
    BY DEF TypeOK, Singleton, Workers, Installed, Changing, Constructed
  <1>4. Installed'
    BY DEF Installed, InstalledOf, Changing, Constructed
  <1> QED
    BY <1>1, <1>2, <1>3, <1>4

\* The new generation is the newest tracker's, at most.
LEMMA HooksStep ==
    ASSUME IInv, NEW t \in Threads, InstallHooks(t)
    PROVE  IInv'
  <1> USE NoThreadAssumption, BoundsAssumption
      DEF IInv, process, locks, singleton, background, stacks, Goes, Idle, Free,
          NoTracker, Trackers, Actor, InstallHooks
  <1>o. t \in living /\ gil = t /\ \A u \in Threads \ {t} : ~Actor(u)
    BY OneActor DEF Entering
  <1>1. TypeOK'
    BY DEF TypeOK, Numbered, NumberedOf, Entering, Recording, Hooks
  <1>2. Alive' /\ Numbered'
    BY <1>o DEF TypeOK, Alive, Numbered, NumberedOf, Constructed
  <1>3. Singleton' /\ Workers'
    BY DEF Singleton, Workers, Changing, Constructed
  <1>4. Installed'
    BY <1>o DEF Installed, InstalledOf, Changing, Constructed, Leaving
  <1> QED
    BY <1>1, <1>2, <1>3, <1>4

\* The background thread is that of a tracker under construction.
LEMMA StartStep ==
    ASSUME IInv, NEW t \in Threads, Start(t)
    PROVE  IInv'
  <1> USE NoThreadAssumption, BoundsAssumption
      DEF IInv, process, locks, singleton, background, stacks, Goes, Idle, Free,
          NoTracker, Trackers, Actor, Start
  <1>o. t \in living /\ gil = t /\ \A u \in Threads \ {t} : ~Actor(u)
    BY OneActor DEF Entering
  <1>1. TypeOK'
    BY <1>o DEF TypeOK, Numbered, NumberedOf, Entering, Leaving, Recording, Hooks
  <1>2. Alive' /\ Numbered'
    BY DEF Alive, Numbered, NumberedOf, Constructed
  <1>3. Singleton' /\ Workers'
    BY DEF TypeOK, Singleton, Workers, Changing, Constructed
  <1>4. Installed'
    BY <1>o DEF Installed, InstalledOf, Changing, Constructed, Leaving
  <1> QED
    BY <1>1, <1>2, <1>3, <1>4

\* The tracker that was constructed becomes the singleton.
LEMMA ActivateStep ==
    ASSUME IInv, NEW t \in Threads, Activate(t)
    PROVE  IInv'
  <1> USE NoThreadAssumption, BoundsAssumption
      DEF IInv, process, locks, singleton, background, stacks, Goes, Idle, Free,
          NoTracker, Trackers, Actor, Activate
  <1>o. t \in living /\ gil = t /\ \A u \in Threads \ {t} : ~Actor(u)
    BY OneActor DEF Entering
  <1>1. TypeOK'
    BY <1>o DEF TypeOK, Entering, Leaving, Recording
  <1>2. Alive' /\ Numbered'
    BY DEF TypeOK, Alive, Numbered, NumberedOf, Constructed, Leaving, Recording
  <1>3. Singleton' /\ Workers'
    BY <1>o DEF TypeOK, Numbered, NumberedOf, Singleton, Workers, Installed, InstalledOf, Changing,
       Constructed, Entering, Leaving
  <1>4. Installed'
    BY DEF Numbered, NumberedOf, Installed, InstalledOf, Constructed
  <1> QED
    BY <1>1, <1>2, <1>3, <1>4

\* The singleton becomes the tracker that is destroyed.
LEMMA ExitStep ==
    ASSUME IInv, NEW t \in Threads, Exit(t), s_instance_owner # NoTracker
    PROVE  IInv'
  <1> USE NoThreadAssumption, BoundsAssumption
      DEF IInv, process, locks, singleton, background, stacks, Goes, Idle, Free,
          NoTracker, Trackers, Actor
  <1>x. /\ s_instance_owner \in Trackers /\ t \in living /\ pc[t] = "idle"
        /\ pc' = [pc EXCEPT ![t] = "joining"] /\ at' = [at EXCEPT ![t] = s_instance_owner]
        /\ gil' = t /\ s_instance' = NoTracker /\ s_instance_owner' = NoTracker
        /\ d_stop' = d_stop \cup {s_instance_owner}
        /\ UNCHANGED <<process, s_mutex, stacks_mutex, created, finished, inside, worker,
                       stacks, hooks>>
    BY DEF TypeOK, Exit
  <1>o. \A u \in Threads : ~Actor(u)
    BY NoActor DEF Exit
  <1>1. TypeOK'
    BY <1>o, <1>x DEF TypeOK, Leaving, Recording
  <1>2. Alive' /\ Numbered'
    BY <1>x DEF TypeOK, Alive, Numbered, NumberedOf, Singleton, Constructed
  <1>3. Singleton' /\ Workers'
    BY <1>x DEF TypeOK, Singleton, Workers
  <1>4. Installed'
    BY <1>x DEF TypeOK, Installed, InstalledOf, Changing, Leaving
  <1> QED
    BY <1>1, <1>2, <1>3, <1>4

\* There is none to destroy: the child has not followed the tracker of its parent.
LEMMA ExitOfNoneStep ==
    ASSUME IInv, NEW t \in Threads, Exit(t), s_instance_owner = NoTracker
    PROVE  IInv'
  <1> USE NoThreadAssumption, BoundsAssumption
      DEF IInv, process, locks, singleton, background, stacks, Goes, Idle, Free,
          NoTracker, Trackers, Actor
  <1>x. /\ t \in living /\ pc[t] = "idle"
        /\ pc' = [pc EXCEPT ![t] = "idle"] /\ at' = [at EXCEPT ![t] = NoTracker]
        /\ gil' = NoThread /\ inside' = NoThread /\ hooks' = hooks \ {"interceptors"}
        /\ UNCHANGED <<process, s_mutex, stacks_mutex, created, finished, background,
                       stacks, s_instance, s_instance_owner>>
    BY DEF Exit, LeavesWith
  <1>o. \A u \in Threads : ~Actor(u)
    BY NoActor DEF Exit
  <1>1. TypeOK'
    BY <1>o, <1>x DEF TypeOK
  <1>2. Alive' /\ Numbered'
    BY <1>o, <1>x DEF Alive, Numbered, NumberedOf, Constructed, Recording
  <1>3. Singleton' /\ Workers'
    BY <1>x DEF Singleton, Workers
  <1>4. Installed'
    BY <1>o, <1>x DEF Installed, InstalledOf, Constructed, Entering
  <1> QED
    BY <1>1, <1>2, <1>3, <1>4

\* Nothing changes but where the thread is; one that joined saw the background
\* thread end.
LEMMA MoveOnStep ==
    ASSUME IInv, NEW t \in Threads, OpenStatm(t) \/ Join(t)
    PROVE  IInv'
  <1> USE NoThreadAssumption, BoundsAssumption
      DEF IInv, process, locks, singleton, background, stacks, Goes, Idle, Free,
          NoTracker, Trackers, Actor
  <1>x. /\ \/ pc[t] = "statm" /\ pc' = [pc EXCEPT ![t] = "snapshot"]
           \/ /\ pc[t] = "joining" /\ pc' = [pc EXCEPT ![t] = "restoring"]
              /\ worker[at[t]] = "none"
        /\ UNCHANGED <<process, locks, singleton, background, stacks, hooks, at>>
    BY DEF OpenStatm, Join
  <1>o. t \in living /\ gil = t /\ \A u \in Threads \ {t} : ~Actor(u)
    BY OneActor, <1>x DEF Entering, Leaving
  <1>1. TypeOK'
    <2>1. ThreadTypes'
      BY <1>x DEF ThreadTypes, TypeOK, Entering, Leaving
    <2>2. OwnerTypes'
      BY <1>x DEF OwnerTypes, TypeOK
    <2>3. TrackerTypes'
      BY <1>x DEF TrackerTypes, TypeOK
    <2>4. ASSUME NEW u \in living' PROVE LocksOf(u)'
      BY <1>o, <1>x DEF TypeOK, LocksOf, Recording
    <2> QED
      BY <2>1, <2>2, <2>3, <2>4 DEF TypeOK, ThreadTypes, OwnerTypes, TrackerTypes, LocksOf
  <1>2. Alive' /\ Numbered'
    BY <1>o, <1>x DEF TypeOK, Alive, Numbered, NumberedOf, Constructed, Leaving
  <1>3. Singleton' /\ Workers'
    <2>1. Singleton'
      BY <1>x DEF Singleton, Changing, Constructed, Leaving
    <2>2. Workers'
      BY <1>o, <1>x DEF TypeOK, Workers, Singleton, Leaving
    <2> QED
      BY <2>1, <2>2
  <1>4. Installed'
    BY <1>x DEF TypeOK, Installed, InstalledOf, Changing, Constructed, Leaving
  <1> QED
    BY <1>1, <1>2, <1>3, <1>4

\* One kind of hook after another is removed.
LEMMA RemovesStep ==
    ASSUME IInv, NEW t \in Threads, RestoreSymbols(t) \/ UnregisterPymallocHooks(t) \/ RemoveProfileHooks(t)
    PROVE  IInv'
  <1> USE NoThreadAssumption, BoundsAssumption
      DEF IInv, process, locks, singleton, background, stacks, Goes, Idle, Free,
          NoTracker, Trackers, Actor
  <1>x. /\ \/ /\ pc[t] = "restoring" /\ pc' = [pc EXCEPT ![t] = "unregistering"]
              /\ hooks' = hooks \ {"symbols"}
           \/ /\ pc[t] = "unregistering" /\ pc' = [pc EXCEPT ![t] = "unhooking"]
              /\ hooks' = hooks \ {"pymalloc"}
           \/ /\ pc[t] = "unhooking" /\ pc' = [pc EXCEPT ![t] = "closing"]
              /\ hooks' = hooks \ {"profile"}
        /\ UNCHANGED <<process, locks, singleton, background, stacks, at>>
    BY DEF RestoreSymbols, UnregisterPymallocHooks, RemoveProfileHooks, Removes
  <1>o. t \in living /\ gil = t /\ \A u \in Threads \ {t} : ~Actor(u)
    BY OneActor, <1>x DEF Leaving
  <1>1. TypeOK'
    <2>1. ThreadTypes'
      BY <1>o, <1>x DEF ThreadTypes, TypeOK, Leaving
    <2>2. OwnerTypes'
      BY <1>x DEF OwnerTypes, TypeOK
    <2>3. TrackerTypes'
      BY <1>x DEF TrackerTypes, TypeOK
    <2>4. ASSUME NEW u \in living' PROVE LocksOf(u)'
      BY <1>o, <1>x DEF TypeOK, LocksOf, Recording
    <2> QED
      BY <2>1, <2>2, <2>3, <2>4 DEF TypeOK, ThreadTypes, OwnerTypes, TrackerTypes, LocksOf
  <1>2. Alive' /\ Numbered'
    BY <1>o, <1>x DEF TypeOK, Alive, Numbered, NumberedOf, Constructed, Leaving
  <1>3. Singleton' /\ Workers'
    BY <1>o, <1>x DEF Singleton, Workers, Changing, Entering, Leaving
  <1>4. Installed'
    BY <1>x DEF TypeOK, Installed, InstalledOf, Changing, Constructed, Leaving
  <1> QED
    BY <1>1, <1>2, <1>3, <1>4

\* Nobody records while s_mutex is free.
LEMMA CloseStep ==
    ASSUME IInv, NEW t \in Threads, Close(t)
    PROVE  IInv'
  <1> USE NoThreadAssumption, BoundsAssumption
      DEF IInv, process, locks, singleton, background, stacks, Goes, Idle, Free,
          NoTracker, Trackers, Actor, Close, LeavesWith
  <1>x. at[t] \in Trackers /\ at[t] \in 1..created /\ hooks \subseteq {"interceptors"}
    <2>1. at[t] \in Trackers /\ at[t] \in 1..created
      BY DEF TypeOK, Numbered, NumberedOf, Leaving
    <2>2. hooks \subseteq {"interceptors"}
      BY DEF TypeOK, Installed, InstalledOf, Hooks
    <2> QED
      BY <2>1, <2>2
  <1>o. t \in living /\ gil = t /\ \A u \in Threads \ {t} : ~Actor(u)
    BY OneActor DEF Leaving
  <1>1. TypeOK'
    <2>1. ThreadTypes'
      BY DEF ThreadTypes, TypeOK
    <2>2. OwnerTypes'
      BY DEF OwnerTypes, TypeOK
    <2>3. TrackerTypes'
      BY <1>x DEF TrackerTypes, TypeOK
    <2>4. ASSUME NEW u \in living' PROVE LocksOf(u)'
      BY <1>o DEF TypeOK, LocksOf, Entering, Leaving, Recording
    <2> QED
      BY <2>3, <2>4 DEF TypeOK, TrackerTypes, LocksOf
  <1>2. Alive' /\ Numbered'
    <2>1. Alive'
      BY <1>o DEF TypeOK, Alive
    <2>2. finished' \subseteq 1..created' /\ generation' <= created'
      BY <1>x DEF TypeOK, Numbered
    <2>3. ASSUME NEW u \in Threads PROVE NumberedOf(u)'
      <3>1. CASE u = t
        BY <3>1 DEF TypeOK, NumberedOf, Constructed, Leaving, Recording
      <3>2. CASE u # t
        <4>1. pc[u] \notin Entering \cup Leaving \cup Recording
          BY <1>o, <3>2 DEF TypeOK, Alive, Entering, Leaving, Recording
        <4>2. pc'[u] = pc[u]
          BY <3>2 DEF TypeOK
        <4> QED
          BY <4>1, <4>2 DEF NumberedOf, Constructed, Entering
      <3> QED
        BY <3>1, <3>2
    <2> QED
      BY <2>1, <2>2, <2>3 DEF Numbered
  <1>3. Singleton' /\ Workers'
    BY <1>o, <1>x DEF TypeOK, Numbered, NumberedOf, Singleton, Workers, Installed,
       InstalledOf, Changing, Entering
  <1>4. Installed'
    BY <1>o, <1>x DEF Installed, InstalledOf, Singleton, Changing, Constructed, Entering,
       Leaving
  <1> QED
    BY <1>1, <1>2, <1>3, <1>4

\* Who records keeps to itself, but for deactivating the tracker when a write
\* fails; its tracker is the singleton that it saw with s_mutex.
Records(t) ==
    /\ t \in living /\ pc[t] \in {"idle", "locking"} \cup Recording
    /\ ThreadTypes' /\ seen' \in [Threads -> 0..MaxTrackers]
    /\ \A u \in Threads \ {t} : pc'[u] = pc[u] /\ at'[u] = at[u]
    /\ pc'[t] \in {"idle", "locking"} \cup Recording
    /\ at'[t] \in {NoTracker, at[t], s_instance}
    /\ pc'[t] \in Recording =>
          \/ pc[t] \in Recording /\ at'[t] = at[t]
          \/ at'[t] = s_instance /\ s_instance # NoTracker
    /\ gil' = gil \/ {gil, gil'} \subseteq {t, NoThread}
    /\ s_instance' \in {NoTracker, s_instance}
    /\ UNCHANGED <<process, s_instance_owner, created, finished, inside, background,
                   generation, hooks>>

\* The steps of a thread that records an allocation keep the invariant.
LEMMA RecordingStep ==
    ASSUME IInv, NEW t \in Threads,
           \/ BeginRecording(t) \/ LockTracker(t) \/ UpToDate(t)
           \/ BeginReload(t) \/ EndReload(t) \/ Write(t)
    PROVE  IInv'
  <1> USE NoThreadAssumption DEF IInv, NoTracker
  <1>1. Records(t)
    <2> USE DEF Records, ThreadTypes, Goes, TypeOK, Alive, Recording, process, locks, singleton, stacks
    <2>1. ASSUME BeginRecording(t) PROVE Records(t)
      BY <2>1 DEF BeginRecording, Idle, Free
    <2>2. ASSUME LockTracker(t) PROVE Records(t)
      BY <2>2 DEF LockTracker, EndRecording
    <2>3. ASSUME UpToDate(t) \/ BeginReload(t) PROVE Records(t)
      BY <2>3 DEF UpToDate, BeginReload
    <2>4. ASSUME EndReload(t) PROVE Records(t)
      BY <2>4 DEF EndReload
    <2>5. ASSUME Write(t) PROVE Records(t)
      BY <2>5 DEF Write, EndRecording
    <2> QED
      BY <2>1, <2>2, <2>3, <2>4, <2>5
  <1>2. /\ \A u \in living : LocksOf(u)'
        /\ {gil', s_mutex', stacks_mutex'} \subseteq Threads \cup {NoThread}
    BY <1>1 DEF Records, BeginRecording, LockTracker, UpToDate, BeginReload, EndReload, Write, EndRecording,
           TypeOK, LocksOf, Idle, Goes, Free, Recording, Entering, Leaving, locks
  <1>3. TypeOK'
    BY <1>1, <1>2 DEF Records, ThreadTypes, TypeOK, LocksOf, process, background
  <1>4. Alive' /\ Numbered'
    BY <1>1 DEF Records, Alive, Numbered, NumberedOf, Singleton, Constructed, Leaving,
       Recording, process
  <1>5. Singleton' /\ Workers' /\ Installed'
    BY <1>1 DEF Records, Singleton, Workers, Installed, InstalledOf, Changing, Constructed,
       Leaving, Recording, process, background
  <1> QED
    BY <1>3, <1>4, <1>5

-----------------------------------------------------------------------------
(* A fork, and the steps of background threads *)

\* The child has one thread, whatever the others were doing, and no background
\* thread.  It leaves hooks without an instance only when that spoils it.
LEMMA ForkStep ==
    ASSUME IInv, NEW t \in Threads, Fork(t)
    PROVE  IInv'
  <1> USE NoThreadAssumption, BoundsAssumption
      DEF IInv, locks, singleton, background, stacks, Idle, Free, NoTracker, Trackers
  <1>o. \A u \in Threads : ~Actor(u)
    BY NoActor DEF Fork
  <1>x. /\ t \in living /\ pc[t] = "idle" /\ living' = {t} /\ forks' = forks + 1
        /\ forks < MaxForks
        /\ worker' = [k \in Trackers |-> "none"] /\ s_mutex' = NoThread
        /\ s_instance' = NoTracker /\ s_instance_owner' = NoTracker
        /\ at' = [u \in Threads |-> NoTracker]
        /\ UNCHANGED <<d_stop, stacks_mutex, created, finished, inside, stacks, hooks>>
    BY DEF Fork, NewMutex
  <1>y. \/ /\ s_instance # NoTracker /\ created < MaxTrackers
           /\ pc' = [u \in Threads |-> IF u = t THEN "header" ELSE "idle"]
           /\ gil' = t /\ forking' = t /\ guarded' = t /\ spoiled' = spoiled
        \/ /\ spoiled' = (spoiled \/ s_instance_owner # NoTracker)
           /\ pc' = [u \in Threads |-> IF u = t THEN "idle" ELSE "idle"]
           /\ guarded' = NoThread /\ gil' = gil /\ forking' = forking
    BY DEF Fork, AllIdleBut
  <1>1. TypeOK'
    <2>1. ThreadTypes'
      BY <1>x, <1>y DEF ThreadTypes, Entering
    <2>2. OwnerTypes'
      BY <1>x, <1>y DEF OwnerTypes, TypeOK
    <2>3. TrackerTypes'
      <3>1. spoiled' \in BOOLEAN
        BY <1>y DEF TypeOK
      <3>2. worker' \in [Trackers -> {"none", "waiting", "capturing"}]
        BY <1>x
      <3>3. forks' \in 0..MaxForks
        BY <1>x DEF TypeOK
      <3> QED
        BY <1>x, <3>1 DEF TrackerTypes, TypeOK
    <2>4. LocksOf(t)'
      BY <1>x, <1>y DEF LocksOf, TypeOK, Recording
    <2> QED
      BY <1>x, <2>1, <2>2, <2>3, <2>4 DEF TypeOK, ThreadTypes, OwnerTypes, TrackerTypes, LocksOf
  <1>2. Alive'
    BY <1>x, <1>y DEF Alive
  <1>3. Numbered'
    BY <1>x, <1>y DEF Numbered, NumberedOf, Constructed, Leaving, Recording
  <1>4. Singleton'
    BY <1>x DEF TypeOK, Singleton
  <1>5. Workers'
    BY <1>x DEF Workers
  <1>6. Installed'
    BY <1>o, <1>x, <1>y DEF TypeOK, Installed, InstalledOf, Singleton, Changing, Constructed,
                            Entering, Leaving, Actor
  <1> QED
    BY <1>1, <1>2, <1>3, <1>4, <1>5, <1>6

\* The background thread of a tracker runs until the tracker is destroyed, at
\* most, and deactivates whatever tracker is active when it fails.
LEMMA WorkerStep ==
    ASSUME IInv, NEW k \in Trackers, Workerwise(k)
    PROVE  IInv'
  <1> USE NoThreadAssumption, BoundsAssumption
      DEF IInv, process, locks, singleton, background, stacks, NoTracker
  <1>x. /\ worker[k] # "none"
        /\ \E w \in {"none", "waiting", "capturing"} : worker' = [worker EXCEPT ![k] = w]
        /\ s_instance' \in {NoTracker, s_instance}
        /\ UNCHANGED <<process, locks, s_instance_owner, created, finished, inside, d_stop,
                       stacks, hooks, pc, at>>
    BY DEF Workerwise, Stop, WakeUp, CaptureMemorySnapshot, CaptureFails
  <1>1. TypeOK'
    BY <1>x DEF TypeOK
  <1>2. Alive' /\ Numbered' /\ Installed'
    BY <1>x DEF Alive, Numbered, NumberedOf, Installed, InstalledOf
  <1>3. Singleton'
    BY <1>x DEF Singleton
  <1>4. Workers'
    BY <1>x DEF Workers
  <1> QED
    BY <1>1, <1>2, <1>3, <1>4

-----------------------------------------------------------------------------
(* Every step *)

\* The locks, the singleton and the process's hooks are those of the one thread
\* that constructs or destroys a tracker, whoever records, forks or fails.
THEOREM Invariance == Spec => []IInv
  <1>1. Init => IInv
    <2> USE BoundsAssumption, NoThreadAssumption DEF Init, NoTracker, Trackers
    <2>1. Init => TypeOK
      <3>1. Threads # {}
        BY SomeThreadAssumption
      <3>2. Init => ThreadTypes /\ OwnerTypes
        BY <3>1 DEF ThreadTypes, OwnerTypes
      <3>3. Init => TrackerTypes
        <4>1. Init => /\ worker \in [Trackers -> {"none", "waiting", "capturing"}]
                      /\ seen \in [Threads -> 0..MaxTrackers]
          OBVIOUS
        <4>2. Init => /\ created \in 0..MaxTrackers /\ generation \in 0..MaxTrackers
                      /\ forks \in 0..MaxForks
          OBVIOUS
        <4>4. Init => spoiled \in BOOLEAN
          OBVIOUS
        <4>3. Init => /\ {s_instance, s_instance_owner} \subseteq {NoTracker} \cup Trackers
                      /\ finished \subseteq Trackers /\ d_stop \subseteq Trackers
                      /\ hooks \subseteq Hooks
          OBVIOUS
        <4> HIDE DEF Init
        <4> QED
          BY <4>1, <4>2, <4>3, <4>4 DEF TrackerTypes
      <3>4. ASSUME Init, NEW t \in living PROVE LocksOf(t)
        <4>1. t # NoThread /\ pc[t] = "idle" /\ s_mutex = NoThread /\ stacks_mutex = NoThread
          BY <3>4
        <4> HIDE DEF Init
        <4> QED
          BY <4>1 DEF LocksOf, Entering, Leaving, Recording
      <3> QED
        BY <3>2, <3>3, <3>4 DEF TypeOK, ThreadTypes, TrackerTypes, LocksOf
    <2>2. Init => Alive /\ Numbered /\ Singleton
      BY DEF Alive, Numbered, NumberedOf, Singleton, Constructed, Leaving, Recording
    <2>3. Init => Workers /\ Installed
      BY DEF Workers, Installed, InstalledOf, Constructed
    <2> QED
      BY <2>1, <2>2, <2>3 DEF IInv
  <1>2. ASSUME IInv, [Next]_vars PROVE IInv'
    <2>1. ASSUME NEW t \in Threads, Threadwise(t) PROVE IInv'
      BY <1>2, <2>1, InterceptorsStep, ThrowsStep, HeaderStep, HooksStep, StartStep,
         ActivateStep, MoveOnStep, RemovesStep, CloseStep, RecordingStep
         DEF Threadwise
    <2>2. ASSUME NEW t \in Threads, Enter(t) \/ Exit(t) \/ BeginRecording(t) \/ Fork(t)
          PROVE  IInv'
      BY <1>2, <2>2, EnterStep, ExitStep, ExitOfNoneStep, RecordingStep, ForkStep
    <2>3. ASSUME UNCHANGED vars PROVE IInv'
      BY <1>2, <2>3 DEF vars, process, locks, singleton, background, stacks, IInv, TypeOK,
         Alive, Numbered, NumberedOf, Singleton, Workers, Installed, InstalledOf
    <2> QED
      BY <1>2, <2>1, <2>2, <2>3, WorkerStep DEF Next, Terminated
  <1> QED
    BY <1>1, <1>2, PTL DEF Spec

\* No thread that records and no background thread uses a tracker whose writer
\* is gone, and none that begins to will (tracking_api.cpp:774-800).
THEOREM WritersOutliveTheirUsers == Spec => []WriterOutlivesItsUsers
  <1>1. ASSUME IInv PROVE WriterOutlivesItsUsers
    <2> USE <1>1 DEF IInv
    <2>1. ASSUME NEW t \in living, pc[t] \in Recording
          PROVE  at[t] \notin finished \cup {NoTracker}
      BY <2>1 DEF TypeOK, Numbered, NumberedOf
    <2>2. ASSUME NEW k \in finished PROVE worker[k] = "none"
      BY DEF TypeOK, Numbered, NumberedOf, Singleton, Workers, Constructed, Leaving
    <2>3. s_instance \notin finished
      BY DEF Numbered, Singleton, NoTracker
    <2> QED
      BY <2>1, <2>2, <2>3 DEF WriterOutlivesItsUsers
  <1> QED
    BY <1>1, Invariance, PTL

\* A tracker that ends takes all its hooks and its background thread with it,
\* unless a constructor threw or a fork left it behind.
THEOREM NothingIsLeftBehind == Spec => []NothingLeftBehind
  <1>1. ASSUME IInv, s_instance_owner = NoTracker, ~spoiled,
               \A t \in living : pc[t] \in {"idle", "locking"}
        PROVE  hooks = {} /\ \A k \in Trackers : worker[k] = "none"
    <2> USE <1>1 DEF IInv
    <2>1. \A t \in Threads : pc[t] \in {"idle", "locking"}
      BY DEF Alive
    <2>2. hooks = {}
      BY <2>1 DEF Installed, Changing, Constructed, Leaving
    <2>3. \A k \in Trackers : worker[k] = "none"
      BY <2>1 DEF Workers, Trackers, NoTracker
    <2> QED
      BY <2>2, <2>3
  <1>2. IInv => NothingLeftBehind
    BY <1>1 DEF NothingLeftBehind
  <1> QED
    BY <1>2, Invariance, PTL
===============================================================================
