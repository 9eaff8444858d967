-------------------------------- MODULE Hooks --------------------------------
(***************************************************************************)
(* The allocator hooks of hooks.cpp: each calls the function it replaces   *)
(* and tells the tracker, and between the two any other thread may call    *)
(* its own.  The functions that only allocate (malloc, calloc, valloc,     *)
(* memalign, posix_memalign, aligned_alloc, pvalloc, mmap) differ in the   *)
(* size they report and are one here, as are free and munmap.  A call that *)
(* fails changes nothing and records nothing, with two exceptions:         *)
(* pymalloc_malloc and pymalloc_calloc record the NULL that they get, and  *)
(* munmap has recorded the release by the time that it fails.              *)
(* The GIL, which orders most calls of Python's allocators, is left out:   *)
(* those of the raw domain are called without it, and what they release    *)
(* goes back to malloc, which any thread calls without it.                 *)
(***************************************************************************)
CONSTANTS
    Threads,
    Addresses,   \* that blocks may have
    Functions    \* which functions the program calls

VARIABLES
    heap,     \* addresses of the blocks that are allocated
    python,   \* those that Python's allocators handed out
    active,   \* a tracker is active
    pc,       \* what each thread's hook is about to do
    block,    \* the block it is about
    old,      \* the block that realloc moved
    known,    \* the blocks that a reader of the records takes to be allocated
    since,    \* history: the blocks that were allocated while active
    twice,    \* history: such blocks of which an allocation was recorded again
    doubtful  \* history: the blocks released before their end was recorded,
              \* and allocated again before that, or released with no record,
              \* or kept although their release was recorded

program == <<heap, python, pc, block, old>>
records == <<known, twice>>
hooksVars == <<program, records, active, since, doubtful>>

NoAddress == "no address"
NULL == "NULL"  \* what an allocator that fails returns

ASSUME NoAddressAssumption ==
    NoAddress \notin Addresses /\ NULL \notin Addresses /\ NULL # NoAddress

Steps == {"idle", "allocated", "freeing", "untracked", "moved", "freed"}

HooksInit ==
    /\ heap = {} /\ python = {} /\ active = FALSE
    /\ pc = [t \in Threads |-> "idle"]
    /\ block = [t \in Threads |-> NoAddress]
    /\ old = [t \in Threads |-> NoAddress]
    /\ known = {} /\ since = {} /\ twice = {} /\ doubtful = {}

InHook(t) == pc[t] # "idle"
InUse == {block[t] : t \in {u \in Threads : InHook(u)}}
            \cup {old[t] : t \in {u \in Threads : InHook(u)}}

\* The program may hand these to a function that frees: not those of a hook
\* that has not returned, unless it has released the block already.
Blocks == heap \ {block[t] : t \in {u \in Threads : pc[u] \notin {"idle", "freed"}}}

Enters(t, step, a, b) ==
    /\ pc' = [pc EXCEPT ![t] = step]
    /\ block' = [block EXCEPT ![t] = a]
    /\ old' = [old EXCEPT ![t] = b]

Returns(t) == Enters(t, "idle", NoAddress, NoAddress)

\* Tracker::trackAllocation and trackDeallocation, with s_mutex: nothing when
\* a RecursionGuard of the calling thread is alive.
TrackAllocation(a, guarded) ==
    IF active /\ ~guarded
    THEN known' = known \cup {a} /\ twice' = twice \cup ({a} \cap known)
    ELSE UNCHANGED records

TrackDeallocation(a, guarded) ==
    IF active /\ ~guarded
    THEN known' = known \ {a} /\ UNCHANGED twice
    ELSE UNCHANGED records

\* Released, while the hook that released them has yet to record it.
Unrecorded == {old[t] : t \in {u \in Threads : pc[u] = "moved"}}
                 \cup {block[t] : t \in {u \in Threads : pc[u] = "freed"}}

\* The allocator replaces block a, if any, by block b, if any.
Replaced(a, b) ==
    /\ heap' = (heap \ {a}) \cup (IF b = NoAddress THEN {} ELSE {b})
    /\ since' = (since \ {a}) \cup (IF b # NoAddress /\ active THEN {b} ELSE {})
    /\ doubtful' = doubtful \cup ({b} \cap Unrecorded)
    /\ UNCHANGED active

Malloc(t) ==
    /\ "malloc" \in Functions /\ ~InHook(t)
    /\ \E a \in Addresses \ heap :
        /\ Replaced(NoAddress, a)
        /\ Enters(t, "allocated", a, NoAddress)
    /\ UNCHANGED <<python, records>>

\* Mutant: Python's allocator calls the malloc hook with no guard.
PymallocMallocUnguarded(t) ==
    /\ "pymalloc_malloc" \in Functions /\ ~InHook(t)
    /\ \E a \in Addresses \ heap :
        /\ Replaced(NoAddress, a)
        /\ python' = python \cup {a}
        /\ Enters(t, "allocated", a, NoAddress)
        /\ TrackAllocation(a, FALSE)

\* Python's allocator gets memory from malloc, whose hook is guarded, or fails.
\* What it returns is recorded, NULL too.
PymallocMalloc(t) ==
    /\ "pymalloc_malloc" \in Functions /\ ~InHook(t)
    /\ \/ \E a \in Addresses \ heap :
            /\ Replaced(NoAddress, a)
            /\ python' = python \cup {a}
            /\ Enters(t, "allocated", a, NoAddress)
            /\ TrackAllocation(a, TRUE)
       \/ /\ Enters(t, "allocated", NULL, NoAddress)
          /\ UNCHANGED <<heap, python, active, since, doubtful, records>>

RecordAllocation(t) ==
    /\ pc[t] = "allocated"
    /\ TrackAllocation(block[t], FALSE)
    /\ Returns(t)
    /\ UNCHANGED <<heap, python, active, since, doubtful>>

\* free, which records before it frees.
Free(t) ==
    /\ "free" \in Functions /\ ~InHook(t)
    /\ \E a \in Blocks \ python : Enters(t, "freeing", a, NoAddress)
    /\ UNCHANGED <<heap, python, active, since, doubtful, records>>

RecordFree(t) ==
    /\ pc[t] = "freeing"
    /\ TrackDeallocation(block[t], FALSE)
    /\ Enters(t, "untracked", block[t], NoAddress)
    /\ UNCHANGED <<heap, python, active, since, doubtful>>

CallFree(t) ==
    /\ pc[t] = "untracked"
    /\ Replaced(block[t], NoAddress)
    /\ Returns(t)
    /\ UNCHANGED <<python, records>>

\* munmap fails: the mapping stays, without a record of it.
MunmapFails(t) ==
    /\ "munmap" \in Functions /\ pc[t] = "untracked"
    /\ doubtful' = doubtful \cup {block[t]}
    /\ Returns(t)
    /\ UNCHANGED <<heap, python, active, since, records>>

\* realloc and pymalloc_realloc of a block, in place or not, then its records.
Realloc(t) ==
    /\ "realloc" \in Functions /\ ~InHook(t)
    /\ \E a \in Blocks \ python : \E b \in (Addresses \ heap) \cup {a} :
        /\ Replaced(a, b)
        /\ Enters(t, "moved", b, a)
    /\ UNCHANGED <<python, records>>

PymallocRealloc(t) ==
    /\ "pymalloc_realloc" \in Functions /\ ~InHook(t)
    /\ \E a \in Blocks \cap python : \E b \in (Addresses \ heap) \cup {a} :
        /\ Replaced(a, b)
        /\ python' = (python \ {a}) \cup {b}
        /\ Enters(t, "moved", b, a)
    /\ UNCHANGED records

\* realloc(ptr, 0) frees the block and returns NULL, and nothing is recorded.
ReallocToNothing(t) ==
    /\ "realloc_0" \in Functions /\ ~InHook(t)
    /\ \E a \in Blocks \ python :
        /\ heap' = heap \ {a} /\ since' = since \ {a}
        /\ doubtful' = doubtful \cup {a}
    /\ UNCHANGED <<python, pc, block, old, active, records>>

\* Mutant: the new block is recorded before the old one.
RecordMoveSwapped(t) ==
    /\ pc[t] = "moved"
    /\ IF active THEN known' = (known \cup {block[t]}) \ {old[t]} ELSE UNCHANGED known
    /\ Returns(t)
    /\ UNCHANGED <<heap, python, active, since, doubtful, twice>>

RecordMove(t) ==
    /\ pc[t] = "moved"
    /\ TrackDeallocation(old[t], FALSE)
    /\ Enters(t, "allocated", block[t], NoAddress)
    /\ UNCHANGED <<heap, python, active, since, doubtful>>

\* pymalloc_free, which frees, guarded, before it records.
PymallocFree(t) ==
    /\ "pymalloc_free" \in Functions /\ ~InHook(t)
    /\ \E a \in Blocks \cap python :
        /\ Replaced(a, NoAddress)
        /\ Enters(t, "freed", a, NoAddress)
        /\ python' = python \ {a}
        /\ TrackDeallocation(a, TRUE)

RecordFreed(t) ==
    /\ pc[t] = "freed"
    /\ TrackDeallocation(block[t], FALSE)
    /\ Returns(t)
    /\ UNCHANGED <<heap, python, active, since, doubtful>>

\* A tracker is created, and later destroyed, at any time.
Activate ==
    /\ ~active
    /\ active' = TRUE /\ known' = {} /\ since' = {} /\ twice' = {} /\ doubtful' = {}
    /\ UNCHANGED program

Deactivate ==
    /\ active
    /\ active' = FALSE
    /\ UNCHANGED <<program, records, since, doubtful>>

HooksNext ==
    \/ Activate \/ Deactivate
    \/ \E t \in Threads :
        \/ Malloc(t) \/ PymallocMalloc(t) \/ RecordAllocation(t)
        \/ Free(t) \/ RecordFree(t) \/ CallFree(t) \/ MunmapFails(t)
        \/ ReallocToNothing(t)
        \/ Realloc(t) \/ PymallocRealloc(t) \/ RecordMove(t)
        \/ PymallocFree(t) \/ RecordFreed(t)

HooksSpec == HooksInit /\ [][HooksNext]_hooksVars

-----------------------------------------------------------------------------
(* Properties *)

\* Python's blocks are allocated, and a thread has a block only while it is
\* inside a hook.
HooksTypeOK ==
    /\ heap \subseteq Addresses /\ python \subseteq heap
    /\ known \subseteq Addresses \cup {NULL} /\ since \subseteq heap
    /\ twice \subseteq Addresses \cup {NULL} /\ doubtful \subseteq Addresses
    /\ active \in BOOLEAN
    /\ pc \in [Threads -> Steps]
    /\ block \in [Threads -> Addresses \cup {NULL, NoAddress}]
    /\ old \in [Threads -> Addresses \cup {NoAddress}]
    /\ \A t \in Threads :
        /\ block[t] = NoAddress <=> ~InHook(t)
        /\ block[t] = NULL => pc[t] = "allocated"
        /\ old[t] = NoAddress <=> pc[t] # "moved"

\* What holds of all functions: a reader errs about a block only when it was
\* allocated again between its release and the record of that, which realloc
\* and Python's allocators make in this order, when realloc(ptr, 0) freed it,
\* or when munmap failed to; and it takes nothing else than blocks to be
\* allocated but for the NULL of a call of Python's allocators that failed.
ReaderErrsOnlyOnReuse ==
    /\ HooksTypeOK
    /\ active => /\ known \ InUse \subseteq heap \cup doubtful \cup {NULL}
                 /\ since \ InUse \subseteq known \cup doubtful

\* With the same exceptions, no block is recorded as allocated while a reader
\* takes it to be allocated: neither by two hooks that one call goes through
\* nor after its address was reused.
RecordedOnce == active => twice \subseteq doubtful \cup {NULL}
=============================================================================
