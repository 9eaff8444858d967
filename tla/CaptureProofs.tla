---------------------------- MODULE CaptureProofs ----------------------------
(***************************************************************************)
(* Proofs about what a capture is made of, at its two ends: about Hooks,   *)
(* where allocations are recorded, for any number of threads and           *)
(* addresses, and about CaptureFile, where records are written and read,   *)
(* for any page size, window, values and number of records.                *)
(***************************************************************************)
EXTENDS Hooks, CaptureFile, SequenceTheorems, SumTheorems

-----------------------------------------------------------------------------
(* Hooks *)

\* The thread has a block that nobody else may have.
Holding(t) == block[t] # NULL /\ pc[t] \in {"allocated", "freeing", "untracked", "moved"}

Held ==
    /\ \A t \in Threads : Holding(t) => block[t] \in heap
    /\ \A t, u \in Threads : Holding(t) /\ Holding(u) /\ block[t] = block[u] => t = u
    /\ \A t \in Threads : pc[t] \in {"freeing", "untracked"} => block[t] \notin python

\* Allocated, while the hook has yet to record it, or to free it after it
\* recorded that.
Awaited == {block[t] : t \in {u \in Threads : pc[u] \in {"allocated", "moved", "untracked"}}}

\* What a thread is about to record does not contradict the records, unless the
\* block is doubtful or the NULL of a call that failed.
Consistent(t) ==
    /\ pc[t] \in {"allocated", "untracked"} => block[t] \notin known \ (doubtful \cup {NULL})
    /\ pc[t] = "freed" => block[t] \notin since \ doubtful
    /\ pc[t] = "moved" /\ block[t] # old[t] =>
          block[t] \notin known \ doubtful /\ old[t] \notin since \ doubtful

Recorded ==
    /\ known \subseteq heap \cup Unrecorded \cup doubtful \cup {NULL}
    /\ since \subseteq known \cup Awaited \cup doubtful
    /\ twice \subseteq doubtful \cup {NULL}
    /\ \A t \in Threads : Consistent(t)

HooksInv == HooksTypeOK /\ Held /\ (active => Recorded)

-----------------------------------------------------------------------------
(* Steps of one thread *)

\* What Enters says of every thread.
Gone(t, step, a, b) ==
    /\ pc' \in [Threads -> Steps]
    /\ block' \in [Threads -> Addresses \cup {NULL, NoAddress}]
    /\ old' \in [Threads -> Addresses \cup {NoAddress}]
    /\ pc'[t] = step /\ block'[t] = a /\ old'[t] = b
    /\ \A u \in Threads \ {t} :
          pc'[u] = pc[u] /\ block'[u] = block[u] /\ old'[u] = old[u]

\* A thread that enters a step leaves every other thread where it was.
LEMMA ThreadEnters ==
    ASSUME HooksTypeOK, NEW t \in Threads, NEW step \in Steps,
           NEW a \in Addresses \cup {NULL, NoAddress}, NEW b \in Addresses \cup {NoAddress},
           Enters(t, step, a, b)
    PROVE  Gone(t, step, a, b)
  BY DEF HooksTypeOK, Enters, Gone

\* malloc, or Python's allocator, of an idle thread.
LEMMA AllocationStep ==
    ASSUME HooksInv, NEW t \in Threads, ~InHook(t), NEW a \in Addresses \ heap,
           Replaced(NoAddress, a), Enters(t, "allocated", a, NoAddress),
           python' \in {python, python \cup {a}}, UNCHANGED records
    PROVE  HooksInv'
  <1> USE NoAddressAssumption DEF HooksInv
  <1>g. Gone(t, "allocated", a, NoAddress)
    BY ThreadEnters DEF Steps
  <1>h. /\ heap' = heap \cup {a} /\ active' = active
        /\ since' = IF active THEN since \cup {a} ELSE since
        /\ doubtful' = doubtful \cup ({a} \cap Unrecorded)
        /\ known' = known /\ twice' = twice
    BY DEF Replaced, HooksTypeOK, records
  <1>1. HooksTypeOK'
    BY <1>g, <1>h DEF HooksTypeOK, InHook, Gone
  <1>2. Held'
    BY <1>g, <1>h DEF Held, Holding, Gone
  <1>3. ASSUME active' PROVE Recorded'
    <2> USE <1>3, <1>h, <1>g DEF Gone
    <2>1. Unrecorded \subseteq Unrecorded' /\ Awaited \cup {a} \subseteq Awaited'
      BY DEF Unrecorded, Awaited, InHook
    <2>2. known' \subseteq heap' \cup Unrecorded' \cup doubtful' \cup {NULL}
      BY <2>1 DEF Recorded
    <2>3. since' \subseteq known' \cup Awaited' \cup doubtful'
      BY <2>1 DEF Recorded
    <2>4. twice' \subseteq doubtful' \cup {NULL}
      BY DEF Recorded
    <2>5. ASSUME NEW u \in Threads PROVE Consistent(u)'
      <3>1. CASE u = t
        BY <3>1 DEF Recorded, Consistent
      <3>2. CASE u # t
        BY DEF Recorded, Consistent, Unrecorded
      <3> QED
        BY <3>1, <3>2
    <2> QED
      BY <2>2, <2>3, <2>5 DEF Recorded
  <1> QED
    BY <1>1, <1>2, <1>3

\* Python's allocator fails: nothing is allocated, and NULL is recorded next.
LEMMA FailedAllocationStep ==
    ASSUME HooksInv, NEW t \in Threads, ~InHook(t),
           Enters(t, "allocated", NULL, NoAddress),
           UNCHANGED <<heap, python, active, since, doubtful, records>>
    PROVE  HooksInv'
  <1> USE NoAddressAssumption DEF HooksInv
  <1>g. Gone(t, "allocated", NULL, NoAddress)
    BY ThreadEnters DEF Steps
  <1>h. UNCHANGED <<heap, python, active, since, doubtful, known, twice>>
    BY DEF records
  <1>1. HooksTypeOK'
    BY <1>g, <1>h DEF HooksTypeOK, InHook, Gone
  <1>2. Held'
    BY <1>g, <1>h DEF Held, Holding, Gone
  <1>3. ASSUME active' PROVE Recorded'
    <2> USE <1>3, <1>h, <1>g DEF Gone
    <2>1. Unrecorded \subseteq Unrecorded' /\ Awaited \subseteq Awaited'
      BY DEF Unrecorded, Awaited, InHook
    <2>2. ASSUME NEW u \in Threads PROVE Consistent(u)'
      BY DEF Recorded, Consistent
    <2> QED
      BY <2>1, <2>2 DEF Recorded
  <1> QED
    BY <1>1, <1>2, <1>3

\* realloc of a block that no hook has, in place or not.
LEMMA ReallocationStep ==
    ASSUME HooksInv, NEW t \in Threads, ~InHook(t), NEW a \in Blocks,
           NEW b \in (Addresses \ heap) \cup {a},
           Replaced(a, b), Enters(t, "moved", b, a), UNCHANGED records,
           \/ a \notin python /\ python' = python
           \/ a \in python /\ python' = (python \ {a}) \cup {b}
    PROVE  HooksInv'
  <1> USE NoAddressAssumption DEF HooksInv
  <1>a. a \in heap /\ a \in Addresses /\ b \in Addresses
    BY DEF Blocks, HooksTypeOK
  <1>b. \A u \in Threads : Holding(u) => block[u] # a
    BY DEF Blocks, Holding
  <1>g. Gone(t, "moved", b, a)
    BY <1>a, ThreadEnters DEF Steps
  <1>h. /\ heap' = (heap \ {a}) \cup {b} /\ active' = active
        /\ since' = IF active THEN (since \ {a}) \cup {b} ELSE since \ {a}
        /\ doubtful' = doubtful \cup ({b} \cap Unrecorded)
        /\ known' = known /\ twice' = twice
    BY <1>a DEF Replaced, records
  <1>1. HooksTypeOK'
    BY <1>a, <1>g, <1>h DEF HooksTypeOK, InHook, Gone
  <1>2. Held'
    BY <1>b, <1>g, <1>h DEF Held, Holding, Gone
  <1>3. ASSUME active' PROVE Recorded'
    <2> USE <1>3, <1>a, <1>b, <1>h, <1>g DEF Gone
    <2>1. Unrecorded \cup {a} \subseteq Unrecorded' /\ Awaited \cup {b} \subseteq Awaited'
      BY DEF Unrecorded, Awaited, InHook
    <2>2. known' \subseteq heap' \cup Unrecorded' \cup doubtful' \cup {NULL}
      BY <2>1 DEF Recorded
    <2>3. since' \subseteq known' \cup Awaited' \cup doubtful'
      BY <2>1 DEF Recorded
    <2>4. twice' \subseteq doubtful' \cup {NULL}
      BY DEF Recorded
    <2>5. ASSUME NEW u \in Threads PROVE Consistent(u)'
      <3>1. CASE u = t
        BY <3>1 DEF Recorded, Consistent
      <3>2. CASE u # t
        BY DEF Recorded, Consistent, Unrecorded
      <3> QED
        BY <3>1, <3>2
    <2> QED
      BY <2>2, <2>3, <2>5 DEF Recorded
  <1> QED
    BY <1>1, <1>2, <1>3

\* The block is recorded, which no reader takes to be allocated.
LEMMA RecordAllocationStep ==
    ASSUME HooksInv, NEW t \in Threads, RecordAllocation(t)
    PROVE  HooksInv'
  <1> USE NoAddressAssumption DEF HooksInv
  <1>g. Gone(t, "idle", NoAddress, NoAddress) /\ UNCHANGED <<heap, python, active, since, doubtful>>
    BY ThreadEnters DEF RecordAllocation, Returns, Steps
  <1>h. /\ known' = (IF active THEN known \cup {block[t]} ELSE known)
        /\ twice' = IF active THEN twice \cup ({block[t]} \cap known) ELSE twice
    BY DEF RecordAllocation, TrackAllocation, records
  <1>p. pc[t] = "allocated" /\ block[t] \in Addresses \cup {NULL}
    BY DEF RecordAllocation, HooksTypeOK, InHook
  <1>1. HooksTypeOK'
    BY <1>g, <1>h, <1>p DEF HooksTypeOK, InHook, Gone
  <1>2. Held'
    BY <1>g DEF Held, Holding, Gone
  <1>3. ASSUME active' PROVE Recorded'
    <2> USE <1>3, <1>g, <1>h, <1>p DEF Gone
    <2>1. known' \subseteq heap' \cup Unrecorded' \cup doubtful' \cup {NULL}
      BY DEF Recorded, Held, Holding, Unrecorded
    <2>2. since' \subseteq known' \cup Awaited' \cup doubtful'
      BY DEF Recorded, Awaited
    <2>3. twice' \subseteq doubtful' \cup {NULL}
      BY DEF Recorded, Consistent
    <2>4. ASSUME NEW u \in Threads PROVE Consistent(u)'
      <3>1. CASE u = t
        BY <3>1 DEF Consistent
      <3>2. ASSUME u # t, pc[u] \in {"allocated", "untracked"}
            PROVE  block[u] \notin known' \ (doubtful \cup {NULL})
        BY <3>2 DEF Recorded, Consistent, Held, Holding
      <3>3. ASSUME u # t, pc[u] = "moved" PROVE block[u] # block[t]
        <4>1. block[u] # NULL
          BY <3>3 DEF HooksTypeOK
        <4> QED
          BY <3>3, <4>1 DEF Held, Holding
      <3> QED
        BY <3>1, <3>2, <3>3 DEF Recorded, Consistent
    <2> QED
      BY <2>1, <2>2, <2>3, <2>4 DEF Recorded
  <1> QED
    BY <1>1, <1>2, <1>3

\* The record comes before the release.
LEMMA RecordFreeStep ==
    ASSUME HooksInv, NEW t \in Threads, RecordFree(t)
    PROVE  HooksInv'
  <1> USE NoAddressAssumption DEF HooksInv
  <1>g. Gone(t, "untracked", block[t], NoAddress) /\ UNCHANGED <<heap, python, active, since, doubtful>>
    BY ThreadEnters DEF RecordFree, Steps, HooksTypeOK
  <1>h. known' = (IF active THEN known \ {block[t]} ELSE known) /\ twice' = twice
    BY DEF RecordFree, TrackDeallocation, records
  <1>p. pc[t] = "freeing"
    BY DEF RecordFree
  <1>1. HooksTypeOK'
    BY <1>g, <1>h, <1>p DEF HooksTypeOK, InHook, Gone
  <1>2. Held'
    BY <1>g, <1>p DEF Held, Holding, Gone
  <1>3. ASSUME active' PROVE Recorded'
    <2> USE <1>3, <1>g, <1>h, <1>p DEF Gone
    <2>1. known' \subseteq heap' \cup Unrecorded' \cup doubtful' \cup {NULL}
      BY DEF Recorded, Unrecorded
    <2>2. since' \subseteq known' \cup Awaited' \cup doubtful'
      BY DEF Recorded, Awaited
    <2>3. twice' \subseteq doubtful' \cup {NULL}
      BY DEF Recorded
    <2>4. ASSUME NEW u \in Threads PROVE Consistent(u)'
      BY DEF Recorded, Consistent
    <2> QED
      BY <2>1, <2>2, <2>4 DEF Recorded
  <1> QED
    BY <1>1, <1>2, <1>3

\* Where the block came from; where it went is recorded next.
LEMMA RecordMoveStep ==
    ASSUME HooksInv, NEW t \in Threads, RecordMove(t)
    PROVE  HooksInv'
  <1> USE NoAddressAssumption DEF HooksInv
  <1>g. Gone(t, "allocated", block[t], NoAddress) /\ UNCHANGED <<heap, python, active, since, doubtful>>
    BY ThreadEnters DEF RecordMove, Steps, HooksTypeOK
  <1>h. known' = (IF active THEN known \ {old[t]} ELSE known) /\ twice' = twice
    BY DEF RecordMove, TrackDeallocation, records
  <1>p. pc[t] = "moved"
    BY DEF RecordMove
  <1>1. HooksTypeOK'
    BY <1>g, <1>h, <1>p DEF HooksTypeOK, InHook, Gone
  <1>2. Held'
    BY <1>g, <1>p DEF Held, Holding, Gone
  <1>3. ASSUME active' PROVE Recorded'
    <2> USE <1>3, <1>g, <1>h, <1>p DEF Gone
    <2>1. known' \subseteq heap' \cup Unrecorded' \cup doubtful' \cup {NULL}
      BY DEF Recorded, Unrecorded
    <2>2. since' \subseteq known' \cup Awaited' \cup doubtful'
      BY DEF Recorded, Awaited, Consistent
    <2>3. twice' \subseteq doubtful' \cup {NULL}
      BY DEF Recorded
    <2>4. ASSUME NEW u \in Threads PROVE Consistent(u)'
      BY DEF Recorded, Consistent
    <2> QED
      BY <2>1, <2>2, <2>4 DEF Recorded
  <1> QED
    BY <1>1, <1>2, <1>3

\* The release comes before the record.
LEMMA RecordFreedStep ==
    ASSUME HooksInv, NEW t \in Threads, RecordFreed(t)
    PROVE  HooksInv'
  <1> USE NoAddressAssumption DEF HooksInv
  <1>g. Gone(t, "idle", NoAddress, NoAddress) /\ UNCHANGED <<heap, python, active, since, doubtful>>
    BY ThreadEnters DEF RecordFreed, Returns, Steps
  <1>h. known' = (IF active THEN known \ {block[t]} ELSE known) /\ twice' = twice
    BY DEF RecordFreed, TrackDeallocation, records
  <1>p. pc[t] = "freed"
    BY DEF RecordFreed
  <1>1. HooksTypeOK'
    BY <1>g, <1>h DEF HooksTypeOK, InHook, Gone
  <1>2. Held'
    BY <1>g DEF Held, Holding, Gone
  <1>3. ASSUME active' PROVE Recorded'
    <2> USE <1>3, <1>g, <1>h, <1>p DEF Gone
    <2>1. known' \subseteq heap' \cup Unrecorded' \cup doubtful' \cup {NULL}
      BY DEF Recorded, Unrecorded
    <2>2. since' \subseteq known' \cup Awaited' \cup doubtful'
      BY DEF Recorded, Awaited, Consistent
    <2>3. twice' \subseteq doubtful' \cup {NULL}
      BY DEF Recorded
    <2>4. ASSUME NEW u \in Threads PROVE Consistent(u)'
      BY DEF Recorded, Consistent
    <2> QED
      BY <2>1, <2>2, <2>4 DEF Recorded
  <1> QED
    BY <1>1, <1>2, <1>3

\* free chooses a block that no hook has and that is not one of Python's.
LEMMA FreeStep ==
    ASSUME HooksInv, NEW t \in Threads, Free(t)
    PROVE  HooksInv'
  <1> USE NoAddressAssumption DEF HooksInv
  <1>1. PICK a \in Blocks \ python : Enters(t, "freeing", a, NoAddress)
    BY DEF Free
  <1>a. a \in heap /\ a \in Addresses /\ \A u \in Threads : Holding(u) => block[u] # a
    BY DEF Blocks, Holding, HooksTypeOK
  <1>g. Gone(t, "freeing", a, NoAddress) /\ ~InHook(t)
    BY <1>1, <1>a, ThreadEnters DEF Steps, Free
  <1>h. UNCHANGED <<heap, python, active, since, doubtful, known, twice>>
    BY DEF Free, records
  <1>2. HooksTypeOK'
    BY <1>a, <1>g, <1>h DEF HooksTypeOK, InHook, Gone
  <1>3. Held'
    BY <1>a, <1>g, <1>h DEF Held, Holding, Gone
  <1>4. ASSUME active' PROVE Recorded'
    <2> USE <1>4, <1>g, <1>h DEF Gone
    <2>1. Unrecorded \subseteq Unrecorded' /\ Awaited \subseteq Awaited'
      BY DEF Unrecorded, Awaited, InHook
    <2>2. ASSUME NEW u \in Threads PROVE Consistent(u)'
      BY DEF Recorded, Consistent
    <2> QED
      BY <2>1, <2>2 DEF Recorded
  <1> QED
    BY <1>2, <1>3, <1>4

\* The block leaves the heap once the reader does not take it to be allocated.
LEMMA CallFreeStep ==
    ASSUME HooksInv, NEW t \in Threads, CallFree(t)
    PROVE  HooksInv'
  <1> USE NoAddressAssumption DEF HooksInv
  <1>a. /\ pc[t] = "untracked" /\ block[t] \in heap \ python
        /\ \A u \in Threads \ {t} : Holding(u) => block[u] # block[t]
    BY DEF CallFree, Held, Holding, HooksTypeOK
  <1>g. Gone(t, "idle", NoAddress, NoAddress)
    BY ThreadEnters DEF CallFree, Returns, Steps
  <1>h. /\ heap' = heap \ {block[t]} /\ active' = active
        /\ since' = since \ {block[t]}
        /\ python' = python /\ doubtful' = doubtful /\ known' = known /\ twice' = twice
    BY DEF CallFree, Replaced, HooksTypeOK, records, Unrecorded, InHook
  <1>1. HooksTypeOK'
    BY <1>a, <1>g, <1>h DEF HooksTypeOK, InHook, Gone
  <1>2. Held'
    BY <1>a, <1>g, <1>h DEF Held, Holding, Gone
  <1>3. ASSUME active' PROVE Recorded'
    <2> USE <1>a, <1>3, <1>g, <1>h DEF Gone
    <2>1. known' \subseteq heap' \cup Unrecorded' \cup doubtful' \cup {NULL}
      BY DEF Recorded, Consistent, Unrecorded
    <2>2. since' \subseteq known' \cup Awaited' \cup doubtful'
      BY DEF Recorded, Awaited
    <2>3. ASSUME NEW u \in Threads PROVE Consistent(u)'
      BY DEF Recorded, Consistent
    <2> QED
      BY <2>1, <2>2, <2>3 DEF Recorded
  <1> QED
    BY <1>1, <1>2, <1>3

\* A mapping that munmap leaves is doubtful.
LEMMA MunmapFailsStep ==
    ASSUME HooksInv, NEW t \in Threads, MunmapFails(t)
    PROVE  HooksInv'
  <1> USE NoAddressAssumption DEF HooksInv
  <1>a. pc[t] = "untracked" /\ block[t] \in Addresses
    BY DEF MunmapFails, HooksTypeOK, InHook
  <1>g. Gone(t, "idle", NoAddress, NoAddress)
    BY ThreadEnters DEF MunmapFails, Returns, Steps
  <1>h. /\ UNCHANGED <<heap, python, active, since, known, twice>>
        /\ doubtful' = doubtful \cup {block[t]}
    BY DEF MunmapFails, records
  <1>1. HooksTypeOK'
    BY <1>a, <1>g, <1>h DEF HooksTypeOK, InHook, Gone
  <1>2. Held'
    BY <1>g, <1>h DEF Held, Holding, Gone
  <1>3. ASSUME active' PROVE Recorded'
    <2> USE <1>a, <1>3, <1>g, <1>h DEF Gone
    <2>1. known' \subseteq heap' \cup Unrecorded' \cup doubtful' \cup {NULL}
      BY DEF Recorded, Unrecorded
    <2>2. since' \subseteq known' \cup Awaited' \cup doubtful'
      BY DEF Recorded, Awaited
    <2>3. ASSUME NEW u \in Threads PROVE Consistent(u)'
      BY DEF Recorded, Consistent
    <2> QED
      BY <2>1, <2>2, <2>3 DEF Recorded
  <1> QED
    BY <1>1, <1>2, <1>3

\* realloc to nothing makes the block doubtful.
LEMMA ReallocToNothingStep ==
    ASSUME HooksInv, NEW t \in Threads, ReallocToNothing(t)
    PROVE  HooksInv'
  <1> USE DEF HooksInv
  <1>1. PICK a \in Blocks \ python :
            heap' = heap \ {a} /\ since' = since \ {a} /\ doubtful' = doubtful \cup {a}
    BY DEF ReallocToNothing
  <1>a. a \in Addresses /\ \A u \in Threads : Holding(u) => block[u] # a
    BY DEF Blocks, Holding, HooksTypeOK
  <1>h. UNCHANGED <<python, pc, block, old, active, known, twice>>
    BY DEF ReallocToNothing, records
  <1>2. HooksTypeOK'
    BY <1>1, <1>a, <1>h DEF HooksTypeOK, InHook
  <1>3. Held'
    BY <1>1, <1>a, <1>h DEF Held, Holding
  <1>4. ASSUME active' PROVE Recorded'
    BY <1>1, <1>4, <1>h DEF Recorded, Consistent, Unrecorded, Awaited
  <1> QED
    BY <1>2, <1>3, <1>4

\* Python's free: the block, if the reader takes it to be allocated, is now one
\* whose release is not recorded.
LEMMA PymallocFreeStep ==
    ASSUME HooksInv, NEW t \in Threads, PymallocFree(t)
    PROVE  HooksInv'
  <1> USE NoAddressAssumption DEF HooksInv
  <1>1. PICK a \in Blocks \cap python :
            /\ Replaced(a, NoAddress) /\ Enters(t, "freed", a, NoAddress)
            /\ python' = python \ {a} /\ TrackDeallocation(a, TRUE)
    BY DEF PymallocFree
  <1>a. a \in heap /\ a \in Addresses /\ \A u \in Threads : Holding(u) => block[u] # a
    BY DEF Blocks, Holding, HooksTypeOK
  <1>g. Gone(t, "freed", a, NoAddress) /\ ~InHook(t)
    BY <1>1, <1>a, ThreadEnters DEF Steps, PymallocFree
  <1>h. /\ heap' = heap \ {a} /\ active' = active /\ python' = python \ {a}
        /\ since' = since \ {a}
        /\ doubtful' = doubtful /\ known' = known /\ twice' = twice
    <2>1. NoAddress \notin Unrecorded
      BY DEF Unrecorded, HooksTypeOK, InHook
    <2> QED
      BY <1>1, <2>1 DEF Replaced, TrackDeallocation, records
  <1>2. HooksTypeOK'
    BY <1>g, <1>h DEF HooksTypeOK, InHook, Gone
  <1>3. Held'
    BY <1>a, <1>g, <1>h DEF Held, Holding, Gone
  <1>4. ASSUME active' PROVE Recorded'
    <2> USE <1>a, <1>4, <1>g, <1>h DEF Gone
    <2>1. Unrecorded \cup {a} \subseteq Unrecorded' /\ Awaited \subseteq Awaited'
      BY DEF Unrecorded, Awaited, InHook
    <2>2. ASSUME NEW u \in Threads PROVE Consistent(u)'
      BY DEF Recorded, Consistent
    <2> QED
      BY <2>1, <2>2 DEF Recorded
  <1> QED
    BY <1>2, <1>3, <1>4

-----------------------------------------------------------------------------
(* Every step *)

LEMMA ThreadStep ==
    ASSUME HooksInv, NEW t \in Threads,
           \/ Malloc(t) \/ PymallocMalloc(t) \/ RecordAllocation(t)
           \/ Free(t) \/ RecordFree(t) \/ CallFree(t) \/ MunmapFails(t)
           \/ ReallocToNothing(t)
           \/ Realloc(t) \/ PymallocRealloc(t) \/ RecordMove(t)
           \/ PymallocFree(t) \/ RecordFreed(t)
    PROVE  HooksInv'
  <1>1. ASSUME Malloc(t) PROVE HooksInv'
    BY <1>1, AllocationStep DEF Malloc
  <1>2. ASSUME PymallocMalloc(t) PROVE HooksInv'
    BY <1>2, AllocationStep, FailedAllocationStep DEF PymallocMalloc, TrackAllocation
  <1>3. ASSUME Realloc(t) PROVE HooksInv'
    <2>1. PICK a \in Blocks \ python : \E b \in (Addresses \ heap) \cup {a} :
              Replaced(a, b) /\ Enters(t, "moved", b, a)
      BY <1>3 DEF Realloc
    <2> QED
      BY <1>3, ReallocationStep DEF Realloc
  <1>4. ASSUME PymallocRealloc(t) PROVE HooksInv'
    <2>1. PICK a \in Blocks \cap python : \E b \in (Addresses \ heap) \cup {a} :
              /\ Replaced(a, b) /\ Enters(t, "moved", b, a)
              /\ python' = (python \ {a}) \cup {b}
      BY <1>4 DEF PymallocRealloc
    <2> QED
      BY <1>4, ReallocationStep DEF PymallocRealloc
  <1> QED
    BY <1>1, <1>2, <1>3, <1>4, RecordAllocationStep, FreeStep, RecordFreeStep,
       CallFreeStep, MunmapFailsStep, ReallocToNothingStep, RecordMoveStep, PymallocFreeStep,
       RecordFreedStep

\* Whatever tracker is destroyed or created, what the hooks in progress go on to
\* record is consistent with the records of the one that is active, if any.
THEOREM HooksInvariance == HooksSpec => []HooksInv
  <1>1. HooksInit => HooksInv
    BY NoAddressAssumption DEF HooksInit, HooksInv, HooksTypeOK, InHook, Held, Holding, Steps
  <1>2. ASSUME HooksInv, [HooksNext]_hooksVars PROVE HooksInv'
    <2>1. ASSUME Activate PROVE HooksInv'
      BY <1>2, <2>1 DEF Activate, program, HooksInv, HooksTypeOK, InHook, Held, Holding,
                        Recorded, Consistent
    <2>2. ASSUME Deactivate PROVE HooksInv'
      BY <1>2, <2>2 DEF Deactivate, program, records, HooksInv, HooksTypeOK, InHook, Held, Holding
    <2>3. ASSUME UNCHANGED hooksVars PROVE HooksInv'
      BY <1>2, <2>3 DEF hooksVars, program, records, HooksInv, HooksTypeOK, InHook, Held, Holding,
                        Recorded, Consistent, Unrecorded, Awaited
    <2> QED
      BY <1>2, <2>1, <2>2, <2>3, ThreadStep DEF HooksNext
  <1> QED
    BY <1>1, <1>2, PTL DEF HooksSpec

\* The reader of the records of any number of threads' hooks errs about a block
\* that no hook is in the middle of only when its address was reused before its
\* release was recorded, realloc(ptr, 0) freed it or munmap failed to, and takes
\* NULL to be allocated after a call of Python's allocators failed
\* (hooks.cpp:109-275).
THEOREM ReaderErrsRarely == HooksSpec => []ReaderErrsOnlyOnReuse
  <1>1. HooksInv => ReaderErrsOnlyOnReuse
    <2>1. Unrecorded \subseteq InUse /\ Awaited \subseteq InUse
      BY DEF Unrecorded, Awaited, InUse, InHook
    <2> QED
      BY <2>1 DEF HooksInv, Recorded, ReaderErrsOnlyOnReuse
  <1> QED
    BY <1>1, HooksInvariance, PTL

\* With the same exceptions no block is recorded as allocated twice
\* (hooks.cpp:97-214, RecursionGuard).
THEOREM BlocksAreRecordedOnce == HooksSpec => []RecordedOnce
  <1>1. HooksInv => RecordedOnce
    BY DEF HooksInv, Recorded, RecordedOnce
  <1> QED
    BY <1>1, HooksInvariance, PTL

-----------------------------------------------------------------------------
(* CaptureFile *)

Stream(w) == FlattenSeq([i \in DOMAIN w |-> Bytes(w[i])])

-----------------------------------------------------------------------------
(* Sequences one after the other *)

\* g tells what the first i of some sequences are, one after the other.
JoinBody(g, s, i) == IF i = 1 THEN s[i] ELSE g[i - 1] \o s[i]
Joins(g, s) == g = [i \in 1..Len(s) |-> JoinBody(g, s, i)]

\* The sequences one after the other are what some such function tells last.
LEMMA FlattenUnfolds ==
    ASSUME NEW s, Len(s) # 0
    PROVE  FlattenSeq(s) = (CHOOSE g : Joins(g, s))[Len(s)]
BY Zenon DEF FlattenSeq, Joins, JoinBody

\* There is a function that tells it for the first n.
LEMMA SomeJoins ==
    ASSUME NEW s, NEW n \in Nat
    PROVE  \E g : \A i \in 1..n : g[i] = JoinBody(g, s, i)
<1> DEFINE Has(m) == \E g : \A i \in 1..m : g[i] = JoinBody(g, s, i)
           B == {m \in Nat : ~Has(m)}
<1>1. Has(0)
  OBVIOUS
<1>2. ASSUME NEW m \in Nat, Has(m) PROVE Has(m + 1)
  <2>1. PICK g : \A i \in 1..m : g[i] = JoinBody(g, s, i)
    BY <1>2
  <2> DEFINE h == [i \in 1..(m + 1) |-> IF i <= m THEN g[i] ELSE JoinBody(g, s, i)]
  <2>2. ASSUME NEW i \in 1..(m + 1) PROVE h[i] = JoinBody(h, s, i)
    <3>1. i # 1 => i - 1 \in 1..m /\ h[i - 1] = g[i - 1]
      OBVIOUS
    <3>2. h[i] = JoinBody(g, s, i)
      BY <2>1
    <3> HIDE DEF h
    <3> QED BY <3>1, <3>2 DEF JoinBody
  <2> HIDE DEF h
  <2> QED BY <2>2
<1> HIDE DEF Has
<1>3. B = {}
  <2> SUFFICES ASSUME B # {} PROVE FALSE
    OBVIOUS
  <2>1. PICK m \in B : \A k \in B : m <= k
    <3>1. B \in SUBSET Nat
      OBVIOUS
    <3> HIDE DEF B
    <3> QED BY <3>1, LeastNumber
  <2>2. m # 0 /\ m \in Nat
    BY <1>1
  <2>3. m - 1 \in Nat /\ ~(m <= m - 1)
    BY <2>2
  <2>4. Has(m - 1)
    BY <2>1, <2>3
  <2>5. Has(m)
    BY <1>2, <2>2, <2>3, <2>4, m - 1 + 1 = m
  <2> QED BY <2>5
<1> QED BY <1>3 DEF Has

\* There is such a function for every sequence of sequences.
LEMMA JoinsExist ==
    ASSUME NEW s, Len(s) \in Nat
    PROVE  \E g : Joins(g, s)
<1>1. PICK g : \A i \in 1..Len(s) : g[i] = JoinBody(g, s, i)
  BY SomeJoins
<1> DEFINE h == [i \in 1..Len(s) |-> g[i]]
<1>2. ASSUME NEW i \in 1..Len(s) PROVE h[i] = JoinBody(h, s, i)
  <2>1. i # 1 => i - 1 \in 1..Len(s) /\ h[i - 1] = g[i - 1]
    OBVIOUS
  <2>2. h[i] = g[i]
    OBVIOUS
  <2> HIDE DEF h
  <2> QED BY <1>1, <2>1, <2>2 DEF JoinBody
<1>3. h = [i \in 1..Len(s) |-> h[i]]
  OBVIOUS
<1> HIDE DEF h
<1>4. Joins(h, s)
  BY <1>2, <1>3 DEF Joins
<1> QED BY <1>4

\* What such a function tells of some element.
LEMMA JoinsAt ==
    ASSUME NEW s, NEW g, Joins(g, s), NEW i \in 1..Len(s)
    PROVE  g[i] = JoinBody(g, s, i)
<1>1. g = [j \in 1..Len(s) |-> JoinBody(g, s, j)]
  BY DEF Joins
<1>2. [j \in 1..Len(s) |-> JoinBody(g, s, j)][i] = JoinBody(g, s, i)
  OBVIOUS
<1> QED BY <1>1, <1>2, Zenon

\* Two sequences, or functions, begin in the same way.
Same(s, t, n) == \A i \in 1..n : s[i] = t[i]

\* Two functions agree as far as their sequences do.
LEMMA JoinsAgree ==
    ASSUME NEW s, NEW t, NEW g, NEW h, Joins(g, s), Joins(h, t), Len(s) \in Nat, Len(t) \in Nat,
           NEW n \in Nat, n <= Len(s), n <= Len(t), Same(s, t, n)
    PROVE  Same(g, h, n)
<1> DEFINE B == {i \in 1..n : g[i] # h[i]}
<1>1. B = {}
  <2> SUFFICES ASSUME B # {} PROVE FALSE
    OBVIOUS
  <2>1. PICK m \in B : \A k \in B : m <= k
    <3>1. B \in SUBSET Nat
      OBVIOUS
    <3> HIDE DEF B
    <3> QED BY <3>1, LeastNumber
  <2>2. g[m] = JoinBody(g, s, m) /\ h[m] = JoinBody(h, t, m) /\ s[m] = t[m]
    <3>1. m \in 1..Len(s) /\ m \in 1..Len(t) /\ s[m] = t[m]
      BY DEF Same
    <3> HIDE DEF B
    <3> QED BY <3>1, JoinsAt
  <2>3. m # 1 => m - 1 \in 1..n /\ g[m - 1] = h[m - 1]
    BY <2>1
  <2>4. g[m] = h[m]
    BY <2>2, <2>3 DEF JoinBody
  <2> QED BY <2>4
<1> QED BY <1>1 DEF Same

\* A sequence more is appended to all the others.
LEMMA FlattenOfAppend ==
    ASSUME NEW T, NEW s \in Seq(Seq(T)), NEW x \in Seq(T)
    PROVE  FlattenSeq(Append(s, x)) = FlattenSeq(s) \o x
<1> DEFINE t == Append(s, x)  n == Len(s)
<1>1. /\ n \in Nat /\ Len(t) = n + 1 /\ t[n + 1] = x /\ Len(t) # 0
      /\ \A i \in 1..n : s[i] = t[i]
  OBVIOUS
<1>2. PICK h : Joins(h, t) /\ FlattenSeq(t) = h[n + 1]
  <2> HIDE DEF t, n
  <2>1. \E g : Joins(g, t)
    BY <1>1, JoinsExist
  <2>2. Joins(CHOOSE g : Joins(g, t), t)
    BY <2>1, Zenon
  <2> QED BY <1>1, <2>2, FlattenUnfolds
<1>3. h[n + 1] = JoinBody(h, t, n + 1)
  <2> HIDE DEF t, n
  <2>1. n + 1 \in 1..Len(t)
    BY <1>1
  <2> QED BY <1>2, <2>1, JoinsAt
<1>4. CASE n = 0
  <2>1. FlattenSeq(s) = s /\ s = <<>>
    BY <1>4 DEF FlattenSeq
  <2>2. h[n + 1] = x
    <3> HIDE DEF t, n
    <3> QED BY <1>1, <1>3, <1>4 DEF JoinBody
  <2>3. <<>> \o x = x
    OBVIOUS
  <2> QED BY <1>2, <2>1, <2>2, <2>3
<1>5. CASE n # 0
  <2> HIDE DEF t, n
  <2>1. PICK g : Joins(g, s) /\ FlattenSeq(s) = g[n]
    <3>1. \E g : Joins(g, s)
      BY <1>1, JoinsExist DEF n
    <3>2. Joins(CHOOSE g : Joins(g, s), s)
      BY <3>1, Zenon
    <3> QED BY <1>5, <3>2, FlattenUnfolds DEF n
  <2>2. Same(g, h, n)
    <3>1. /\ Len(s) = n /\ n \in Nat /\ Len(s) \in Nat /\ Len(t) \in Nat
          /\ n <= Len(s) /\ n <= Len(t)
      BY <1>1 DEF n
    <3>2. Same(s, t, n)
      BY <1>1 DEF Same
    <3>3. Joins(g, s) /\ Joins(h, t)
      BY <1>2, <2>1
    <3> QED BY <3>1, <3>2, <3>3, JoinsAgree, Zenon
  <2>3. h[n] = g[n]
    BY <1>1, <1>5, <2>2 DEF Same
  <2>4. h[n + 1] = h[n] \o x
    <3>1. n + 1 # 1 /\ n + 1 - 1 = n
      BY <1>1, <1>5
    <3> QED BY <1>1, <1>3, <3>1 DEF JoinBody
  <2> QED BY <1>2, <2>1, <2>3, <2>4 DEF t
<1> QED BY <1>4, <1>5

\* No sequence, one after the other, is the empty sequence.
LEMMA FlattenOfNone == FlattenSeq(<<>>) = <<>>
BY DEF FlattenSeq

-----------------------------------------------------------------------------
(* The inductive invariant: where the window is, what is in the file *)

H(stats) == <<MAGIC, stats, 0>>
Stats == IF Streaming THEN 0 ELSE 1

\* A file begins with some bytes, and zeros follow.
Padded(f, c) ==
    /\ Len(c) <= Len(f)
    /\ \A i \in 1..Len(f) : f[i] = IF i <= Len(c) THEN c[i] ELSE 0

\* The next byte will be put behind them.
Position == d_bufferOffset + needle
Ends(f, position, c) == position = Len(c) /\ Padded(f, c)
At(c) == Ends(file, Position, c)

\* Of what a method has to write, some bytes are there and the rest are to do.
Does(f, position, fields, base, all) ==
    \E n \in 0..(Len(all) - 1) :
        /\ Bytes(fields) = SubSeq(all, n + 1, Len(all))
        /\ Ends(f, position, base \o SubSeq(all, 1, n))
Doing(base, all) == Does(file, Position, todo, base, all)

\* What a failure, or the trailer, leaves behind the complete records.
Partials == UNION {{SubSeq(Bytes(r), 1, n) : n \in 0..(Len(Bytes(r)) - 1)} : r \in Records}
Tails == Partials \cup {g \o <<TRAILER>> : g \in Partials}
Clean(t) == t \in Partials \cup {<<TRAILER>>} \/ broken

Holds(f, b, t) == Padded(f, H(b) \o Stream(written) \o t)

\* At whatever moment the process ends.
LeftIn(f) ==
    \/ written = <<>> /\ \E b \in 0..1, n \in 0..2 : Padded(f, SubSeq(H(b), 1, n))
    \/ \E b \in 0..1, t \in Tails : Clean(t) /\ Holds(f, b, t)

Paged(n) == \E k \in Int : n = k * PageSize

Placed ==
    /\ file \in Seq(Nat) /\ window \in {"none", "mapped", "stale"}
    /\ Paged(Len(file)) /\ Paged(d_bufferOffset) /\ Paged(end)
    /\ d_bufferOffset \in Nat /\ end \in Nat /\ needle \in 0..end /\ end <= BUFFER_SIZE
    /\ d_bufferOffset + end <= Len(file)

WritingStages == {"header", "record", "trailer", "final header"}
Stages == WritingStages \cup {"tracking", "rewind", "closing", "closed", "killed"}

\* Up to three fields, none of them empty.
AreFields(q) == q \in Seq(Seq(Nat)) /\ Len(q) <= 3 /\ \A i \in 1..Len(q) : q[i] # <<>>

\* The fields that are left of a method, and the records before and after it.
Queued ==
    /\ AreFields(todo)
    /\ kept \in Seq(Records) /\ written \in Seq(Records)
    /\ stage \in Stages /\ (todo # <<>> <=> stage \in WritingStages)
    /\ broken \in BOOLEAN /\ lz4 \in BOOLEAN
    /\ killed = (stage = "killed") /\ (lz4 => stage = "closed")
    /\ rstate # "closed" => stage \in {"closed", "killed"}

OfHeader == stage = "header" => ~broken /\ written = <<>> /\ Doing(<<>>, H(Stats))

OfTracking ==
    stage = "tracking" =>
        IF Streaming
        THEN \E t \in Partials : (t = <<>> \/ broken) /\ At(H(0) \o Stream(written) \o t)
        ELSE ~broken /\ written = <<>> /\ At(<<>>)

OfRecord ==
    stage = "record" =>
        ~broken /\ kept # <<>> /\ Doing(H(Stats) \o Stream(written), Bytes(Head(kept)))

OfTrailer ==
    stage = "trailer" =>
        /\ todo = <<<<TRAILER>>>>
        /\ \E t \in Partials : (t = <<>> \/ broken) /\ At(H(Stats) \o Stream(written) \o t)

OfRewind ==
    stage = "rewind" =>
        Streaming /\ \E t \in Tails : (t = <<TRAILER>> \/ broken) /\ Holds(file, 0, t)

OfFinalHeader ==
    stage = "final header" =>
        /\ Streaming
        /\ \E t \in Tails, n \in 0..2 :
              /\ t = <<TRAILER>> \/ broken
              /\ Position = n /\ Bytes(todo) = SubSeq(H(1), n + 1, 3)
              /\ Holds(file, IF n = 2 THEN 1 ELSE 0, t)

OfEnd ==
    /\ stage \in {"closing", "closed"} => (broken /\ LeftIn(file)) \/ Holds(file, 1, <<TRAILER>>)
    /\ stage = "killed" => LeftIn(file)

Contents ==
    /\ OfHeader /\ OfTracking /\ OfRecord /\ OfTrailer /\ OfRewind /\ OfFinalHeader /\ OfEnd

WInv == Placed /\ Queued /\ Contents

-----------------------------------------------------------------------------
(* Pages *)

\* What pages add up to has no rest.
LEMMA PagedHasNoRest ==
    ASSUME NEW n, Paged(n)
    PROVE  n % PageSize = 0
<1>1. PICK k \in Int : n = k * PageSize
  BY DEF Paged
<1>2. PageSize \in Nat \ {0}
  BY SizeAssumption
<1>3. (k * PageSize) % PageSize = 0
  BY <1>2
<1> QED BY <1>1, <1>3

\* Pages and pages are pages.
LEMMA PagedSums ==
    ASSUME NEW m, NEW n, Paged(m), Paged(n)
    PROVE  Paged(m + n) /\ Paged(m - n)
<1>1. PICK j \in Int : m = j * PageSize
  BY DEF Paged
<1>2. PICK k \in Int : n = k * PageSize
  BY DEF Paged
<1>3. PageSize \in Int
  BY SizeAssumption
<1>4. m + n = (j + k) * PageSize /\ m - n = (j - k) * PageSize
  BY <1>1, <1>2, <1>3
<1>5. j + k \in Int /\ j - k \in Int
  OBVIOUS
<1> QED BY <1>4, <1>5 DEF Paged

\* The start of the file and the window are whole numbers of pages.
LEMMA PagedConstants == Paged(0) /\ Paged(BUFFER_SIZE) /\ BUFFER_SIZE \in Nat
<1>1. PageSize \in Nat \ {0}
  BY SizeAssumption
<1>2. 0 = 0 * PageSize
  BY <1>1
<1>3. PICK n \in 1..8 : BUFFER_SIZE = n * PageSize
  BY SizeAssumption
<1>4. n \in Int /\ n * PageSize \in Nat
  BY <1>1
<1> QED BY <1>2, <1>3, <1>4 DEF Paged

-----------------------------------------------------------------------------
(* What grows, and what is copied *)

\* Zeros stay zeros.
LEMMA PaddedGrows ==
    ASSUME NEW f \in Seq(Nat), NEW c \in Seq(Nat), Padded(f, c), NEW n \in Nat
    PROVE  /\ f \o Zeros(n) \in Seq(Nat) /\ Len(f \o Zeros(n)) = Len(f) + n
           /\ Padded(f \o Zeros(n), c)
<1>1. Zeros(n) \in Seq(Nat) /\ Len(Zeros(n)) = n /\ \A i \in 1..n : Zeros(n)[i] = 0
  BY DEF Zeros
<1>2. /\ f \o Zeros(n) \in Seq(Nat) /\ Len(f \o Zeros(n)) = Len(f) + n
      /\ \A i \in 1..(Len(f) + n) :
            (f \o Zeros(n))[i] = IF i <= Len(f) THEN f[i] ELSE Zeros(n)[i - Len(f)]
  BY <1>1, ConcatProperties
<1> HIDE DEF Zeros
<1>3. ASSUME NEW i \in 1..(Len(f) + n)
      PROVE  (f \o Zeros(n))[i] = IF i <= Len(c) THEN c[i] ELSE 0
  BY <1>1, <1>2 DEF Padded
<1> QED BY <1>2, <1>3 DEF Padded

\* The field that is written.
LEMMA FieldFacts ==
    ASSUME Queued, Writing
    PROVE  /\ Head(todo) \in Seq(Nat) /\ Len(Head(todo)) \in Nat \ {0}
           /\ Tail(todo) \in Seq(Seq(Nat)) /\ Len(Tail(todo)) <= 2
           /\ \A i \in 1..Len(Tail(todo)) : Tail(todo)[i] # <<>>
<1>1. todo \in Seq(Seq(Nat)) /\ todo # <<>> /\ Len(todo) <= 3 /\ \A i \in 1..Len(todo) : todo[i] # <<>>
  BY DEF Queued, AreFields, Writing
<1>2. Len(todo) \in 1..3 /\ Head(todo) = todo[1]
  <2>1. Len(todo) \in Nat \ {0}
    BY <1>1, EmptySeq
  <2>2. Len(todo) \in 1..3
    <3> DEFINE n == Len(todo)
    <3>1. n <= 3 /\ n \in Nat \ {0}
      BY <1>1, <2>1
    <3> HIDE DEF n
    <3>2. n \in 1..3
      BY <3>1
    <3> QED BY <3>2 DEF n
  <2>3. Head(todo) = todo[1]
    BY <1>1
  <2> QED BY <2>2, <2>3
<1>3. /\ Tail(todo) \in Seq(Seq(Nat)) /\ Len(Tail(todo)) = Len(todo) - 1
      /\ \A i \in 1..Len(Tail(todo)) : Tail(todo)[i] = todo[i + 1]
  BY <1>1, HeadTailProperties
<1>4. Head(todo) \in Seq(Nat) /\ Head(todo) # <<>>
  BY <1>1, <1>2
<1>5. Len(Head(todo)) \in Nat \ {0}
  BY <1>4, EmptySeq
<1>6. ASSUME NEW i \in 1..Len(Tail(todo)) PROVE Tail(todo)[i] # <<>>
  <2>1. i + 1 \in 1..Len(todo)
    BY <1>2, <1>3
  <2> QED BY <1>1, <1>3, <2>1
<1>7. Len(Tail(todo)) <= 2 /\ Tail(todo) \in Seq(Seq(Nat))
  <2> DEFINE n == Len(todo)
             m == Len(Tail(todo))
  <2>1. n \in 1..3 /\ m = n - 1
    BY <1>2, <1>3
  <2> HIDE DEF n, m
  <2>2. m <= 2
    BY <2>1
  <2> QED BY <1>3, <2>2 DEF m
<1>8. Head(todo) \in Seq(Nat)
  BY <1>4
<1> QED BY <1>5, <1>6, <1>7, <1>8

\* What memcpy does to each byte of the file.
LEMMA CopiedFacts ==
    ASSUME Placed, Queued, Writing, NEW k \in Nat, k <= Len(Head(todo)), Position + k <= Len(file)
    PROVE  /\ Copied(k) \in Seq(Nat) /\ Len(Copied(k)) = Len(file)
           /\ \A i \in 1..Len(file) :
                 Copied(k)[i] = IF i \in (Position + 1)..(Position + k) THEN Head(todo)[i - Position]
                                                                       ELSE file[i]
<1>1. /\ file \in Seq(Nat) /\ DOMAIN file = 1..Len(file) /\ Len(file) \in Nat
      /\ \A i \in 1..Len(file) : file[i] \in Nat
  BY DEF Placed
<1>2. Head(todo) \in Seq(Nat) /\ Len(Head(todo)) \in Nat
  BY FieldFacts
<1>3. Position \in Nat /\ d_bufferOffset \in Nat /\ needle \in Nat /\ Position = d_bufferOffset + needle
  BY DEF Placed, Position
<1> DEFINE x == Head(todo)
<1> HIDE DEF x
<1>4. ASSUME NEW i \in 1..Len(file)
      PROVE  /\ Copied(k)[i] = IF i \in (Position + 1)..(Position + k) THEN x[i - Position] ELSE file[i]
             /\ Copied(k)[i] \in Nat
  <2>1. i - d_bufferOffset - needle = i - Position
    BY <1>3
  <2>2. Copied(k)[i] = IF i - Position \in 1..k THEN x[i - Position] ELSE file[i]
    BY <1>1, <2>1 DEF Copied, x
  <2>3. i - Position \in 1..k <=> i \in (Position + 1)..(Position + k)
    BY <1>3
  <2>4. ASSUME i - Position \in 1..k PROVE x[i - Position] \in Nat
    <3>1. i - Position \in 1..Len(x) /\ x \in Seq(Nat)
      BY <1>2, <1>3, <2>4 DEF x
    <3> QED BY <3>1, ElementOfSeq
  <2> QED BY <1>1, <2>2, <2>3, <2>4
<1>5. Copied(k) = [i \in 1..Len(file) |-> Copied(k)[i]]
  BY <1>1 DEF Copied
<1>6. Copied(k) \in [1..Len(file) -> Nat]
  <2> DEFINE y == Copied(k)
  <2>1. y = [i \in 1..Len(file) |-> y[i]] /\ \A i \in 1..Len(file) : y[i] \in Nat
    BY <1>4, <1>5
  <2> HIDE DEF y
  <2> QED BY <2>1 DEF y
<1>7. Copied(k) \in Seq(Nat) /\ Len(Copied(k)) = Len(file)
  <2> DEFINE y == Copied(k)
  <2> HIDE DEF y
  <2>1. y \in [1..Len(file) -> Nat] /\ Len(file) \in Nat
    BY <1>1, <1>6 DEF y
  <2>2. y \in Seq(Nat) /\ Len(y) = Len(file)
    BY <2>1
  <2> QED BY <2>2 DEF y
<1> QED BY <1>4, <1>7 DEF x

\* Bytes that are copied behind what was there.
LEMMA CopyAppends ==
    ASSUME Placed, Queued, Writing, NEW c \in Seq(Nat), At(c),
           NEW k \in Nat, k <= Len(Head(todo)), Position + k <= Len(file)
    PROVE  /\ Padded(Copied(k), c \o SubSeq(Head(todo), 1, k))
           /\ Position + k = Len(c \o SubSeq(Head(todo), 1, k))
<1> DEFINE x == SubSeq(Head(todo), 1, k)
           d == c \o x
<1>1. Head(todo) \in Seq(Nat) /\ Len(Head(todo)) \in Nat
  BY FieldFacts
<1>2. x \in Seq(Nat) /\ Len(x) = k /\ \A i \in 1..k : x[i] = Head(todo)[i]
  <2> DEFINE h == Head(todo)
  <2> HIDE DEF h
  <2>1. h \in Seq(Nat) /\ Len(h) \in Nat /\ k <= Len(h)
    BY <1>1 DEF h
  <2>2. SubSeq(h, 1, k) \in Seq(Nat) /\ Len(SubSeq(h, 1, k)) = k /\ \A i \in 1..k : SubSeq(h, 1, k)[i] = h[i]
    BY <2>1
  <2> QED BY <2>2 DEF h
<1> HIDE DEF x
<1>3. /\ d \in Seq(Nat) /\ Len(d) = Len(c) + k
      /\ \A i \in 1..(Len(c) + k) : d[i] = IF i <= Len(c) THEN c[i] ELSE x[i - Len(c)]
  BY <1>2, ConcatProperties
<1>4. /\ Len(Copied(k)) = Len(file)
      /\ \A i \in 1..Len(file) :
            Copied(k)[i] = IF i \in (Position + 1)..(Position + k) THEN Head(todo)[i - Position] ELSE file[i]
  BY CopiedFacts
<1>5. Position = Len(c) /\ Len(c) \in Nat /\ Padded(file, c)
  BY DEF At, Ends
<1> HIDE DEF d
<1>6. ASSUME NEW i \in 1..Len(file)
      PROVE  Copied(k)[i] = IF i <= Len(d) THEN d[i] ELSE 0
  <2>1. CASE i <= Len(c)
    BY <1>3, <1>4, <1>5, <2>1 DEF Padded
  <2>2. CASE i > Len(c) /\ i <= Len(c) + k
    <3>1. i - Len(c) \in 1..k /\ i \in (Position + 1)..(Position + k)
      BY <1>5, <2>2
    <3>2. Copied(k)[i] = Head(todo)[i - Len(c)] /\ d[i] = x[i - Len(c)]
      BY <1>3, <1>4, <1>5, <2>2, <3>1
    <3> QED BY <1>2, <1>3, <2>2, <3>1, <3>2
  <2>3. CASE i > Len(c) + k
    BY <1>3, <1>4, <1>5, <2>3 DEF Padded
  <2> QED BY <1>5, <2>1, <2>2, <2>3
<1>7. Padded(Copied(k), d)
  BY <1>3, <1>4, <1>5, <1>6 DEF Padded
<1> QED BY <1>3, <1>5, <1>7 DEF d, x

-----------------------------------------------------------------------------
(* The bytes of fields *)

\* One, two and three fields.
LEMMA FlattenFew ==
    ASSUME NEW a \in Seq(Nat), NEW b \in Seq(Nat), NEW c \in Seq(Nat)
    PROVE  /\ FlattenSeq(<<a>>) = a
           /\ FlattenSeq(<<a, b>>) = a \o b
           /\ FlattenSeq(<<a, b, c>>) = a \o (b \o c)
<1>1. /\ <<>> \in Seq(Seq(Nat)) /\ <<a>> \in Seq(Seq(Nat)) /\ <<a, b>> \in Seq(Seq(Nat))
      /\ <<a>> = Append(<<>>, a) /\ <<a, b>> = Append(<<a>>, b) /\ <<a, b, c>> = Append(<<a, b>>, c)
  OBVIOUS
<1>2. FlattenSeq(<<a>>) = <<>> \o a
  BY <1>1, FlattenOfAppend, FlattenOfNone
<1>3. <<>> \o a = a
  OBVIOUS
<1>4. FlattenSeq(<<a, b>>) = a \o b
  BY <1>1, <1>2, <1>3, FlattenOfAppend
<1>5. FlattenSeq(<<a, b, c>>) = (a \o b) \o c
  BY <1>1, <1>4, FlattenOfAppend
<1>6. (a \o b) \o c = a \o (b \o c)
  BY ConcatAssociative
<1> QED BY <1>2, <1>3, <1>4, <1>5, <1>6, Zenon

\* A short sequence is the list of its members.
LEMMA ShortSequence ==
    ASSUME NEW T, NEW s \in Seq(T)
    PROVE  /\ Len(s) = 1 => s[1] \in T /\ s = <<s[1]>>
           /\ Len(s) = 2 => s[1] \in T /\ s[2] \in T /\ s = <<s[1], s[2]>>
           /\ Len(s) = 3 => s[1] \in T /\ s[2] \in T /\ s[3] \in T /\ s = <<s[1], s[2], s[3]>>
<1>1. ASSUME Len(s) = 1 PROVE s[1] \in T /\ s = <<s[1]>>
  <2>1. 1 \in 1..Len(s)
    BY <1>1
  <2>2. s[1] \in T
    BY <2>1, ElementOfSeq
  <2>3. <<s[1]>> \in Seq(T) /\ Len(<<s[1]>>) = 1 /\ \A i \in 1..1 : <<s[1]>>[i] = s[i]
    BY <2>2
  <2> QED BY <1>1, <2>2, <2>3, SeqEqual
<1>2. ASSUME Len(s) = 2 PROVE s[1] \in T /\ s[2] \in T /\ s = <<s[1], s[2]>>
  <2>1. 1 \in 1..Len(s) /\ 2 \in 1..Len(s)
    BY <1>2
  <2>2. s[1] \in T /\ s[2] \in T
    BY <2>1, ElementOfSeq
  <2>3. <<s[1], s[2]>> \in Seq(T) /\ Len(<<s[1], s[2]>>) = 2 /\ \A i \in 1..2 : <<s[1], s[2]>>[i] = s[i]
    BY <2>2
  <2> QED BY <1>2, <2>2, <2>3, SeqEqual
<1>3. ASSUME Len(s) = 3 PROVE s[1] \in T /\ s[2] \in T /\ s[3] \in T /\ s = <<s[1], s[2], s[3]>>
  <2>1. 1 \in 1..Len(s) /\ 2 \in 1..Len(s) /\ 3 \in 1..Len(s)
    BY <1>3
  <2>2. s[1] \in T /\ s[2] \in T /\ s[3] \in T
    BY <2>1, ElementOfSeq
  <2>3. /\ <<s[1], s[2], s[3]>> \in Seq(T) /\ Len(<<s[1], s[2], s[3]>>) = 3
        /\ \A i \in 1..3 : <<s[1], s[2], s[3]>>[i] = s[i]
    BY <2>2
  <2> QED BY <1>3, <2>2, <2>3, SeqEqual
<1> QED BY <1>1, <1>2, <1>3

\* The first field and the others.
LEMMA FlattenHead ==
    ASSUME NEW s \in Seq(Seq(Nat)), Len(s) \in 1..3
    PROVE  /\ Head(s) \in Seq(Nat) /\ FlattenSeq(Tail(s)) \in Seq(Nat)
           /\ FlattenSeq(s) = Head(s) \o FlattenSeq(Tail(s))
<1>1. CASE Len(s) = 1
  <2> DEFINE a == s[1]
  <2>a. a \in Seq(Nat) /\ s = <<a>>
    BY <1>1, ShortSequence
  <2> HIDE DEF a
  <2>b. Head(<<a>>) = a /\ Tail(<<a>>) = <<>>
    OBVIOUS
  <2>1. a \in Seq(Nat) /\ s = <<a>> /\ Head(s) = a /\ Tail(s) = <<>>
    BY <2>a, <2>b, Zenon
  <2>2. FlattenSeq(s) = a /\ FlattenSeq(Tail(s)) = <<>>
    BY <2>1, FlattenFew, FlattenOfNone
  <2>3. a \o <<>> = a /\ <<>> \in Seq(Nat)
    BY <2>1, ConcatEmptySeq
  <2> QED BY <2>1, <2>2, <2>3
<1>2. CASE Len(s) = 2
  <2> DEFINE a == s[1]  b == s[2]
  <2>a. a \in Seq(Nat) /\ b \in Seq(Nat) /\ s = <<a, b>>
    BY <1>2, ShortSequence
  <2> HIDE DEF a, b
  <2>b. Head(<<a, b>>) = a /\ Tail(<<a, b>>) = <<b>>
    OBVIOUS
  <2>1. a \in Seq(Nat) /\ b \in Seq(Nat) /\ s = <<a, b>> /\ Head(s) = a /\ Tail(s) = <<b>>
    BY <2>a, <2>b, Zenon
  <2>2. FlattenSeq(<<a, b>>) = a \o b /\ FlattenSeq(<<b>>) = b
    BY <2>1, FlattenFew
  <2> QED BY <2>1, <2>2
<1>3. CASE Len(s) = 3
  <2> DEFINE a == s[1]  b == s[2]  c == s[3]
  <2>a. a \in Seq(Nat) /\ b \in Seq(Nat) /\ c \in Seq(Nat) /\ s = <<a, b, c>>
    BY <1>3, ShortSequence
  <2> HIDE DEF a, b, c
  <2>b. Head(<<a, b, c>>) = a /\ Tail(<<a, b, c>>) = <<b, c>>
    OBVIOUS
  <2>1. /\ a \in Seq(Nat) /\ b \in Seq(Nat) /\ c \in Seq(Nat)
        /\ s = <<a, b, c>> /\ Head(s) = a /\ Tail(s) = <<b, c>>
    BY <2>a, <2>b, Zenon
  <2>c. FlattenSeq(<<a, b, c>>) = a \o (b \o c) /\ FlattenSeq(<<b, c>>) = b \o c
    BY <2>1, FlattenFew
  <2>2. FlattenSeq(<<a, b, c>>) = a \o (b \o c) /\ FlattenSeq(<<b, c>>) = b \o c /\ b \o c \in Seq(Nat)
    BY <2>1, <2>c, ConcatProperties
  <2> QED BY <2>1, <2>2
<1> QED BY <1>1, <1>2, <1>3

\* What is left of a sequence behind its first n.
LEMMA RestOf ==
    ASSUME NEW x \in Seq(Nat), NEW k \in 0..Len(x)
    PROVE  /\ SubSeq(x, k + 1, Len(x)) \in Seq(Nat) /\ Len(SubSeq(x, k + 1, Len(x))) = Len(x) - k
           /\ \A i \in 1..(Len(x) - k) : SubSeq(x, k + 1, Len(x))[i] = x[k + i]
<1>1. Len(x) \in Nat /\ k \in Nat /\ k + 1 \in Int
  OBVIOUS
<1>2. \A i \in (k + 1)..Len(x) : x[i] \in Nat
  BY <1>1
<1> DEFINE n == Len(x)
<1> HIDE DEF n
<1>3. n \in Nat /\ k <= n
  BY DEF n
<1>4. /\ SubSeq(x, k + 1, n) \in Seq(Nat)
      /\ Len(SubSeq(x, k + 1, n)) = IF k + 1 <= n THEN n - (k + 1) + 1 ELSE 0
      /\ \A i \in 1..(n - (k + 1) + 1) : SubSeq(x, k + 1, n)[i] = x[k + 1 + i - 1]
  BY <1>1, <1>2, <1>3, SubSeqProperties DEF n
<1>5. n - (k + 1) + 1 = n - k /\ (IF k + 1 <= n THEN n - (k + 1) + 1 ELSE 0) = n - k
  BY <1>1, <1>3
<1>6. ASSUME NEW i \in 1..(n - k) PROVE SubSeq(x, k + 1, n)[i] = x[k + i]
  <2>1. k + 1 + i - 1 = k + i
    BY <1>1
  <2> QED BY <1>4, <1>5, <2>1
<1> QED BY <1>4, <1>5, <1>6 DEF n

\* Of bytes that are in two parts, the first of the first part are written.
LEMMA SomeMore ==
    ASSUME NEW all \in Seq(Nat), NEW n \in 0..Len(all), NEW x \in Seq(Nat), NEW y \in Seq(Nat),
           x \o y = SubSeq(all, n + 1, Len(all)), NEW k \in 0..Len(x)
    PROVE  /\ n + k <= Len(all) /\ Len(all) - n = Len(x) + Len(y)
           /\ SubSeq(all, 1, n) \o SubSeq(x, 1, k) = SubSeq(all, 1, n + k)
           /\ SubSeq(x, k + 1, Len(x)) \o y = SubSeq(all, n + k + 1, Len(all))
<1>1. Len(all) \in Nat /\ Len(x) \in Nat /\ Len(y) \in Nat /\ n \in Nat /\ k \in Nat
  OBVIOUS
<1>2. /\ Len(x \o y) = Len(x) + Len(y)
      /\ \A i \in 1..(Len(x) + Len(y)) : (x \o y)[i] = IF i <= Len(x) THEN x[i] ELSE y[i - Len(x)]
  BY ConcatProperties
<1>3. /\ Len(SubSeq(all, n + 1, Len(all))) = Len(all) - n
      /\ \A i \in 1..(Len(all) - n) : SubSeq(all, n + 1, Len(all))[i] = all[n + i]
  BY <1>1
<1>4. Len(all) - n = Len(x) + Len(y) /\ n + k <= Len(all)
  <2> DEFINE p == Len(x)
             q == Len(y)
             m == Len(all)
  <2>1. m - n = p + q
    BY <1>2, <1>3, Zenon
  <2>2. k <= p /\ p \in Nat /\ q \in Nat /\ m \in Nat
    BY <1>1
  <2> HIDE DEF p, q, m
  <2>3. n + k <= m
    BY <1>1, <2>1, <2>2
  <2> QED BY <2>1, <2>3 DEF p, q, m
<1>5. \A i \in 1..Len(x) : x[i] = all[n + i]
  <2> SUFFICES ASSUME NEW i \in 1..Len(x) PROVE x[i] = all[n + i]
    OBVIOUS
  <2>1. i \in 1..(Len(x) + Len(y)) /\ i \in 1..(Len(all) - n) /\ i <= Len(x)
    <3> DEFINE p == Len(x)
               q == Len(y)
    <3>1. i \in 1..p /\ p \in Nat /\ q \in Nat
      BY <1>1
    <3> HIDE DEF p, q
    <3>2. i \in 1..(p + q) /\ i <= p
      BY <3>1
    <3> QED BY <1>4, <3>2, Zenon DEF p, q
  <2>2. (x \o y)[i] = x[i]
    BY <1>2, <2>1
  <2>3. (x \o y)[i] = all[n + i]
    BY <1>3, <2>1
  <2> QED BY <2>2, <2>3
<1>6. \A i \in 1..Len(y) : y[i] = all[n + Len(x) + i]
  <2> SUFFICES ASSUME NEW i \in 1..Len(y) PROVE y[i] = all[n + Len(x) + i]
    OBVIOUS
  <2>1. Len(x) + i \in 1..(Len(x) + Len(y)) /\ ~(Len(x) + i <= Len(x)) /\ Len(x) + i - Len(x) = i
    BY <1>1
  <2>2. (x \o y)[Len(x) + i] = y[i]
    <3> DEFINE j == Len(x) + i
    <3>1. j \in 1..(Len(x) + Len(y)) /\ ~(j <= Len(x)) /\ j - Len(x) = i
      BY <2>1
    <3> HIDE DEF j
    <3>2. (x \o y)[j] = y[i]
      BY <1>2, <3>1, Zenon
    <3> QED BY <3>2 DEF j
  <2>3. (x \o y)[Len(x) + i] = all[n + (Len(x) + i)] /\ n + (Len(x) + i) = n + Len(x) + i
    <3> DEFINE j == Len(x) + i
    <3>1. j \in 1..(Len(all) - n)
      BY <1>4, <2>1
    <3> HIDE DEF j
    <3>2. (x \o y)[j] = all[n + j]
      BY <1>3, <3>1
    <3>3. n + (Len(x) + i) = n + Len(x) + i
      BY <1>1
    <3> QED BY <3>2, <3>3 DEF j
  <2> QED BY <2>2, <2>3
<1>7. SubSeq(all, 1, n) \o SubSeq(x, 1, k) = SubSeq(all, 1, n + k)
  <2> DEFINE p == SubSeq(all, 1, n)
             q == SubSeq(x, 1, k)
             r == SubSeq(all, 1, n + k)
  <2>1. p \in Seq(Nat) /\ Len(p) = n /\ \A i \in 1..n : p[i] = all[i]
    BY <1>1
  <2>2. q \in Seq(Nat) /\ Len(q) = k /\ \A i \in 1..k : q[i] = x[i]
    BY <1>1
  <2>3. r \in Seq(Nat) /\ Len(r) = n + k /\ \A i \in 1..(n + k) : r[i] = all[i]
    BY <1>1, <1>4
  <2> HIDE DEF p, q, r
  <2>4. /\ p \o q \in Seq(Nat) /\ Len(p \o q) = n + k
        /\ \A i \in 1..(n + k) : (p \o q)[i] = IF i <= n THEN p[i] ELSE q[i - n]
    BY <2>1, <2>2, ConcatProperties
  <2>5. ASSUME NEW i \in 1..(n + k) PROVE (p \o q)[i] = r[i]
    <3>1. CASE i <= n
      <4>1. i \in 1..n
        BY <1>1, <3>1
      <4>2. p[i] = all[i] /\ r[i] = all[i] /\ (p \o q)[i] = p[i]
        <5>1. p[i] = all[i]
          BY <2>1, <4>1
        <5>2. r[i] = all[i]
          BY <2>3
        <5>3. (p \o q)[i] = p[i]
          BY <2>4, <3>1, Zenon
        <5> QED BY <5>1, <5>2, <5>3
      <4> QED BY <4>2
    <3>2. CASE ~(i <= n)
      <4>1. i - n \in 1..k /\ i - n \in 1..Len(x) /\ n + (i - n) = i
        BY <1>1, <3>2
      <4>2. q[i - n] = all[i]
        BY <1>5, <2>2, <4>1
      <4> QED BY <2>3, <2>4, <3>2, <4>2
    <3> QED BY <3>1, <3>2
  <2>6. p \o q = r
    BY <2>3, <2>4, <2>5, SeqEqual
  <2> QED BY <2>6 DEF p, q, r
<1>8. SubSeq(x, k + 1, Len(x)) \o y = SubSeq(all, n + k + 1, Len(all))
  <2> DEFINE m == Len(x) - k
             l == Len(all) - (n + k)
             q == SubSeq(x, k + 1, Len(x))
             r == SubSeq(all, n + k + 1, Len(all))
  <2>0. m \in Nat /\ l \in Nat /\ l = m + Len(y)
    BY <1>1, <1>4
  <2>2. q \in Seq(Nat) /\ Len(q) = m /\ \A i \in 1..m : q[i] = x[k + i]
    BY <1>1, RestOf
  <2>3. r \in Seq(Nat) /\ Len(r) = l /\ \A i \in 1..l : r[i] = all[n + k + i]
    <3>1. n + k \in 0..Len(all)
      BY <1>1, <1>4
    <3> QED BY <3>1, RestOf
  <2>4. /\ q \o y \in Seq(Nat) /\ Len(q \o y) = m + Len(y)
        /\ \A i \in 1..(m + Len(y)) : (q \o y)[i] = IF i <= m THEN q[i] ELSE y[i - m]
    <3> HIDE DEF q, m
    <3> QED BY <2>2, ConcatProperties
  <2> HIDE DEF q, r, l
  <2>5. ASSUME NEW i \in 1..l PROVE (q \o y)[i] = r[i]
    <3>1. CASE i <= m
      <4>1. i \in 1..m /\ k + i \in 1..Len(x) /\ n + (k + i) = n + k + i
        BY <1>1, <2>0, <3>1
      <4>2. q[i] = x[k + i] /\ r[i] = all[n + k + i] /\ x[k + i] = all[n + (k + i)]
        BY <1>5, <2>2, <2>3, <4>1
      <4>3. (q \o y)[i] = q[i]
        BY <2>0, <2>4, <3>1
      <4> QED BY <4>1, <4>2, <4>3
    <3>2. CASE ~(i <= m)
      <4>1. i - m \in 1..Len(y) /\ n + Len(x) + (i - m) = n + k + i
        BY <1>1, <2>0, <3>2
      <4>2. y[i - m] = all[n + k + i]
        BY <1>6, <4>1
      <4> HIDE DEF m
      <4> QED BY <2>0, <2>3, <2>4, <3>2, <4>2
    <3> QED BY <3>1, <3>2
  <2>6. q \o y = r
    <3> HIDE DEF m
    <3> QED BY <2>0, <2>3, <2>4, <2>5, SeqEqual
  <2> QED BY <2>6 DEF q, r
<1> QED BY <1>4, <1>7, <1>8

\* Bytes one after the other are bytes.
LEMMA FlattenIsSeq ==
    ASSUME NEW T, NEW s \in Seq(Seq(T))
    PROVE  FlattenSeq(s) \in Seq(T)
<1>1. CASE Len(s) = 0
  <2>1. s = <<>>
    BY <1>1
  <2> QED BY <2>1, FlattenOfNone, EmptySeq
<1>2. CASE Len(s) # 0
  <2>1. Len(s) \in Nat /\ Len(s) \in 1..Len(s) /\ \A i \in 1..Len(s) : s[i] \in Seq(T)
    BY <1>2
  <2>2. PICK g : Joins(g, s) /\ FlattenSeq(s) = g[Len(s)]
    <3>1. \E g : Joins(g, s)
      BY <2>1, JoinsExist
    <3>2. Joins(CHOOSE g : Joins(g, s), s)
      BY <3>1, Zenon
    <3> QED BY <1>2, <3>2, FlattenUnfolds
  <2> DEFINE n == Len(s)
             B == {i \in 1..n : g[i] \notin Seq(T)}
  <2> HIDE DEF n
  <2>0. n \in Nat /\ n \in 1..n
    BY <2>1 DEF n
  <2>3. B = {}
    <3> SUFFICES ASSUME B # {} PROVE FALSE
      OBVIOUS
    <3>1. PICK m \in B : \A k \in B : m <= k
      <4>1. B \in SUBSET Nat
        BY <2>0
      <4> HIDE DEF B
      <4> QED BY <4>1, LeastNumber
    <3>2. g[m] = JoinBody(g, s, m) /\ s[m] \in Seq(T)
      <4>1. m \in 1..Len(s)
        BY DEF n
      <4> HIDE DEF B
      <4> QED BY <2>1, <2>2, <4>1, JoinsAt
    <3>3. m # 1 => g[m - 1] \in Seq(T)
      BY <2>0, <3>1
    <3>4. g[m] \in Seq(T)
      <4>1. CASE m = 1
        BY <3>2, <4>1 DEF JoinBody
      <4>2. CASE m # 1
        <5>1. g[m] = g[m - 1] \o s[m]
          BY <3>2, <4>2 DEF JoinBody
        <5> QED BY <3>2, <3>3, <4>2, <5>1, ConcatProperties
      <4> QED BY <4>1, <4>2
    <3> QED BY <3>4
  <2> QED BY <2>0, <2>2, <2>3 DEF n
<1> QED BY <1>1, <1>2

-----------------------------------------------------------------------------
(* Records *)

\* A record is a token and one or two bytes more.
LEMMA RecordFacts ==
    ASSUME NEW r \in Records
    PROVE  \E t \in {ALLOCATION, CONTEXT_SWITCH, THREAD_RECORD}, x \in Seq(Nat) :
              /\ r = <<<<t>>, x>> /\ Bytes(r) = <<t>> \o x
              /\ t = ALLOCATION => Len(x) = 1 /\ x[1] \in 0..1
              /\ t = CONTEXT_SWITCH => Len(x) = 2 /\ x[1] \in 0..1 /\ x[2] \in 0..1
              /\ t = THREAD_RECORD => x = <<1, 0>>
<1>1. CASE r \in Allocations
  <2>1. PICK v \in Values : r = <<<<ALLOCATION>>, <<v>>>>
    BY <1>1, Zenon DEF Allocations
  <2>2. v \in 0..1
    BY SizeAssumption
  <2>3. <<v>> \in Seq(Nat) /\ Len(<<v>>) = 1 /\ <<v>>[1] = v /\ <<ALLOCATION>> \in Seq(Nat)
    BY <2>2 DEF ALLOCATION
  <2>4. Bytes(<<<<ALLOCATION>>, <<v>>>>) = <<ALLOCATION>> \o <<v>>
    BY <2>3, FlattenFew DEF Bytes
  <2>5. ALLOCATION # CONTEXT_SWITCH /\ ALLOCATION # THREAD_RECORD
    BY DEF ALLOCATION, CONTEXT_SWITCH, THREAD_RECORD
  <2> QED BY <2>1, <2>2, <2>3, <2>4, <2>5, Zenon
<1>2. CASE r \in ContextSwitches
  <2>1. PICK v \in Values, w \in Values : r = <<<<CONTEXT_SWITCH>>, <<v, w>>>>
    BY <1>2 DEF ContextSwitches
  <2>2. v \in 0..1 /\ w \in 0..1
    BY SizeAssumption
  <2>3. /\ <<v, w>> \in Seq(Nat) /\ Len(<<v, w>>) = 2 /\ <<v, w>>[1] = v /\ <<v, w>>[2] = w
        /\ <<CONTEXT_SWITCH>> \in Seq(Nat)
    BY <2>2 DEF CONTEXT_SWITCH
  <2>4. Bytes(<<<<CONTEXT_SWITCH>>, <<v, w>>>>) = <<CONTEXT_SWITCH>> \o <<v, w>>
    BY <2>3, FlattenFew DEF Bytes
  <2>5. CONTEXT_SWITCH # ALLOCATION /\ CONTEXT_SWITCH # THREAD_RECORD
    BY DEF ALLOCATION, CONTEXT_SWITCH, THREAD_RECORD
  <2> QED BY <2>1, <2>2, <2>3, <2>4, <2>5, Zenon
<1>3. CASE r \in ThreadRecords
  <2>1. r = <<<<THREAD_RECORD>>, <<1, 0>>>>
    BY <1>3, Zenon DEF ThreadRecords
  <2>3. <<1, 0>> \in Seq(Nat) /\ <<THREAD_RECORD>> \in Seq(Nat)
    BY DEF THREAD_RECORD
  <2>4. Bytes(<<<<THREAD_RECORD>>, <<1, 0>>>>) = <<THREAD_RECORD>> \o <<1, 0>>
    BY <2>3, FlattenFew DEF Bytes
  <2>5. THREAD_RECORD # ALLOCATION /\ THREAD_RECORD # CONTEXT_SWITCH
    BY DEF ALLOCATION, CONTEXT_SWITCH, THREAD_RECORD
  <2> QED BY <2>1, <2>3, <2>4, <2>5, Zenon
<1> QED BY <1>1, <1>2, <1>3 DEF Records

\* What the writer does with a record.
LEMMA RecordFields ==
    ASSUME NEW r \in Records
    PROVE  /\ r \in Seq(Seq(Nat)) /\ Len(r) = 2 /\ \A i \in 1..2 : r[i] # <<>>
           /\ Bytes(r) \in Seq(Nat) /\ Len(Bytes(r)) \in 2..3
<1>1. PICK t \in {ALLOCATION, CONTEXT_SWITCH, THREAD_RECORD}, x \in Seq(Nat) :
              /\ r = <<<<t>>, x>> /\ Bytes(r) = <<t>> \o x
              /\ t = ALLOCATION => Len(x) = 1
              /\ t = CONTEXT_SWITCH => Len(x) = 2
              /\ t = THREAD_RECORD => x = <<1, 0>>
  BY RecordFacts
<1>2. Len(x) \in 1..2
  <2>1. Len(<<1, 0>>) = 2
    OBVIOUS
  <2>2. Len(x) = 1 \/ Len(x) = 2
    BY <1>1, <2>1, Zenon
  <2> QED BY <2>2
<1>3. t \in Nat /\ <<t>> \in Seq(Nat) /\ Len(<<t>>) = 1
  BY DEF ALLOCATION, CONTEXT_SWITCH, THREAD_RECORD
<1>4. x # <<>> /\ <<t>> # <<>>
  BY <1>2
<1> DEFINE f == <<t>>
<1>5. f \in Seq(Nat) /\ Len(f) = 1 /\ f # <<>>
  BY <1>3, <1>4
<1> HIDE DEF f
<1>6. <<f, x>> \in Seq(Seq(Nat)) /\ Len(<<f, x>>) = 2 /\ \A i \in 1..2 : <<f, x>>[i] # <<>>
  BY <1>4, <1>5
<1>7. f \o x \in Seq(Nat) /\ Len(f \o x) = 1 + Len(x)
  <2>1. f \o x \in Seq(Nat) /\ Len(f \o x) = Len(f) + Len(x)
    BY <1>5, ConcatProperties, Zenon
  <2> QED BY <1>5, <2>1, Zenon
<1>8. Len(f \o x) \in 2..3
  <2> DEFINE n == Len(x)
             m == Len(f \o x)
  <2>1. n \in 1..2 /\ m = 1 + n
    BY <1>2, <1>7
  <2> HIDE DEF n, m
  <2>2. m \in 2..3
    BY <2>1
  <2> QED BY <2>2 DEF m
<1>9. r = <<f, x>> /\ Bytes(r) = f \o x
  BY <1>1 DEF f
<1> QED BY <1>6, <1>7, <1>8, <1>9, Zenon

\* The stream of records is bytes, and one record more is its bytes more.
LEMMA StreamFacts ==
    ASSUME NEW w \in Seq(Records)
    PROVE  /\ Stream(w) \in Seq(Nat)
           /\ \A r \in Records : Stream(Append(w, r)) = Stream(w) \o Bytes(r)
<1> DEFINE s == [i \in DOMAIN w |-> Bytes(w[i])]
<1>1. \A r \in Records : Bytes(r) \in Seq(Nat)
  BY RecordFields
<1>2. s \in Seq(Seq(Nat))
  <2>1. Len(w) \in Nat /\ DOMAIN w = 1..Len(w) /\ \A i \in 1..Len(w) : w[i] \in Records
    BY ElementOfSeq
  <2>2. s \in [1..Len(w) -> Seq(Nat)]
    BY <1>1, <2>1
  <2> HIDE DEF s
  <2> QED BY <2>1, <2>2
<1>3. Stream(w) \in Seq(Nat)
  BY <1>2, FlattenIsSeq DEF Stream
<1>4. ASSUME NEW r \in Records PROVE Stream(Append(w, r)) = Stream(w) \o Bytes(r)
  <2> DEFINE v == Append(w, r)
             u == [i \in DOMAIN v |-> Bytes(v[i])]
             n == Len(w)
  <2>1. /\ n \in Nat /\ v \in Seq(Records) /\ Len(v) = n + 1 /\ v[n + 1] = r
        /\ DOMAIN v = 1..(n + 1) /\ DOMAIN w = 1..n
        /\ \A i \in 1..n : v[i] = w[i]
    BY AppendProperties
  <2>2. \A i \in 1..(n + 1) : v[i] \in Records
    BY <2>1, ElementOfSeq
  <2>3. Bytes(r) \in Seq(Nat)
    BY <1>1
  <2> HIDE DEF v
  <2>4. u \in Seq(Seq(Nat)) /\ Len(u) = n + 1
    <3>1. u \in [1..(n + 1) -> Seq(Nat)]
      BY <1>1, <2>1, <2>2
    <3> HIDE DEF u, n
    <3> QED BY <2>1, <3>1
  <2>5. \A i \in 1..n : u[i] = s[i]
    BY <2>1
  <2>6. u[n + 1] = Bytes(r) /\ Len(s) = n
    <3>1. Len(s) = n
      BY <2>1
    <3>2. n + 1 \in DOMAIN v
      BY <2>1
    <3> QED BY <2>1, <3>1, <3>2
  <2> HIDE DEF u, s, n
  <2>7. Append(s, Bytes(r)) = u
    <3>1. /\ Append(s, Bytes(r)) \in Seq(Seq(Nat)) /\ Len(Append(s, Bytes(r))) = n + 1
          /\ \A i \in 1..n : Append(s, Bytes(r))[i] = s[i]
          /\ Append(s, Bytes(r))[n + 1] = Bytes(r)
      BY <1>2, <2>3, <2>6, AppendProperties
    <3>2. \A i \in 1..(n + 1) : Append(s, Bytes(r))[i] = u[i]
      <4> SUFFICES ASSUME NEW i \in 1..(n + 1) PROVE Append(s, Bytes(r))[i] = u[i]
        OBVIOUS
      <4>1. i \in 1..n \/ i = n + 1
        BY <2>1
      <4> QED BY <2>5, <2>6, <3>1, <4>1
    <3> QED BY <2>4, <3>1, <3>2, SeqEqual
  <2>8. FlattenSeq(u) = FlattenSeq(s) \o Bytes(r)
    BY <1>2, <2>3, <2>7, FlattenOfAppend
  <2> QED BY <2>8 DEF Stream, u, s, v
<1> QED BY <1>3, <1>4

\* No records are no bytes.
LEMMA StreamOfNone == Stream(<<>>) = <<>>
<1>1. [i \in DOMAIN <<>> |-> Bytes(<<>>[i])] = <<>>
  OBVIOUS
<1> QED BY <1>1, FlattenOfNone DEF Stream

\* The file grows, by pages.
LEMMA GrownFacts ==
    ASSUME Placed, Queued, Writing, NeedsToGrow
    PROVE  NewSize \in Nat /\ Paged(NewSize) /\ NewSize - Len(file) \in Nat
<1> DEFINE l == Len(file)
           beyond == BytesBeyondBufferNeedle
           k == Len(Head(todo))
           a == l + k - beyond
           b == (a * 11) \div 10
           q == b \div PageSize + 1
<1>1. l \in Nat /\ k \in Nat /\ beyond \in Int /\ beyond < k
  <2>1. l \in Nat /\ d_bufferOffset \in Int /\ needle \in Int
    BY DEF Placed
  <2>2. k \in Nat
    BY FieldFacts
  <2>3. beyond < k
    BY DEF NeedsToGrow
  <2>4. beyond \in Int
    BY <2>1 DEF BytesBeyondBufferNeedle
  <2> QED BY <2>1, <2>2, <2>3, <2>4
<1>2. PageSize \in Nat \ {0}
  BY SizeAssumption
<1>3. NewSize = q * PageSize
  BY DEF NewSize
<1> HIDE DEF l, beyond, k
<1>4. a \in Nat /\ a > l
  BY <1>1
<1> HIDE DEF a
<1>5. b \in Nat /\ b >= a
  BY <1>4
<1> HIDE DEF b
<1>6. b \div PageSize \in Int /\ q \in Int
  BY <1>2, <1>5
<1>7. q * PageSize > b /\ q * PageSize \in Int
  BY <1>2, <1>5, <1>6
<1> HIDE DEF q
<1>8. q * PageSize \in Nat /\ q * PageSize - l \in Nat
  BY <1>1, <1>4, <1>5, <1>7
<1>9. Paged(q * PageSize)
  BY <1>6 DEF Paged
<1> QED BY <1>3, <1>8, <1>9 DEF l

\* Some of the bytes, behind others.
LEMMA PartFacts ==
    ASSUME NEW base \in Seq(Nat), NEW all \in Seq(Nat), NEW n \in 0..Len(all)
    PROVE  /\ SubSeq(all, 1, n) \in Seq(Nat) /\ Len(SubSeq(all, 1, n)) = n
           /\ base \o SubSeq(all, 1, n) \in Seq(Nat)
           /\ Len(base \o SubSeq(all, 1, n)) = Len(base) + n
<1>1. SubSeq(all, 1, n) \in Seq(Nat) /\ Len(SubSeq(all, 1, n)) = n
  OBVIOUS
<1> QED BY <1>1, ConcatProperties

\* A field of which some is written has the rest left, before the other fields.
LEMMA FieldsLeft ==
    ASSUME Queued, Writing, NEW k \in 0..Len(Head(todo))
    PROVE  LET x == Head(todo)
               rest == SubSeq(x, k + 1, Len(x))
               more == <<rest>> \o Tail(todo)
           IN  /\ Bytes(Tail(todo)) \in Seq(Nat) /\ AreFields(Tail(todo))
               /\ Bytes(todo) = x \o Bytes(Tail(todo))
               /\ Tail(todo) # <<>> => Len(Bytes(Tail(todo))) > 0
               /\ Tail(todo) = <<>> => Bytes(Tail(todo)) = <<>>
               /\ k < Len(x) => AreFields(more) /\ Bytes(more) = rest \o Bytes(Tail(todo))
<1> DEFINE x == Head(todo)
           rest == SubSeq(x, k + 1, Len(x))
           t == Tail(todo)
           more == <<rest>> \o t
<1>1. /\ x \in Seq(Nat) /\ Len(x) \in Nat \ {0} /\ t \in Seq(Seq(Nat)) /\ Len(t) <= 2
      /\ \A i \in 1..Len(t) : t[i] # <<>>
  BY FieldFacts
<1>2. todo \in Seq(Seq(Nat)) /\ Len(todo) <= 3 /\ todo # <<>>
  BY DEF Queued, AreFields, Writing
<1>3. Len(todo) \in 1..3
  <2> DEFINE n == Len(todo)
  <2>1. n <= 3 /\ n \in Nat \ {0}
    BY <1>2, EmptySeq
  <2> HIDE DEF n
  <2>2. n \in 1..3
    BY <2>1
  <2> QED BY <2>2 DEF n
<1>4. Bytes(t) \in Seq(Nat) /\ Bytes(todo) = x \o Bytes(t)
  BY <1>2, <1>3, FlattenHead DEF Bytes
<1>5. AreFields(t)
  <2> HIDE DEF t
  <2> QED BY <1>1 DEF AreFields
<1>6. ASSUME t # <<>> PROVE Len(Bytes(t)) > 0
  <2> HIDE DEF t, x
  <2>1. Len(t) \in Nat \ {0}
    BY <1>1, <1>6, EmptySeq
  <2>2. Len(t) \in 1..3
    <3> DEFINE n == Len(t)
    <3>1. n <= 2 /\ n \in Nat \ {0}
      BY <1>1, <2>1
    <3> HIDE DEF n
    <3>2. n \in 1..3
      BY <3>1
    <3> QED BY <3>2 DEF n
  <2>3. /\ Head(t) \in Seq(Nat) /\ FlattenSeq(Tail(t)) \in Seq(Nat)
        /\ FlattenSeq(t) = Head(t) \o FlattenSeq(Tail(t))
    BY <1>1, <2>2, FlattenHead
  <2>4. Head(t) = t[1] /\ 1 \in 1..Len(t)
    BY <1>1, <2>1
  <2>5. Len(Head(t)) \in Nat \ {0}
    BY <1>1, <2>3, <2>4, EmptySeq
  <2>6. Len(FlattenSeq(t)) = Len(Head(t)) + Len(FlattenSeq(Tail(t)))
    BY <2>3, ConcatProperties
  <2>7. Len(FlattenSeq(Tail(t))) \in Nat
    BY <2>3, LenProperties
  <2>8. Len(FlattenSeq(t)) > 0
    BY <2>5, <2>6, <2>7
  <2> QED BY <2>8 DEF Bytes
<1>7. t = <<>> => Bytes(t) = <<>>
  BY FlattenOfNone DEF Bytes
<1>8. ASSUME k < Len(x) PROVE AreFields(more) /\ Bytes(more) = rest \o Bytes(t)
  <2>1. rest \in Seq(Nat) /\ Len(rest) = Len(x) - k
    BY <1>1, RestOf
  <2>2. Len(rest) > 0
    <3> HIDE DEF x, rest
    <3> QED BY <1>1, <1>8, <2>1
  <2> HIDE DEF rest, x, t
  <2>3. rest # <<>>
    BY <2>2
  <2>4. <<rest>> \in Seq(Seq(Nat)) /\ Len(<<rest>>) = 1 /\ <<rest>>[1] = rest
    BY <2>1
  <2>5. /\ more \in Seq(Seq(Nat)) /\ Len(more) = 1 + Len(t)
        /\ \A i \in 1..(1 + Len(t)) : more[i] = IF i <= 1 THEN rest ELSE t[i - 1]
    <3> DEFINE h == <<rest>>
    <3>1. h \in Seq(Seq(Nat)) /\ Len(h) = 1 /\ h[1] = rest
      BY <2>4
    <3> HIDE DEF h
    <3>2. /\ h \o t \in Seq(Seq(Nat)) /\ Len(h \o t) = 1 + Len(t)
          /\ \A i \in 1..(1 + Len(t)) : (h \o t)[i] = IF i <= 1 THEN h[i] ELSE t[i - 1]
      <4>1. /\ h \o t \in Seq(Seq(Nat)) /\ Len(h \o t) = Len(h) + Len(t)
            /\ \A i \in 1..(Len(h) + Len(t)) : (h \o t)[i] = IF i <= Len(h) THEN h[i] ELSE t[i - Len(h)]
        BY <1>1, <3>1, ConcatProperties, Zenon
      <4> QED BY <3>1, <4>1, Zenon
    <3>3. \A i \in 1..(1 + Len(t)) : (h \o t)[i] = IF i <= 1 THEN rest ELSE t[i - 1]
      <4> SUFFICES ASSUME NEW i \in 1..(1 + Len(t)) PROVE (h \o t)[i] = IF i <= 1 THEN rest ELSE t[i - 1]
        OBVIOUS
      <4>1. i <= 1 => i = 1
        OBVIOUS
      <4> QED BY <3>1, <3>2, <4>1
    <3> QED BY <3>2, <3>3 DEF h
  <2> HIDE DEF more
  <2>6. Len(t) \in 0..2 /\ Len(more) \in 1..3
    <3> DEFINE n == Len(t)
               m == Len(more)
    <3>1. n <= 2 /\ n \in Nat /\ m = 1 + n
      BY <1>1, <2>5, LenProperties
    <3> HIDE DEF n, m
    <3>2. n \in 0..2 /\ m \in 1..3
      BY <3>1
    <3> QED BY <3>2 DEF n, m
  <2>7. \A i \in 1..Len(more) : more[i] # <<>>
    <3> SUFFICES ASSUME NEW i \in 1..Len(more) PROVE more[i] # <<>>
      OBVIOUS
    <3>1. i \in 1..(1 + Len(t))
      BY <2>5
    <3>2. ~(i <= 1) => i - 1 \in 1..Len(t)
      BY <2>6, <3>1
    <3>3. ~(i <= 1) => t[i - 1] # <<>>
      BY <1>1, <3>2
    <3> QED BY <2>3, <2>5, <3>1, <3>3
  <2>8. Head(more) = rest /\ Tail(more) = t
    <3> DEFINE h == <<rest>>
    <3>1. Head(more) = more[1] /\ more # <<>> /\ 1 \in 1..(1 + Len(t))
      BY <2>5, <2>6
    <3>2. Head(more) = rest
      BY <2>5, <3>1
    <3>3. /\ Tail(more) \in Seq(Seq(Nat)) /\ Len(Tail(more)) = Len(more) - 1
          /\ \A i \in 1..Len(Tail(more)) : Tail(more)[i] = more[i + 1]
      BY <2>5, <3>1, HeadTailProperties
    <3>4. Len(Tail(more)) = Len(t)
      BY <2>5, <2>6, <3>3
    <3>5. \A i \in 1..Len(Tail(more)) : Tail(more)[i] = t[i]
      <4> SUFFICES ASSUME NEW i \in 1..Len(t) PROVE more[i + 1] = t[i]
        BY <3>3, <3>4
      <4>1. i + 1 \in 1..(1 + Len(t)) /\ ~(i + 1 <= 1) /\ i + 1 - 1 = i
        BY <2>6
      <4> QED BY <2>5, <4>1
    <3>6. Tail(more) = t
      BY <1>1, <3>3, <3>4, <3>5, SeqEqual
    <3> QED BY <3>2, <3>6
  <2>9. FlattenSeq(more) = Head(more) \o FlattenSeq(Tail(more))
    BY <2>5, <2>6, FlattenHead
  <2>10. Len(more) <= 3
    <3> DEFINE m == Len(more)
    <3>1. m \in 1..3
      BY <2>6
    <3> HIDE DEF m
    <3>2. m <= 3
      BY <3>1
    <3> QED BY <3>2 DEF m
  <2> QED BY <2>5, <2>7, <2>8, <2>9, <2>10 DEF AreFields, Bytes
<1>9. k < Len(x) => AreFields(more) /\ Bytes(more) = rest \o Bytes(t)
  BY <1>8
<1>10. t # <<>> => Len(Bytes(t)) > 0
  BY <1>6
<1> HIDE DEF x, rest, t, more
<1> QED BY <1>4, <1>5, <1>7, <1>9, <1>10, Zenon DEF x, rest, t, more

\* Three sequences of bytes, one after the other.
LEMMA Associates ==
    ASSUME NEW a \in Seq(Nat), NEW b \in Seq(Nat), NEW c \in Seq(Nat)
    PROVE  (a \o b) \o c = a \o (b \o c)
BY ConcatAssociative

\* Of the bytes that a method has to write, some more are written.
LEMMA FieldsMove ==
    ASSUME Queued, Writing, NEW all \in Seq(Nat), NEW n \in 0..(Len(all) - 1),
           Bytes(todo) = SubSeq(all, n + 1, Len(all)), NEW k \in 1..Len(Head(todo))
    PROVE  LET x == Head(todo)
               more == <<SubSeq(x, k + 1, Len(x))>> \o Tail(todo)
           IN  /\ n + k <= Len(all)
               /\ SubSeq(all, 1, n) \o SubSeq(x, 1, k) = SubSeq(all, 1, n + k)
               /\ \A i \in 1..k : x[i] = all[n + i]
               /\ k < Len(x) =>
                     /\ n + k < Len(all) /\ AreFields(more)
                     /\ Bytes(more) = SubSeq(all, n + k + 1, Len(all))
               /\ k = Len(x) /\ Tail(todo) # <<>> =>
                     /\ n + k < Len(all) /\ AreFields(Tail(todo))
                     /\ Bytes(Tail(todo)) = SubSeq(all, n + k + 1, Len(all))
               /\ k = Len(x) /\ Tail(todo) = <<>> => n + k = Len(all)
<1> DEFINE x == Head(todo)
           t == Tail(todo)
           rest == SubSeq(x, k + 1, Len(x))
           more == <<rest>> \o t
           y == Bytes(t)
           m == Len(all)
<1>2. /\ x \in Seq(Nat) /\ Len(x) \in Nat \ {0} /\ k \in 0..Len(x) /\ k \in Nat /\ k # 0
      /\ k <= Len(x)
  BY FieldFacts
<1>3. /\ y \in Seq(Nat) /\ Bytes(todo) = x \o y /\ AreFields(t)
      /\ t # <<>> => Len(y) > 0
      /\ t = <<>> => y = <<>>
      /\ k < Len(x) => AreFields(more) /\ Bytes(more) = rest \o y
  BY <1>2, FieldsLeft
<1>4. n \in 0..m /\ m \in Nat
  OBVIOUS
<1>5. /\ n + k <= m /\ m - n = Len(x) + Len(y)
      /\ SubSeq(all, 1, n) \o SubSeq(x, 1, k) = SubSeq(all, 1, n + k)
      /\ rest \o y = SubSeq(all, n + k + 1, m)
  <2>1. x \o y = SubSeq(all, n + 1, m)
    BY <1>3
  <2> HIDE DEF y, x
  <2>2. x \in Seq(Nat) /\ y \in Seq(Nat) /\ k \in 0..Len(x) /\ n \in 0..Len(all)
    BY <1>2, <1>3, <1>4
  <2>3. /\ n + k <= Len(all) /\ Len(all) - n = Len(x) + Len(y)
        /\ SubSeq(all, 1, n) \o SubSeq(x, 1, k) = SubSeq(all, 1, n + k)
        /\ SubSeq(x, k + 1, Len(x)) \o y = SubSeq(all, n + k + 1, Len(all))
    BY <2>1, <2>2, SomeMore, Zenon
  <2> QED BY <2>3 DEF rest
<1>6. \A i \in 1..k : x[i] = all[n + i]
  <2> HIDE DEF x
  <2> DEFINE p == SubSeq(all, 1, n)
             q == SubSeq(x, 1, k)
             r == SubSeq(all, 1, n + k)
  <2>1. p \in Seq(Nat) /\ Len(p) = n /\ n \in Nat
    BY <1>4, PartFacts
  <2>2. q \in Seq(Nat) /\ Len(q) = k /\ \A i \in 1..k : q[i] = x[i]
    BY <1>2
  <2>3. \A i \in 1..(n + k) : r[i] = all[i]
    BY <1>4, <1>5
  <2>4. p \o q = r
    BY <1>5
  <2> HIDE DEF p, q, r
  <2>5. \A i \in 1..(n + k) : (p \o q)[i] = IF i <= n THEN p[i] ELSE q[i - n]
    BY <2>1, <2>2, ConcatProperties
  <2> SUFFICES ASSUME NEW i \in 1..k PROVE x[i] = all[n + i]
    OBVIOUS
  <2>6. n + i \in 1..(n + k) /\ ~(n + i <= n) /\ n + i - n = i
    BY <2>1
  <2>7. (p \o q)[n + i] = q[i]
    <3> DEFINE j == n + i
    <3>1. j \in 1..(n + k) /\ ~(j <= n) /\ j - n = i
      BY <2>6
    <3> HIDE DEF j
    <3>2. (p \o q)[j] = q[i]
      BY <2>5, <3>1, Zenon
    <3> QED BY <3>2 DEF j
  <2> QED BY <2>2, <2>3, <2>4, <2>6, <2>7
<1>10. Len(y) \in Nat
  BY <1>3, LenProperties
<1> DEFINE lx == Len(x)
           ly == Len(y)
<1>12. lx \in Nat /\ ly \in Nat /\ m - n = lx + ly /\ k <= lx /\ n \in Nat
  BY <1>2, <1>4, <1>5, <1>10
<1>14. k = Len(x) => Bytes(t) = SubSeq(all, n + k + 1, m)
  <2> SUFFICES ASSUME k = Len(x) PROVE y = SubSeq(all, n + k + 1, m)
    OBVIOUS
  <2>1. rest = <<>>
    <3>1. rest \in Seq(Nat) /\ Len(rest) = Len(x) - k
      BY <1>2, RestOf
    <3> HIDE DEF rest, x
    <3>2. Len(rest) = 0
      BY <1>2, <3>1
    <3>3. rest = <<>>
      BY <3>1, <3>2
    <3> QED BY <3>3
  <2> HIDE DEF rest, y
  <2>2. <<>> \o y = y
    BY <1>3, ConcatEmptySeq
  <2> QED BY <1>5, <2>1, <2>2
<1> HIDE DEF lx, ly, m, y, rest, more, x, t
<1>15. ASSUME k < Len(x)
       PROVE  n + k < m /\ AreFields(more) /\ Bytes(more) = SubSeq(all, n + k + 1, m)
  <2>1. n + k < m
    BY <1>2, <1>4, <1>12, <1>15 DEF lx
  <2> QED BY <1>3, <1>5, <1>15, <2>1
<1>16. ASSUME k = Len(x), t # <<>>
       PROVE  n + k < m /\ AreFields(t) /\ Bytes(t) = SubSeq(all, n + k + 1, m)
  <2>1. ly > 0
    BY <1>3, <1>16 DEF ly
  <2>2. n + k < m
    BY <1>2, <1>4, <1>12, <1>16, <2>1 DEF lx
  <2> QED BY <1>3, <1>14, <1>16, <2>2
<1>17. ASSUME k = Len(x), t = <<>> PROVE n + k = m
  <2>1. ly = 0
    BY <1>3, <1>17, EmptySeq DEF ly
  <2> QED BY <1>2, <1>4, <1>12, <1>17, <2>1 DEF lx
<1> QED BY <1>5, <1>6, <1>15, <1>16, <1>17, Zenon DEF more, rest, x, t, m

\* memcpy takes the bytes that a method has to write forward.
LEMMA MoreDone ==
    ASSUME Placed, Queued, Writing, NEW base \in Seq(Nat), NEW all \in Seq(Nat), Doing(base, all),
           NEW k \in 1..Len(Head(todo)), Position + k <= Len(file)
    PROVE  LET x == Head(todo)
               more == <<SubSeq(x, k + 1, Len(x))>> \o Tail(todo)
           IN  /\ k < Len(x) => Does(Copied(k), Position + k, more, base, all)
               /\ k = Len(x) /\ Tail(todo) # <<>> =>
                     Does(Copied(k), Position + k, Tail(todo), base, all)
               /\ k = Len(x) /\ Tail(todo) = <<>> => Ends(Copied(k), Position + k, base \o all)
<1> DEFINE x == Head(todo)
           t == Tail(todo)
           more == <<SubSeq(x, k + 1, Len(x))>> \o t
           m == Len(all)
<1>1. PICK n \in 0..(m - 1) :
        /\ Bytes(todo) = SubSeq(all, n + 1, m)
        /\ Ends(file, Position, base \o SubSeq(all, 1, n))
  BY DEF Doing, Does
<1>2. /\ n + k <= m
      /\ SubSeq(all, 1, n) \o SubSeq(x, 1, k) = SubSeq(all, 1, n + k)
      /\ k < Len(x) => n + k < m /\ Bytes(more) = SubSeq(all, n + k + 1, m)
      /\ k = Len(x) /\ t # <<>> => n + k < m /\ Bytes(t) = SubSeq(all, n + k + 1, m)
      /\ k = Len(x) /\ t = <<>> => n + k = m
  BY <1>1, FieldsMove
<1>3. n \in 0..m /\ m \in Nat /\ n \in Nat /\ k \in Nat /\ k <= Len(x) /\ n + k \in Nat
  <2>1. Len(x) \in Nat
    BY FieldFacts
  <2> QED BY <2>1
<1> DEFINE c == base \o SubSeq(all, 1, n)
           d == base \o SubSeq(all, 1, n + k)
<1>6. c \in Seq(Nat) /\ SubSeq(all, 1, n) \in Seq(Nat)
  BY <1>3, PartFacts
<1>7. SubSeq(x, 1, k) \in Seq(Nat)
  <2>1. x \in Seq(Nat) /\ k \in 0..Len(x)
    BY FieldFacts
  <2> QED BY <2>1, PartFacts
<1>8. c \o SubSeq(x, 1, k) = d
  <2> DEFINE p == SubSeq(all, 1, n)
             q == SubSeq(x, 1, k)
  <2>1. p \in Seq(Nat) /\ q \in Seq(Nat) /\ c = base \o p
    BY <1>6, <1>7
  <2> HIDE DEF p, q
  <2>2. (base \o p) \o q = base \o (p \o q)
    BY <2>1, Associates, Zenon
  <2>3. c \o q = base \o (p \o q)
    BY <2>2 DEF p
  <2> QED BY <1>2, <2>3 DEF p, q
<1>9. Ends(Copied(k), Position + k, d)
  <2>1. At(c)
    BY <1>1 DEF At
  <2> HIDE DEF c, d
  <2>2. /\ Padded(Copied(k), c \o SubSeq(x, 1, k))
        /\ Position + k = Len(c \o SubSeq(x, 1, k))
    BY <1>3, <1>6, <2>1, CopyAppends DEF x
  <2> QED BY <1>8, <2>2 DEF Ends
<1>10. n + k < m => n + k \in 0..(m - 1)
  BY <1>3
<1>11. SubSeq(all, 1, m) = all
  BY SubSeqFull
<1> HIDE DEF m, c, more, x, t
<1>15. ASSUME k < Len(x) PROVE Does(Copied(k), Position + k, more, base, all)
  BY <1>2, <1>9, <1>10, <1>15 DEF Does, m
<1>16. ASSUME k = Len(x), t # <<>> PROVE Does(Copied(k), Position + k, t, base, all)
  BY <1>2, <1>9, <1>10, <1>16 DEF Does, m
<1>17. ASSUME k = Len(x), t = <<>> PROVE Ends(Copied(k), Position + k, base \o all)
  BY <1>2, <1>9, <1>11, <1>17
<1> QED BY <1>15, <1>16, <1>17, Zenon DEF more, x, t

-----------------------------------------------------------------------------
(* The header *)

\* The header and what follows it, byte by byte.
LEMMA HeaderAt ==
    ASSUME NEW b \in Nat, NEW s \in Seq(Nat)
    PROVE  /\ H(b) \in Seq(Nat) /\ Len(H(b)) = 3
           /\ H(b) \o s \in Seq(Nat) /\ Len(H(b) \o s) = 3 + Len(s)
           /\ (H(b) \o s)[1] = MAGIC /\ (H(b) \o s)[2] = b /\ (H(b) \o s)[3] = 0
           /\ \A i \in 1..Len(s) : (H(b) \o s)[3 + i] = s[i]
<1> DEFINE h == H(b)
<1>1. /\ h \in Seq(Nat) /\ Len(h) = 3 /\ h[1] = MAGIC /\ h[2] = b /\ h[3] = 0
  BY DEF H, MAGIC
<1> HIDE DEF h
<1>2. /\ h \o s \in Seq(Nat) /\ Len(h \o s) = 3 + Len(s)
      /\ \A i \in 1..(3 + Len(s)) : (h \o s)[i] = IF i <= 3 THEN h[i] ELSE s[i - 3]
  <2>1. /\ h \o s \in Seq(Nat) /\ Len(h \o s) = Len(h) + Len(s)
        /\ \A i \in 1..(Len(h) + Len(s)) : (h \o s)[i] = IF i <= Len(h) THEN h[i] ELSE s[i - Len(h)]
    BY <1>1, ConcatProperties, Zenon
  <2> QED BY <1>1, <2>1, Zenon
<1>3. Len(s) \in Nat
  OBVIOUS
<1>4. (h \o s)[1] = h[1] /\ (h \o s)[2] = h[2] /\ (h \o s)[3] = h[3]
  <2>1. 1 \in 1..(3 + Len(s)) /\ 2 \in 1..(3 + Len(s)) /\ 3 \in 1..(3 + Len(s))
    BY <1>3
  <2> QED BY <1>2, <2>1
<1>5. ASSUME NEW i \in 1..Len(s) PROVE (h \o s)[3 + i] = s[i]
  <2> DEFINE j == 3 + i
  <2>1. j \in 1..(3 + Len(s)) /\ ~(j <= 3) /\ j - 3 = i
    BY <1>3
  <2> HIDE DEF j
  <2>2. (h \o s)[j] = s[i]
    BY <1>2, <2>1
  <2> QED BY <2>2 DEF j
<1>6. /\ H(b) \in Seq(Nat) /\ Len(H(b)) = 3 /\ H(b) \o s \in Seq(Nat) /\ Len(H(b) \o s) = 3 + Len(s)
      /\ (H(b) \o s)[1] = MAGIC /\ (H(b) \o s)[2] = b /\ (H(b) \o s)[3] = 0
  BY <1>1, <1>2, <1>4, Zenon DEF h
<1> QED BY <1>5, <1>6 DEF h

\* A header of which these are the bytes, and what follows it.
Headed(g, b, s) ==
    /\ g \in Seq(Nat) /\ Len(g) = 3 + Len(s) /\ g[1] = MAGIC /\ g[2] = b /\ g[3] = 0
    /\ \A i \in 1..Len(s) : g[3 + i] = s[i]

\* The header, and whatever follows it, byte by byte.
LEMMA HeadedBytes ==
    ASSUME NEW b \in Nat, NEW s \in Seq(Nat)
    PROVE  Headed(H(b) \o s, b, s)
<1> DEFINE g == H(b) \o s
<1>1. /\ g \in Seq(Nat) /\ Len(g) = 3 + Len(s) /\ g[1] = MAGIC /\ g[2] = b /\ g[3] = 0
      /\ \A i \in 1..Len(s) : g[3 + i] = s[i]
  BY HeaderAt, Zenon
<1> HIDE DEF g
<1>2. Headed(g, b, s)
  BY <1>1 DEF Headed
<1> QED BY <1>2 DEF g

\* A byte more.
LEMMA AppendedBytes ==
    ASSUME NEW a \in Nat, NEW b \in Nat, NEW c \in Nat
    PROVE  /\ Append(<<a>>, b) = <<a, b>> /\ <<a, b>> \in Seq(Nat)
           /\ Append(<<a, b>>, c) = <<a, b, c>>
<1>1. <<a>> \in Seq(Nat) /\ <<a, b>> \in Seq(Nat) /\ <<a, b, c>> \in Seq(Nat)
  OBVIOUS
<1>2. Append(<<a>>, b) = <<a, b>>
  <2>1. Append(<<a>>, b) \in Seq(Nat) /\ Len(Append(<<a>>, b)) = 2
    OBVIOUS
  <2>2. Append(<<a>>, b)[1] = a /\ Append(<<a>>, b)[2] = b
    OBVIOUS
  <2>3. \A i \in 1..2 : Append(<<a>>, b)[i] = <<a, b>>[i]
    BY <2>2
  <2>4. Len(<<a, b>>) = 2
    OBVIOUS
  <2> QED BY <1>1, <2>1, <2>3, <2>4, SeqEqual
<1>3. Append(<<a, b>>, c) = <<a, b, c>>
  <2>1. Append(<<a, b>>, c) \in Seq(Nat) /\ Len(Append(<<a, b>>, c)) = 3
    OBVIOUS
  <2>2. Append(<<a, b>>, c)[1] = a /\ Append(<<a, b>>, c)[2] = b /\ Append(<<a, b>>, c)[3] = c
    OBVIOUS
  <2>3. \A i \in 1..3 : Append(<<a, b>>, c)[i] = <<a, b, c>>[i]
    BY <2>2
  <2>4. Len(<<a, b, c>>) = 3
    OBVIOUS
  <2> QED BY <1>1, <2>1, <2>3, <2>4, SeqEqual
<1> QED BY <1>1, <1>2, <1>3

\* What the methods of the writers begin with.
LEMMA FieldsOfMethods ==
    /\ \A b \in Nat : AreFields(Header(b)) /\ Header(b) # <<>> /\ Bytes(Header(b)) = H(b)
    /\ AreFields(<<<<TRAILER>>>>) /\ Bytes(<<<<TRAILER>>>>) = <<TRAILER>>
    /\ <<TRAILER>> \in Seq(Nat) /\ Len(<<TRAILER>>) = 1
    /\ \A r \in Records : AreFields(r) /\ r # <<>>
    /\ AreFields(<<>>)
<1>1. ASSUME NEW b \in Nat PROVE AreFields(Header(b)) /\ Header(b) # <<>> /\ Bytes(Header(b)) = H(b)
  <2> DEFINE x == <<MAGIC>>  y == <<b>>  z == <<0>>
  <2>1. x \in Seq(Nat) /\ y \in Seq(Nat) /\ z \in Seq(Nat) /\ x # <<>> /\ y # <<>> /\ z # <<>>
    BY DEF MAGIC
  <2>2. x \o (y \o z) = H(b)
    <3>0. MAGIC \in Nat
      BY DEF MAGIC
    <3>1. Append(x, b) = <<MAGIC, b>> /\ <<MAGIC, b>> \in Seq(Nat)
      BY <3>0, AppendedBytes
    <3>2. Append(<<MAGIC, b>>, 0) = <<MAGIC, b, 0>>
      BY <3>0, AppendedBytes
    <3>3. Append(x, b) = x \o y /\ Append(<<MAGIC, b>>, 0) = <<MAGIC, b>> \o z
      <4>1. b \in Nat /\ 0 \in Nat
        OBVIOUS
      <4> HIDE DEF x
      <4> QED BY <2>1, <3>1, <4>1, AppendIsConcat, Zenon
    <3>4. (x \o y) \o z = x \o (y \o z)
      <4> HIDE DEF x, y, z
      <4> QED BY <2>1, Associates
    <3> HIDE DEF x, y, z
    <3> QED BY <3>1, <3>2, <3>3, <3>4, Zenon DEF H
  <2>3. Header(b) = <<x, y, z>>
    BY DEF Header
  <2> HIDE DEF x, y, z
  <2>4. FlattenSeq(<<x, y, z>>) = x \o (y \o z)
    BY <2>1, FlattenFew
  <2>5. AreFields(<<x, y, z>>) /\ <<x, y, z>> # <<>>
    BY <2>1 DEF AreFields
  <2> QED BY <2>2, <2>3, <2>4, <2>5, Zenon DEF Bytes
<1>2. <<TRAILER>> \in Seq(Nat) /\ <<TRAILER>> # <<>> /\ Len(<<TRAILER>>) = 1
  BY DEF TRAILER
<1>3. AreFields(<<<<TRAILER>>>>) /\ Bytes(<<<<TRAILER>>>>) = <<TRAILER>>
  <2> DEFINE x == <<TRAILER>>
  <2>1. x \in Seq(Nat) /\ x # <<>>
    BY <1>2
  <2> HIDE DEF x
  <2>2. AreFields(<<x>>)
    BY <2>1 DEF AreFields
  <2>3. Bytes(<<x>>) = x
    BY <2>1, FlattenFew DEF Bytes
  <2> QED BY <2>2, <2>3 DEF x
<1>4. ASSUME NEW r \in Records PROVE AreFields(r) /\ r # <<>>
  <2>1. r \in Seq(Seq(Nat)) /\ Len(r) = 2 /\ \A i \in 1..2 : r[i] # <<>>
    BY RecordFields
  <2>2. r # <<>> /\ Len(r) <= 3
    BY <2>1
  <2> QED BY <2>1, <2>2 DEF AreFields
<1>5. AreFields(<<>>)
  BY DEF AreFields
<1> QED BY <1>1, <1>2, <1>3, <1>4, <1>5

\* The header is written over the first one.
LEMMA HeaderAgain ==
    ASSUME Placed, Queued, Writing, NEW n \in 0..2, Position = n, Bytes(todo) = SubSeq(H(1), n + 1, 3),
           NEW s \in Seq(Nat), Padded(file, H(IF n = 2 THEN 1 ELSE 0) \o s),
           NEW k \in 1..Len(Head(todo)), Position + k <= Len(file)
    PROVE  n + k <= 3 /\ Padded(Copied(k), H(IF n + k >= 2 THEN 1 ELSE 0) \o s)
<1> DEFINE x == Head(todo)
           a == IF n = 2 THEN 1 ELSE 0
           b == IF n + k >= 2 THEN 1 ELSE 0
           f == H(a) \o s
           g == H(b) \o s
<1>1. Len(x) \in Nat /\ k \in Nat /\ k # 0 /\ k <= Len(x)
  BY FieldFacts
<1>2. a \in Nat /\ b \in Nat
  BY <1>1
<1>3. /\ H(1) \in Seq(Nat) /\ Len(H(1)) = 3 /\ H(1)[1] = MAGIC /\ H(1)[2] = 1 /\ H(1)[3] = 0
  BY DEF H, MAGIC
<1>4. n + k <= 3 /\ \A i \in 1..k : x[i] = H(1)[n + i]
  <2>1. n \in 0..(Len(H(1)) - 1) /\ Bytes(todo) = SubSeq(H(1), n + 1, Len(H(1)))
    <3>1. 3 - 1 = 2
      OBVIOUS
    <3> QED BY <1>3, <3>1, Zenon
  <2> QED BY <1>3, <2>1, FieldsMove
<1>5. /\ f \in Seq(Nat) /\ Len(f) = 3 + Len(s) /\ f[1] = MAGIC /\ f[2] = a /\ f[3] = 0
      /\ \A i \in 1..Len(s) : f[3 + i] = s[i]
  <2> HIDE DEF a
  <2>1. Headed(f, a, s)
    BY <1>2, HeadedBytes, Zenon
  <2> HIDE DEF f
  <2> QED BY <2>1 DEF Headed
<1>6. /\ g \in Seq(Nat) /\ Len(g) = 3 + Len(s) /\ g[1] = MAGIC /\ g[2] = b /\ g[3] = 0
      /\ \A i \in 1..Len(s) : g[3 + i] = s[i]
  <2> HIDE DEF b
  <2>1. Headed(g, b, s)
    BY <1>2, HeadedBytes, Zenon
  <2> HIDE DEF g
  <2> QED BY <2>1 DEF Headed
<1>7. /\ Len(Copied(k)) = Len(file)
      /\ \A i \in 1..Len(file) : Copied(k)[i] = IF i \in (n + 1)..(n + k) THEN x[i - n] ELSE file[i]
  BY <1>1, CopiedFacts
<1>8. Padded(file, f)
  OBVIOUS
<1> HIDE DEF f, g, x
<1>9. ASSUME NEW i \in 1..Len(file) PROVE Copied(k)[i] = IF i <= Len(g) THEN g[i] ELSE 0
  <2>0. Len(s) \in Nat
    OBVIOUS
  <2>1. CASE i \in (n + 1)..(n + k)
    <3>1. i - n \in 1..k /\ n + (i - n) = i /\ i \in 1..3 /\ i <= Len(g)
      <4>1. i - n \in 1..k /\ n + (i - n) = i /\ i <= n + k /\ i >= 1
        BY <1>1, <2>1
      <4>2. n + k <= 3 /\ n + k \in Nat
        BY <1>1, <1>4
      <4>3. i \in 1..3
        BY <4>1, <4>2
      <4>4. Len(g) = 3 + Len(s)
        BY <1>6
      <4>5. i <= Len(g)
        BY <2>0, <4>3, <4>4
      <4> QED BY <4>1, <4>3, <4>5
    <3>2. Copied(k)[i] = H(1)[i]
      BY <1>4, <1>7, <2>1, <3>1
    <3>3. i = 2 => b = 1
      BY <1>1, <2>1
    <3>4. i = 1 \/ i = 2 \/ i = 3
      BY <3>1
    <3> HIDE DEF b
    <3>5. H(1)[i] = g[i]
      BY <1>3, <1>6, <3>3, <3>4
    <3> QED BY <3>1, <3>2, <3>5
  <2>2. CASE i \notin (n + 1)..(n + k)
    <3>1. Copied(k)[i] = IF i <= 3 + Len(s) THEN f[i] ELSE 0
      BY <1>5, <1>7, <1>8, <2>2 DEF Padded
    <3>2. i = 2 => a = b
      BY <1>1, <1>4, <2>2
    <3> HIDE DEF a, b
    <3>3. i = 1 \/ i = 2 \/ i = 3 \/ i > 3
      OBVIOUS
    <3>4. i > 3 /\ i <= 3 + Len(s) => f[i] = g[i]
      <4> SUFFICES ASSUME i > 3, i <= 3 + Len(s) PROVE f[i] = g[i]
        OBVIOUS
      <4>1. i - 3 \in 1..Len(s) /\ 3 + (i - 3) = i
        BY <2>0
      <4> QED BY <1>5, <1>6, <4>1
    <3>5. i <= 3 + Len(s) => f[i] = g[i]
      BY <1>5, <1>6, <3>2, <3>3, <3>4
    <3> QED BY <1>6, <3>1, <3>5
  <2> QED BY <2>1, <2>2
<1>10. Padded(Copied(k), g)
  BY <1>5, <1>6, <1>7, <1>8, <1>9 DEF Padded
<1> QED BY <1>4, <1>10 DEF g

-----------------------------------------------------------------------------
(* What a process leaves behind *)

\* What may follow the complete records.
LEMMA TailFacts ==
    /\ <<>> \in Partials /\ <<TRAILER>> \in Tails /\ <<>> \o <<TRAILER>> = <<TRAILER>>
    /\ Partials \subseteq Tails
    /\ \A t \in Partials : t \in Seq(Nat) /\ t \o <<TRAILER>> \in Tails
    /\ \A t \in Tails : t \in Seq(Nat)
    /\ \A r \in Records : \A n \in 0..(Len(Bytes(r)) - 1) : SubSeq(Bytes(r), 1, n) \in Partials
<1>1. \A r \in Records : \A n \in 0..(Len(Bytes(r)) - 1) : SubSeq(Bytes(r), 1, n) \in Partials
  BY DEF Partials
<1>2. <<>> \in Partials
  <2> DEFINE r == <<<<THREAD_RECORD>>, <<1, 0>>>>
  <2>1. r \in Records
    BY DEF Records, ThreadRecords
  <2> HIDE DEF r
  <2>2. Bytes(r) \in Seq(Nat) /\ Len(Bytes(r)) \in 2..3
    BY <2>1, RecordFields
  <2>3. SubSeq(Bytes(r), 1, 0) = <<>> /\ 0 \in 0..(Len(Bytes(r)) - 1)
    <3>1. SubSeq(Bytes(r), 1, 0) = <<>>
      BY <2>2, SubSeqEmpty
    <3> DEFINE n == Len(Bytes(r))
    <3>2. n \in 2..3
      BY <2>2
    <3> HIDE DEF n
    <3>3. 0 \in 0..(n - 1)
      BY <3>2
    <3> QED BY <3>1, <3>3 DEF n
  <2> QED BY <1>1, <2>1, <2>3
<1>3. \A t \in Partials : t \in Seq(Nat)
  <2> SUFFICES ASSUME NEW r \in Records, NEW n \in 0..(Len(Bytes(r)) - 1)
               PROVE  SubSeq(Bytes(r), 1, n) \in Seq(Nat)
    BY DEF Partials
  <2>1. Bytes(r) \in Seq(Nat) /\ Len(Bytes(r)) \in 2..3
    BY RecordFields
  <2> DEFINE b == Bytes(r)
  <2>2. b \in Seq(Nat) /\ n \in 0..(Len(b) - 1)
    BY <2>1
  <2> HIDE DEF b
  <2>3. SubSeq(b, 1, n) \in Seq(Nat)
    BY <2>2
  <2> QED BY <2>3 DEF b
<1>4. <<TRAILER>> \in Seq(Nat)
  BY FieldsOfMethods
<1>5. \A t \in Partials : t \o <<TRAILER>> \in Tails
  BY DEF Tails
<1>6. <<>> \o <<TRAILER>> = <<TRAILER>>
  BY <1>4, ConcatEmptySeq
<1>7. \A t \in Tails : t \in Seq(Nat)
  <2> SUFFICES ASSUME NEW g \in Partials PROVE g \o <<TRAILER>> \in Seq(Nat)
    BY <1>3 DEF Tails
  <2> HIDE DEF TRAILER
  <2> QED BY <1>3, <1>4, ConcatProperties
<1>8. Partials \subseteq Tails
  BY DEF Tails
<1>9. <<TRAILER>> \in Tails
  BY <1>2, <1>5, <1>6, Zenon
<1> QED BY <1>1, <1>2, <1>3, <1>5, <1>6, <1>7, <1>8, <1>9, Zenon

\* Header, records and what follows them are bytes.
LEMMA HeldBytes ==
    ASSUME NEW w \in Seq(Records), NEW b \in Nat, NEW t \in Seq(Nat)
    PROVE  /\ H(b) \in Seq(Nat) /\ Stream(w) \in Seq(Nat)
           /\ H(b) \o Stream(w) \in Seq(Nat) /\ H(b) \o Stream(w) \o t \in Seq(Nat)
           /\ Stream(w) \o t \in Seq(Nat)
           /\ H(b) \o Stream(w) \o t = H(b) \o (Stream(w) \o t)
<1>1. H(b) \in Seq(Nat) /\ Stream(w) \in Seq(Nat)
  BY HeaderAt, StreamFacts, EmptySeq
<1> DEFINE h == H(b)
           s == Stream(w)
<1> HIDE DEF h, s
<1>2. h \in Seq(Nat) /\ s \in Seq(Nat)
  BY <1>1 DEF h, s
<1>3. h \o s \in Seq(Nat) /\ s \o t \in Seq(Nat)
  BY <1>2, ConcatProperties
<1>4. h \o s \o t \in Seq(Nat)
  BY <1>2, <1>3, ConcatProperties
<1>5. h \o s \o t = h \o (s \o t)
  BY <1>2, Associates
<1> QED BY <1>1, <1>3, <1>4, <1>5 DEF h, s

\* A tail of records.
LEMMA TailOfKept ==
    ASSUME NEW k \in Seq(Records), k # <<>>
    PROVE  Head(k) \in Records /\ Tail(k) \in Seq(Records)
BY HeadTailProperties

\* The statistics a header holds are one bit.
LEMMA StatsAre == Stats \in 0..1 /\ Stats \in Nat
BY DEF Stats

\* Some of the header is no record.
LEMMA LeavesHeader ==
    ASSUME NEW f, NEW position, NEW q, NEW b \in 0..1, Does(f, position, q, <<>>, H(b)), written = <<>>
    PROVE  LeftIn(f)
<1>1. H(b) \in Seq(Nat) /\ Len(H(b)) = 3
  <2>1. b \in Nat /\ <<>> \in Seq(Nat)
    BY EmptySeq
  <2> QED BY <2>1, HeaderAt
<1> DEFINE h == H(b)
<1> HIDE DEF h
<1>2. PICK n \in 0..(Len(h) - 1) : Ends(f, position, <<>> \o SubSeq(h, 1, n))
  BY DEF Does, h
<1>3. n \in 0..2 /\ n \in 0..Len(h)
  BY <1>1 DEF h
<1>4. SubSeq(h, 1, n) \in Seq(Nat)
  BY <1>1, <1>3, PartFacts DEF h
<1>5. <<>> \o SubSeq(h, 1, n) = SubSeq(h, 1, n)
  BY <1>4, ConcatEmptySeq
<1>6. Padded(f, SubSeq(H(b), 1, n))
  BY <1>2, <1>5 DEF Ends, h
<1> QED BY <1>3, <1>6 DEF LeftIn

\* Some of a record is a partial one.
LEMMA LeavesRecord ==
    ASSUME NEW f, NEW position, NEW q, NEW base, NEW r \in Records, Does(f, position, q, base, Bytes(r))
    PROVE  \E t \in Partials : Ends(f, position, base \o t)
<1>1. PICK n \in 0..(Len(Bytes(r)) - 1) : Ends(f, position, base \o SubSeq(Bytes(r), 1, n))
  BY DEF Does
<1>2. SubSeq(Bytes(r), 1, n) \in Partials
  BY TailFacts
<1> QED BY <1>1, <1>2

\* Whatever is left behind the records.
LEMMA LeavesTail ==
    ASSUME NEW f, NEW b \in 0..1, NEW t \in Tails, Clean(t), Holds(f, b, t)
    PROVE  LeftIn(f)
BY DEF LeftIn

\* Whenever it ends, the process leaves the complete records.
LEMMA LeftAtAnyTime ==
    ASSUME WInv
    PROVE  LeftIn(file)
<1> USE DEF WInv, Contents
<1>0. stage \in Stages /\ written \in Seq(Records) /\ kept \in Seq(Records)
  BY DEF Queued
<1>1. CASE stage = "header"
  <2>1. written = <<>> /\ Does(file, Position, todo, <<>>, H(Stats))
    BY <1>1 DEF OfHeader, Doing
  <2> QED BY <2>1, StatsAre, LeavesHeader
<1>2. CASE stage = "tracking"
  <2>1. CASE Streaming
    <3>1. PICK t \in Partials : Ends(file, Position, H(0) \o Stream(written) \o t)
      BY <1>2, <2>1 DEF OfTracking, At
    <3>2. t \in Tails /\ Clean(t) /\ Holds(file, 0, t) /\ 0 \in 0..1
      BY <3>1, TailFacts DEF Clean, Holds, Ends
    <3> QED BY <3>2, LeavesTail
  <2>2. CASE ~Streaming
    <3>1. written = <<>> /\ Padded(file, <<>>)
      BY <1>2, <2>2 DEF OfTracking, At, Ends
    <3>2. SubSeq(H(0), 1, 0) = <<>>
      BY SubSeqEmpty
    <3>3. 0 \in 0..1 /\ 0 \in 0..2
      OBVIOUS
    <3>4. Padded(file, SubSeq(H(0), 1, 0))
      BY <3>1, <3>2, Zenon
    <3> QED BY <3>1, <3>3, <3>4, Zenon DEF LeftIn
  <2> QED BY <2>1, <2>2
<1>3. CASE stage = "record"
  <2>1. kept # <<>> /\ Does(file, Position, todo, H(Stats) \o Stream(written), Bytes(Head(kept)))
    BY <1>3 DEF OfRecord, Doing
  <2>2. Head(kept) \in Records
    BY <1>0, <2>1, TailOfKept
  <2>3. PICK t \in Partials : Ends(file, Position, H(Stats) \o Stream(written) \o t)
    BY <2>1, <2>2, LeavesRecord
  <2>4. t \in Tails /\ Clean(t) /\ Holds(file, Stats, t)
    BY <2>3, TailFacts DEF Clean, Holds, Ends
  <2> QED BY <2>4, StatsAre, LeavesTail
<1>4. CASE stage = "trailer"
  <2>1. PICK t \in Partials : Ends(file, Position, H(Stats) \o Stream(written) \o t)
    BY <1>4 DEF OfTrailer, At
  <2>2. t \in Tails /\ Clean(t) /\ Holds(file, Stats, t)
    BY <2>1, TailFacts DEF Clean, Holds, Ends
  <2> QED BY <2>2, StatsAre, LeavesTail
<1>5. CASE stage = "rewind"
  <2>1. PICK t \in Tails : (t = <<TRAILER>> \/ broken) /\ Holds(file, 0, t)
    BY <1>5 DEF OfRewind
  <2>2. Clean(t) /\ 0 \in 0..1
    BY <2>1 DEF Clean
  <2> QED BY <2>1, <2>2, LeavesTail
<1>6. CASE stage = "final header"
  <2>1. PICK t \in Tails, n \in 0..2 : (t = <<TRAILER>> \/ broken) /\ Holds(file, IF n = 2 THEN 1 ELSE 0, t)
    BY <1>6 DEF OfFinalHeader
  <2>2. Clean(t) /\ (IF n = 2 THEN 1 ELSE 0) \in 0..1
    BY <2>1 DEF Clean
  <2> QED BY <2>1, <2>2, LeavesTail
<1>7. CASE stage \in {"closing", "closed"}
  <2>1. CASE broken /\ LeftIn(file)
    BY <2>1
  <2>2. CASE Holds(file, 1, <<TRAILER>>)
    <3>1. <<TRAILER>> \in Tails /\ Clean(<<TRAILER>>) /\ 1 \in 0..1
      BY TailFacts DEF Clean
    <3> QED BY <2>2, <3>1, LeavesTail
  <2> QED BY <1>7, <2>1, <2>2 DEF OfEnd
<1>8. CASE stage = "killed"
  BY <1>8 DEF OfEnd
<1> QED BY <1>0, <1>1, <1>2, <1>3, <1>4, <1>5, <1>6, <1>7, <1>8 DEF Stages, WritingStages

\* What is to be written lies in the file.
LEMMA Room ==
    ASSUME Placed, NEW k \in Nat, needle + k <= end
    PROVE  Position + k <= Len(file)
<1> DEFINE l == Len(file)
<1>1. /\ d_bufferOffset \in Nat /\ end \in Nat /\ needle \in 0..end
      /\ d_bufferOffset + end <= l /\ l \in Nat
  BY DEF Placed
<1> HIDE DEF l
<1>2. d_bufferOffset + needle + k <= l
  BY <1>1
<1> QED BY <1>2 DEF Position, l

\* Even if it ends while a field is being copied.
LEMMA KilledMidway ==
    ASSUME WInv, Writing, NEW k \in 1..(Len(Head(todo)) - 1), Position + k <= Len(file)
    PROVE  LeftIn(Copied(k))
<1> USE DEF WInv, Contents
<1>0. /\ stage \in WritingStages /\ written \in Seq(Records) /\ kept \in Seq(Records)
      /\ Len(Head(todo)) \in Nat
  BY FieldFacts DEF Queued, Writing
<1>1. k \in 1..Len(Head(todo)) /\ k < Len(Head(todo))
  BY <1>0
<1>2. Stats \in 0..1 /\ Stats \in Nat
  BY StatsAre
<1>3. H(Stats) \in Seq(Nat) /\ Stream(written) \in Seq(Nat) /\ H(Stats) \o Stream(written) \in Seq(Nat)
      /\ <<>> \in Seq(Nat)
  BY <1>0, <1>2, EmptySeq, HeldBytes
<1> DEFINE more == <<SubSeq(Head(todo), k + 1, Len(Head(todo)))>> \o Tail(todo)
<1>4. CASE stage = "header"
  <2>1. written = <<>> /\ Doing(<<>>, H(Stats))
    BY <1>4 DEF OfHeader
  <2>2. Does(Copied(k), Position + k, more, <<>>, H(Stats))
    BY <1>1, <1>3, <2>1, MoreDone
  <2> HIDE DEF more
  <2> QED BY <1>2, <2>1, <2>2, LeavesHeader
<1>5. CASE stage = "record"
  <2>1. kept # <<>> /\ Doing(H(Stats) \o Stream(written), Bytes(Head(kept)))
    BY <1>5 DEF OfRecord
  <2>2. Head(kept) \in Records /\ Bytes(Head(kept)) \in Seq(Nat)
    BY <1>0, <2>1, TailOfKept, RecordFields
  <2>3. Does(Copied(k), Position + k, more, H(Stats) \o Stream(written), Bytes(Head(kept)))
    BY <1>1, <1>3, <2>1, <2>2, MoreDone
  <2> HIDE DEF more
  <2>4. PICK t \in Partials : Ends(Copied(k), Position + k, H(Stats) \o Stream(written) \o t)
    BY <2>2, <2>3, LeavesRecord
  <2>5. t \in Tails /\ Clean(t) /\ Holds(Copied(k), Stats, t)
    BY <2>4, TailFacts DEF Clean, Holds, Ends
  <2> QED BY <2>5, <1>2, LeavesTail
<1>6. CASE stage = "trailer"
  <2>1. todo = <<<<TRAILER>>>>
    BY <1>6 DEF OfTrailer
  <2>2. Head(<<<<TRAILER>>>>) = <<TRAILER>> /\ Len(<<TRAILER>>) = 1
    OBVIOUS
  <2>3. Len(Head(todo)) = 1
    BY <2>1, <2>2, Zenon
  <2> DEFINE l == Len(Head(todo))
  <2>4. k \in 1..(l - 1) /\ l = 1
    BY <2>3
  <2> HIDE DEF l
  <2> QED BY <2>4
<1>7. CASE stage = "final header"
  <2>1. PICK t \in Tails, n \in 0..2 :
              /\ t = <<TRAILER>> \/ broken
              /\ Position = n /\ Bytes(todo) = SubSeq(H(1), n + 1, 3)
              /\ Holds(file, IF n = 2 THEN 1 ELSE 0, t)
    BY <1>7 DEF OfFinalHeader
  <2>2. t \in Seq(Nat)
    BY TailFacts
  <2> DEFINE a == IF n = 2 THEN 1 ELSE 0
             b == IF n + k >= 2 THEN 1 ELSE 0
  <2>3. a \in 0..1 /\ b \in 0..1 /\ a \in Nat /\ b \in Nat
    OBVIOUS
  <2>4. Stream(written) \o t \in Seq(Nat) /\ Padded(file, H(a) \o (Stream(written) \o t))
    <3>1. Padded(file, H(a) \o Stream(written) \o t)
      BY <2>1 DEF Holds
    <3> HIDE DEF a
    <3> QED BY <1>0, <2>2, <2>3, <3>1, HeldBytes
  <2>5. Padded(Copied(k), H(b) \o (Stream(written) \o t))
    <3>1. Position = n /\ Bytes(todo) = SubSeq(H(1), n + 1, 3)
      BY <2>1
    <3> QED BY <1>1, <2>4, <3>1, HeaderAgain
  <2> HIDE DEF a, b
  <2>6. Holds(Copied(k), b, t)
    BY <1>0, <2>2, <2>3, <2>5, HeldBytes DEF Holds
  <2>7. Clean(t)
    BY <2>1 DEF Clean
  <2> QED BY <2>3, <2>6, <2>7, LeavesTail
<1> QED BY <1>0, <1>4, <1>5, <1>6, <1>7 DEF WritingStages

-----------------------------------------------------------------------------
(* What a method goes on with *)

\* The fields of a stage.
LEMMA FieldsOf ==
    ASSUME NEW s \in Stages, NEW k \in Seq(Records), s = "record" => k # <<>>
    PROVE  /\ AreFields(Fields(s, k)) /\ (Fields(s, k) # <<>> <=> s \in WritingStages)
           /\ s = "header" => Bytes(Fields(s, k)) = H(Stats)
           /\ s = "record" => Bytes(Fields(s, k)) = Bytes(Head(k))
           /\ s = "trailer" => Fields(s, k) = <<<<TRAILER>>>>
           /\ s = "final header" => Bytes(Fields(s, k)) = H(1)
<1>1. CASE s = "header"
  <2>1. Fields(s, k) = Header(Stats)
    BY <1>1 DEF Fields, Stats
  <2> QED BY <1>1, <2>1, StatsAre, FieldsOfMethods DEF WritingStages
<1>2. CASE s = "final header"
  <2>1. Fields(s, k) = Header(1) /\ 1 \in Nat
    BY <1>2 DEF Fields
  <2> QED BY <1>2, <2>1, FieldsOfMethods DEF WritingStages
<1>3. CASE s = "record"
  <2>1. Fields(s, k) = Head(k) /\ Head(k) \in Records
    BY <1>3, TailOfKept DEF Fields
  <2> QED BY <1>3, <2>1, FieldsOfMethods DEF WritingStages
<1>4. CASE s = "trailer"
  <2>1. Fields(s, k) = <<<<TRAILER>>>> /\ <<<<TRAILER>>>> # <<>>
    BY <1>4 DEF Fields
  <2> QED BY <1>4, <2>1, FieldsOfMethods DEF WritingStages
<1>5. CASE s \notin WritingStages
  <2>1. Fields(s, k) = <<>>
    BY <1>5 DEF Fields, WritingStages
  <2>2. s \notin {"header", "record", "trailer", "final header"}
    BY <1>5 DEF WritingStages
  <2> QED BY <1>5, <2>1, <2>2, FieldsOfMethods
<1> QED BY <1>1, <1>2, <1>3, <1>4, <1>5 DEF WritingStages

\* Before the reader opens the file.
LEMMA GoesQueued ==
    ASSUME Queued, stage \notin {"closed", "killed"}, NEW s \in Stages, NEW k \in Seq(Records),
           s = "record" => k # <<>>, Goes(s, k), written' \in Seq(Records), broken' \in BOOLEAN,
           killed' = (s = "killed"), lz4' \in BOOLEAN, lz4' => s = "closed",
           rstate' = rstate
    PROVE  Queued'
<1>1. AreFields(Fields(s, k)) /\ (Fields(s, k) # <<>> <=> s \in WritingStages)
  BY FieldsOf
<1>2. stage' = s /\ kept' = k /\ todo' = Fields(s, k)
  BY DEF Goes
<1>3. rstate' = "closed"
  BY DEF Queued
<1>4. AreFields(todo)' /\ (todo' # <<>> <=> stage' \in WritingStages)
  BY <1>1, <1>2 DEF AreFields
<1> QED BY <1>2, <1>3, <1>4 DEF Queued

\* Nothing of it is written yet.
LEMMA Begins ==
    ASSUME NEW f, NEW position, NEW q, NEW base \in Seq(Nat), NEW all \in Seq(Nat), Len(all) > 0,
           Ends(f, position, base), Bytes(q) = all
    PROVE  Does(f, position, q, base, all)
<1>1. 0 \in 0..(Len(all) - 1) /\ 0 + 1 = 1
  <2> DEFINE n == Len(all)
  <2>1. n \in Nat /\ n > 0
    OBVIOUS
  <2> HIDE DEF n
  <2>2. 0 \in 0..(n - 1)
    BY <2>1
  <2> QED BY <2>2 DEF n
<1>2. SubSeq(all, 1, Len(all)) = all /\ SubSeq(all, 1, 0) = <<>>
  BY SubSeqFull, SubSeqEmpty
<1>3. base \o <<>> = base
  BY ConcatEmptySeq
<1>4. /\ Bytes(q) = SubSeq(all, 0 + 1, Len(all))
      /\ Ends(f, position, base \o SubSeq(all, 1, 0))
  BY <1>1, <1>2, <1>3, Zenon
<1> QED BY <1>1, <1>4, Zenon DEF Does

\* What nothing but the end of the process and of the reader changes.
Steady ==
    /\ format' = format /\ killed' = killed /\ lz4' = lz4 /\ rstate' = rstate
    /\ stage \notin {"closed", "killed"}

\* The stage does not matter to what the header will say.
LEMMA SteadyStats ==
    ASSUME Steady
    PROVE  (Stats' = Stats) /\ (Streaming' <=> Streaming)
BY DEF Steady, Stats, Streaming

\* Nothing behind the complete records.
LEMMA NothingBehind ==
    ASSUME NEW b \in Nat, NEW w \in Seq(Records), NEW f, NEW position, Ends(f, position, H(b) \o Stream(w))
    PROVE  \E t \in Partials : t = <<>> /\ Ends(f, position, H(b) \o Stream(w) \o t)
<1>1. <<>> \in Partials /\ <<>> \in Seq(Nat)
  BY TailFacts, EmptySeq
<1>2. H(b) \o Stream(w) \in Seq(Nat)
  BY <1>1, HeldBytes
<1>3. H(b) \o Stream(w) \o <<>> = H(b) \o Stream(w)
  BY <1>2, ConcatEmptySeq
<1> QED BY <1>1, <1>3, Zenon

\* After the header or a record.
LEMMA FollowingHolds ==
    ASSUME Queued, Steady, broken = FALSE, broken' = FALSE, NEW k \in Seq(Records), Goes(Following(k), k),
           written' \in Seq(Records), Ends(file', Position', H(Stats) \o Stream(written'))
    PROVE  Queued' /\ Contents'
<1> DEFINE s == Following(k)
<1>1. s \in {"tracking", "record", "trailer"} /\ (s = "record" => k # <<>>) /\ s \in Stages
  BY DEF Following, Stages, WritingStages
<1>2. Queued'
  BY <1>1, GoesQueued DEF Steady, Queued
<1>3. stage' = s /\ kept' = k /\ todo' = Fields(s, k)
  BY DEF Goes
<1>4. Stats' = Stats /\ (Streaming' <=> Streaming) /\ Stats \in Nat
  BY SteadyStats, StatsAre
<1>5. \E t \in Partials : t = <<>> /\ Ends(file', Position', H(Stats) \o Stream(written') \o t)
  BY <1>4, NothingBehind
<1>6. OfTracking'
  <2>1. stage' = "tracking" => Streaming
    BY <1>3 DEF Following
  <2>2. Streaming => Stats = 0
    BY DEF Stats
  <2> QED BY <1>4, <1>5, <2>1, <2>2 DEF OfTracking, At
<1>7. OfTrailer'
  <2>1. stage' = "trailer" => todo' = <<<<TRAILER>>>>
    BY <1>1, <1>3, FieldsOf
  <2> QED BY <1>4, <1>5, <2>1 DEF OfTrailer, At
<1>8. OfRecord'
  <2> SUFFICES ASSUME s = "record"
               PROVE  Does(file', Position', todo', H(Stats) \o Stream(written'), Bytes(Head(k)))
    BY <1>1, <1>3, <1>4 DEF OfRecord, Doing
  <2>1. Head(k) \in Records /\ Bytes(todo') = Bytes(Head(k))
    BY <1>1, <1>3, FieldsOf, TailOfKept
  <2>2. Bytes(Head(k)) \in Seq(Nat) /\ Len(Bytes(Head(k))) > 0
    <3> DEFINE n == Len(Bytes(Head(k)))
    <3>1. Bytes(Head(k)) \in Seq(Nat) /\ n \in 2..3
      BY <2>1, RecordFields
    <3> HIDE DEF n
    <3>2. n > 0
      BY <3>1
    <3> QED BY <3>1, <3>2 DEF n
  <2>3. H(Stats) \o Stream(written') \in Seq(Nat)
    BY <1>4, HeldBytes, EmptySeq
  <2> QED BY <2>1, <2>2, <2>3, Begins
<1>9. OfHeader' /\ OfRewind' /\ OfFinalHeader' /\ OfEnd'
  BY <1>1, <1>3 DEF OfHeader, OfRewind, OfFinalHeader, OfEnd
<1> QED BY <1>2, <1>6, <1>7, <1>8, <1>9 DEF Contents

\* What the header says is a bit.
LEMMA Bits == 0 \in 0..1 /\ 1 \in 0..1
OBVIOUS

\* A method that has written all of its fields.
LEMMA CompletesHolds ==
    ASSUME WInv, Steady, stage \in WritingStages, broken' = broken, Completes,
           stage = "header" => Ends(file', Position', H(Stats)),
           stage = "record" =>
              Ends(file', Position', H(Stats) \o Stream(written) \o Bytes(Head(kept))),
           stage = "trailer" =>
              \E t \in Partials : /\ t = <<>> \/ broken
                                  /\ Ends(file', Position', H(Stats) \o Stream(written) \o t \o <<TRAILER>>),
           stage = "final header" =>
              \E t \in Tails : (t = <<TRAILER>> \/ broken) /\ Holds(file', 1, t)
    PROVE  Queued' /\ Contents'
<1>0. /\ Queued /\ written \in Seq(Records) /\ kept \in Seq(Records) /\ broken \in BOOLEAN
      /\ killed = FALSE /\ lz4 = FALSE
  BY DEF WInv, Queued, Steady
<1>1. Stats' = Stats /\ (Streaming' <=> Streaming) /\ Stats \in Nat
  BY SteadyStats, StatsAre
<1>6. 1 \in 0..1
  BY Bits
<1>2. CASE stage = "header"
  <2>1. Goes(Following(kept), kept) /\ written' = <<>> /\ broken = FALSE
    BY <1>0, <1>2 DEF Completes, WInv, Contents, OfHeader
  <2>2. H(Stats) \o Stream(<<>>) = H(Stats)
    <3>1. H(Stats) \in Seq(Nat)
      BY <1>0, <1>1, HeldBytes, EmptySeq
    <3> QED BY <3>1, StreamOfNone, ConcatEmptySeq
  <2>3. Ends(file', Position', H(Stats) \o Stream(written'))
    BY <1>2, <2>1, <2>2
  <2> QED BY <1>0, <2>1, <2>3, FollowingHolds, EmptySeq
<1>3. CASE stage = "record"
  <2>1. kept # <<>> /\ broken = FALSE
    BY <1>0, <1>3 DEF WInv, Contents, OfRecord
  <2>2. Head(kept) \in Records /\ Tail(kept) \in Seq(Records)
    BY <1>0, <2>1, TailOfKept
  <2>3. Goes(Following(Tail(kept)), Tail(kept)) /\ written' = Append(written, Head(kept))
    BY <1>3 DEF Completes
  <2>4. written' \in Seq(Records)
    BY <1>0, <2>2, <2>3, AppendProperties
  <2>5. H(Stats) \o Stream(written') = H(Stats) \o Stream(written) \o Bytes(Head(kept))
    <3>1. Stream(written') = Stream(written) \o Bytes(Head(kept))
      BY <1>0, <2>2, <2>3, StreamFacts
    <3>2. Bytes(Head(kept)) \in Seq(Nat)
      BY <2>2, RecordFields
    <3>3. H(Stats) \o Stream(written) \o Bytes(Head(kept)) = H(Stats) \o (Stream(written) \o Bytes(Head(kept)))
      BY <1>0, <1>1, <3>2, HeldBytes
    <3> QED BY <3>1, <3>3
  <2>6. Ends(file', Position', H(Stats) \o Stream(written'))
    BY <1>3, <2>5
  <2> QED BY <1>0, <2>1, <2>2, <2>3, <2>4, <2>6, FollowingHolds
<1>4. CASE stage = "trailer"
  <2> DEFINE s == IF Streaming THEN "rewind" ELSE "closing"
  <2>1. Goes(s, kept) /\ written' = written
    BY <1>4 DEF Completes
  <2>2. s \in {"rewind", "closing"} /\ s \in Stages
    BY DEF Stages
  <2>3. Queued'
    <3> HIDE DEF s
    <3>1. s # "record" /\ s # "killed"
      BY <2>2
    <3> QED BY <1>0, <2>1, <2>2, <3>1, GoesQueued DEF Steady
  <2>4. stage' = s
    BY <2>1 DEF Goes
  <2>5. PICK t \in Partials : /\ t = <<>> \/ broken
                              /\ Ends(file', Position', H(Stats) \o Stream(written) \o t \o <<TRAILER>>)
    BY <1>4
  <2> DEFINE u == t \o <<TRAILER>>
  <2>6. /\ t \in Seq(Nat) /\ u \in Tails /\ (u = <<TRAILER>> \/ broken)
    BY <2>5, TailFacts
  <2>7. Padded(file', H(Stats) \o Stream(written) \o u)
    <3>1. H(Stats) \o Stream(written) \in Seq(Nat) /\ <<TRAILER>> \in Seq(Nat)
      BY <1>0, <1>1, <2>6, HeldBytes, FieldsOfMethods
    <3>2. H(Stats) \o Stream(written) \o t \o <<TRAILER>> = H(Stats) \o Stream(written) \o u
      BY <2>6, <3>1, Associates
    <3> QED BY <2>5, <3>2 DEF Ends
  <2> HIDE DEF u
  <2>8. OfRewind'
    <3> SUFFICES ASSUME Streaming
                 PROVE  \E v \in Tails : (v = <<TRAILER>> \/ broken) /\ Padded(file', H(0) \o Stream(written) \o v)
      BY <1>1, <2>1, <2>4 DEF OfRewind, Holds
    <3>1. Stats = 0
      BY DEF Stats
    <3> QED BY <2>6, <2>7, <3>1
  <2>9. OfEnd'
    <3> SUFFICES ASSUME ~Streaming
                 PROVE  (broken' /\ LeftIn(file)') \/ Holds(file, 1, <<TRAILER>>)'
      BY <2>2, <2>4 DEF OfEnd
    <3>1. Stats = 1
      BY DEF Stats
    <3>2. CASE u = <<TRAILER>>
      BY <2>1, <2>7, <3>1, <3>2 DEF Holds
    <3>3. CASE broken
      <4> QED BY <2>1, <2>6, <2>7, <3>1, <3>3, <1>6, Zenon DEF LeftIn, Clean, Holds
    <3> QED BY <2>6, <3>2, <3>3
  <2>10. OfHeader' /\ OfTracking' /\ OfRecord' /\ OfTrailer' /\ OfFinalHeader'
    BY <2>2, <2>4 DEF OfHeader, OfTracking, OfRecord, OfTrailer, OfFinalHeader
  <2> QED BY <2>3, <2>8, <2>9, <2>10 DEF Contents
<1>5. CASE stage = "final header"
  <2>1. Goes("closing", kept) /\ written' = written
    BY <1>5 DEF Completes
  <2>2. "closing" \in Stages
    BY DEF Stages
  <2>3. Queued'
    BY <1>0, <2>1, <2>2, GoesQueued DEF Steady
  <2>4. stage' = "closing"
    BY <2>1 DEF Goes
  <2>5. PICK t \in Tails : (t = <<TRAILER>> \/ broken) /\ Holds(file', 1, t)
    BY <1>5
  <2>6. OfEnd'
    <3> SUFFICES (broken' /\ LeftIn(file)') \/ Holds(file, 1, <<TRAILER>>)'
      BY <2>4 DEF OfEnd
    <3>1. CASE t = <<TRAILER>>
      BY <2>1, <2>5, <3>1 DEF Holds
    <3>2. CASE broken
      <4> QED BY <2>1, <2>5, <3>2, <1>6, Zenon DEF LeftIn, Clean, Holds
    <3> QED BY <2>5, <3>1, <3>2
  <2>7. OfHeader' /\ OfTracking' /\ OfRecord' /\ OfTrailer' /\ OfRewind' /\ OfFinalHeader'
    BY <2>4 DEF OfHeader, OfTracking, OfRecord, OfTrailer, OfRewind, OfFinalHeader
  <2> QED BY <2>3, <2>6, <2>7 DEF Contents
<1> QED BY <1>2, <1>3, <1>4, <1>5 DEF WritingStages

\* What is left stays so when a write fails.
LEMMA LeftStays ==
    ASSUME NEW f, LeftIn(f), file' = f, written' = written, broken' = TRUE \/ broken' = broken
    PROVE  LeftIn(file)'
<1>1. CASE written = <<>> /\ \E b \in 0..1, n \in 0..2 : Padded(f, SubSeq(H(b), 1, n))
  BY <1>1 DEF LeftIn
<1>2. CASE \E b \in 0..1, t \in Tails : Clean(t) /\ Holds(f, b, t)
  <2>1. PICK b \in 0..1, t \in Tails : Clean(t) /\ Padded(f, H(b) \o Stream(written) \o t)
    BY <1>2 DEF Holds
  <2>2. Clean(t)'
    BY <2>1, Zenon DEF Clean
  <2>3. Holds(file, b, t)'
    BY <2>1 DEF Holds
  <2> QED BY <2>2, <2>3, Zenon DEF LeftIn
<1> QED BY <1>1, <1>2, Zenon DEF LeftIn

\* It closes the file, with what was left by a failure.
LEMMA ClosingHolds ==
    ASSUME WInv, Steady, Goes("closing", kept), broken' = TRUE, written' = written, file' = file
    PROVE  Queued' /\ Contents'
<1>1. /\ Queued /\ kept \in Seq(Records) /\ written \in Seq(Records) /\ lz4 = FALSE /\ killed = FALSE
      /\ "closing" \in Stages
  BY DEF WInv, Queued, Steady, Stages
<1>2. Queued'
  BY <1>1, GoesQueued DEF Steady
<1>3. LeftIn(file)'
  BY LeftAtAnyTime, LeftStays, Zenon
<1>4. stage' = "closing"
  BY DEF Goes
<1>5. OfEnd'
  BY <1>3, <1>4 DEF OfEnd
<1>6. OfHeader' /\ OfTracking' /\ OfRecord' /\ OfTrailer' /\ OfRewind' /\ OfFinalHeader'
  BY <1>4 DEF OfHeader, OfTracking, OfRecord, OfTrailer, OfRewind, OfFinalHeader
<1> QED BY <1>2, <1>5, <1>6 DEF Contents

\* A method that could not.
LEMMA FailsHolds ==
    ASSUME WInv, Steady, stage \in WritingStages \cup {"rewind"}, Fails, file' = file, Position' = Position
    PROVE  Queued' /\ Contents'
<1>0. /\ Queued /\ written \in Seq(Records) /\ kept \in Seq(Records)
      /\ killed = FALSE /\ lz4 = FALSE
  BY DEF WInv, Queued, Steady
<1>1. Stats' = Stats /\ (Streaming' <=> Streaming) /\ Stats \in Nat
  BY SteadyStats, StatsAre
<1>2. broken' = TRUE /\ written' = written
  BY DEF Fails
<1>3. CASE Goes("closing", kept)
  BY <1>2, <1>3, ClosingHolds
<1>4. CASE stage = "record" /\ Goes("tracking", kept) /\ Streaming
  <2>1. kept # <<>> /\ Does(file, Position, todo, H(Stats) \o Stream(written), Bytes(Head(kept)))
    BY <1>4 DEF WInv, Contents, OfRecord, Doing
  <2>2. Head(kept) \in Records
    BY <1>0, <2>1, TailOfKept
  <2>3. PICK t \in Partials : Ends(file, Position, H(Stats) \o Stream(written) \o t)
    BY <2>1, <2>2, LeavesRecord
  <2>4. Stats = 0 /\ "tracking" \in Stages
    BY <1>4 DEF Stats, Stages
  <2>5. stage' = "tracking"
    BY <1>4 DEF Goes
  <2>6. OfTracking'
    <3>1. Ends(file', Position', H(0) \o Stream(written') \o t)
      BY <1>2, <2>3, <2>4
    <3> QED BY <1>1, <1>2, <1>4, <3>1 DEF OfTracking, At
  <2>7. Queued'
    BY <1>0, <1>2, <1>4, <2>4, GoesQueued DEF Steady
  <2>8. OfHeader' /\ OfRecord' /\ OfTrailer' /\ OfRewind' /\ OfFinalHeader' /\ OfEnd'
    BY <2>5 DEF OfHeader, OfRecord, OfTrailer, OfRewind, OfFinalHeader, OfEnd
  <2> QED BY <2>6, <2>7, <2>8 DEF Contents
<1>5. CASE stage = "record" /\ Goes("trailer", kept)
  <2>1. kept # <<>> /\ Does(file, Position, todo, H(Stats) \o Stream(written), Bytes(Head(kept)))
    BY <1>5 DEF WInv, Contents, OfRecord, Doing
  <2>2. Head(kept) \in Records /\ "trailer" \in Stages
    BY <1>0, <2>1, TailOfKept DEF Stages, WritingStages
  <2>3. PICK t \in Partials : Ends(file, Position, H(Stats) \o Stream(written) \o t)
    BY <2>1, <2>2, LeavesRecord
  <2>5. stage' = "trailer" /\ todo' = <<<<TRAILER>>>>
    BY <1>0, <1>5, <2>2, FieldsOf DEF Goes
  <2>6. OfTrailer'
    <3>1. Ends(file', Position', H(Stats') \o Stream(written') \o t)
      BY <1>1, <1>2, <2>3
    <3> QED BY <1>2, <2>5, <3>1 DEF OfTrailer, At
  <2>7. Queued'
    BY <1>0, <1>2, <1>5, <2>2, GoesQueued DEF Steady
  <2>8. OfHeader' /\ OfTracking' /\ OfRecord' /\ OfRewind' /\ OfFinalHeader' /\ OfEnd'
    BY <2>5 DEF OfHeader, OfTracking, OfRecord, OfRewind, OfFinalHeader, OfEnd
  <2> QED BY <2>6, <2>7, <2>8 DEF Contents
<1>6. CASE stage = "trailer" /\ Goes("rewind", kept) /\ Streaming
  <2>1. PICK t \in Partials : Ends(file, Position, H(Stats) \o Stream(written) \o t)
    BY <1>6 DEF WInv, Contents, OfTrailer, At
  <2>2. t \in Tails /\ Stats = 0 /\ "rewind" \in Stages
    BY <1>6, TailFacts DEF Stats, Stages
  <2>3. stage' = "rewind"
    BY <1>6 DEF Goes
  <2>4. OfRewind'
    <3>1. Padded(file', H(0) \o Stream(written') \o t)
      BY <1>2, <2>1, <2>2 DEF Ends
    <3> QED BY <1>1, <1>2, <1>6, <2>2, <3>1 DEF OfRewind, Holds
  <2>5. Queued'
    BY <1>0, <1>2, <1>6, <2>2, GoesQueued DEF Steady
  <2>6. OfHeader' /\ OfTracking' /\ OfRecord' /\ OfTrailer' /\ OfFinalHeader' /\ OfEnd'
    BY <2>3 DEF OfHeader, OfTracking, OfRecord, OfTrailer, OfFinalHeader, OfEnd
  <2> QED BY <2>4, <2>5, <2>6 DEF Contents
<1> QED BY <1>3, <1>4, <1>5, <1>6 DEF Fails, WritingStages

\* The writer writes a record, or keeps it.
LEMMA WriteRecordHolds ==
    ASSUME WInv, NEW r \in Records, WriteRecord(r)
    PROVE  WInv'
<1>0. /\ Queued /\ Placed /\ written \in Seq(Records) /\ kept \in Seq(Records) /\ broken = FALSE
      /\ killed = FALSE /\ lz4 = FALSE /\ stage = "tracking"
  BY DEF WInv, Queued, WriteRecord
<1>1. Steady /\ broken' = broken /\ written' = written /\ file' = file /\ Position' = Position
  BY <1>0 DEF Steady, WriteRecord, sink, reader, Position
<1>2. Stats' = Stats /\ (Streaming' <=> Streaming) /\ Stats \in Nat
  BY <1>1, SteadyStats, StatsAre
<1>3. Placed'
  BY <1>0, <1>1 DEF Placed, Paged, WriteRecord, sink
<1>4. CASE Streaming
  <2> DEFINE k == <<r>>
  <2>1. Goes("record", k) /\ k \in Seq(Records) /\ k # <<>> /\ Head(k) = r /\ "record" \in Stages
    BY <1>4 DEF WriteRecord, Stages, WritingStages
  <2> HIDE DEF k
  <2>2. Queued'
    BY <1>0, <1>1, <2>1, GoesQueued DEF Steady
  <2>3. stage' = "record" /\ kept' = k /\ todo' = Fields("record", k)
    BY <2>1 DEF Goes
  <2>4. Ends(file, Position, H(0) \o Stream(written))
    <3>1. Ends(file, Position, H(0) \o Stream(written) \o <<>>)
      BY <1>0, <1>4 DEF WInv, Contents, OfTracking, At
    <3>2. H(0) \o Stream(written) \in Seq(Nat)
      BY <1>0, HeldBytes, EmptySeq
    <3>3. H(0) \o Stream(written) \o <<>> = H(0) \o Stream(written)
      BY <3>2, ConcatEmptySeq
    <3> QED BY <3>1, <3>3
  <2>5. Stats = 0
    BY <1>4 DEF Stats
  <2>6. OfRecord'
    <3>1. Bytes(todo') = Bytes(r)
      BY <2>1, <2>3, FieldsOf
    <3>2. Bytes(r) \in Seq(Nat) /\ Len(Bytes(r)) > 0
      <4> DEFINE n == Len(Bytes(r))
      <4>1. Bytes(r) \in Seq(Nat) /\ n \in 2..3
        BY RecordFields
      <4> HIDE DEF n
      <4>2. n > 0
        BY <4>1
      <4> QED BY <4>1, <4>2 DEF n
    <3>3. H(0) \o Stream(written) \in Seq(Nat)
      BY <1>0, HeldBytes, EmptySeq
    <3>4. Ends(file', Position', H(0) \o Stream(written))
      BY <1>1, <2>4
    <3>5. Does(file', Position', todo', H(0) \o Stream(written), Bytes(r))
      BY <3>1, <3>2, <3>3, <3>4, Begins
    <3>6. Does(file', Position', todo', H(Stats') \o Stream(written'), Bytes(Head(kept')))
      BY <1>1, <1>2, <2>1, <2>3, <2>5, <3>5
    <3> QED BY <1>0, <1>1, <2>1, <2>3, <3>6 DEF OfRecord, Doing
  <2>7. OfHeader' /\ OfTracking' /\ OfTrailer' /\ OfRewind' /\ OfFinalHeader' /\ OfEnd'
    BY <2>3 DEF OfHeader, OfTracking, OfTrailer, OfRewind, OfFinalHeader, OfEnd
  <2> QED BY <1>3, <2>2, <2>6, <2>7 DEF Contents, WInv
<1>5. CASE ~Streaming
  <2>1. Goes("tracking", Append(kept, r)) /\ Append(kept, r) \in Seq(Records) /\ "tracking" \in Stages
    BY <1>0, <1>5, AppendProperties DEF WriteRecord, Stages
  <2>2. Queued'
    BY <1>0, <1>1, <2>1, GoesQueued DEF Steady
  <2>3. stage' = "tracking"
    BY <2>1 DEF Goes
  <2>4. OfTracking'
    <3>1. written = <<>> /\ Ends(file, Position, <<>>)
      BY <1>0, <1>5 DEF WInv, Contents, OfTracking, At
    <3> QED BY <1>0, <1>1, <1>2, <1>5, <3>1 DEF OfTracking, At
  <2>5. OfHeader' /\ OfRecord' /\ OfTrailer' /\ OfRewind' /\ OfFinalHeader' /\ OfEnd'
    BY <2>3 DEF OfHeader, OfRecord, OfTrailer, OfRewind, OfFinalHeader, OfEnd
  <2> QED BY <1>3, <2>2, <2>4, <2>5 DEF Contents, WInv
<1> QED BY <1>4, <1>5

\* The tracker is destroyed.
LEMMA StopHolds ==
    ASSUME WInv, Stop
    PROVE  WInv'
<1>0. /\ Queued /\ Placed /\ written \in Seq(Records) /\ kept \in Seq(Records)
      /\ killed = FALSE /\ lz4 = FALSE /\ stage = "tracking"
  BY DEF WInv, Queued, Stop
<1>1. Steady /\ broken' = broken /\ written' = written /\ file' = file /\ Position' = Position
  BY <1>0 DEF Steady, Stop, sink, reader, Position
<1>2. Stats' = Stats /\ (Streaming' <=> Streaming) /\ Stats \in Nat
  BY <1>1, SteadyStats, StatsAre
<1>3. Placed'
  BY <1>0, <1>1 DEF Placed, Paged, Stop, sink
<1> DEFINE s == IF Streaming THEN "trailer" ELSE "header"
<1>4. Goes(s, kept) /\ s \in Stages /\ s # "record" /\ s # "killed"
  BY DEF Stop, Stages, WritingStages
<1>5. Queued'
  <2> HIDE DEF s
  <2> QED BY <1>0, <1>1, <1>4, GoesQueued DEF Steady, Queued
<1>6. stage' = s /\ kept' = kept /\ todo' = Fields(s, kept)
  BY <1>4 DEF Goes
<1>7. OfTrailer'
  <2> SUFFICES ASSUME Streaming PROVE OfTrailer'
    BY <1>6 DEF OfTrailer
  <2>1. PICK t \in Partials : (t = <<>> \/ broken) /\ Ends(file, Position, H(0) \o Stream(written) \o t)
    BY <1>0 DEF WInv, Contents, OfTracking, At
  <2>2. Stats' = 0
    BY <1>2 DEF Stats
  <2>3. Ends(file', Position', H(Stats') \o Stream(written') \o t)
    BY <1>1, <2>1, <2>2
  <2>4. todo' = <<<<TRAILER>>>>
    BY <1>0, <1>4, <1>6, FieldsOf
  <2> QED BY <1>1, <2>1, <2>3, <2>4 DEF OfTrailer, At
<1>8. OfHeader'
  <2> SUFFICES ASSUME ~Streaming PROVE OfHeader'
    BY <1>6 DEF OfHeader
  <2>1. ~broken /\ written = <<>> /\ Ends(file, Position, <<>>)
    BY <1>0 DEF WInv, Contents, OfTracking, At
  <2>2. Bytes(todo') = H(Stats)
    BY <1>0, <1>4, <1>6, FieldsOf
  <2>3. H(Stats) \in Seq(Nat) /\ Len(H(Stats)) > 0 /\ <<>> \in Seq(Nat)
    <3>1. H(Stats) \in Seq(Nat) /\ Len(H(Stats)) = 3 /\ <<>> \in Seq(Nat)
      BY <1>2, HeaderAt, EmptySeq
    <3>2. 3 > 0
      OBVIOUS
    <3> QED BY <3>1, <3>2, Zenon
  <2>4. Ends(file', Position', <<>>)
    BY <1>1, <2>1
  <2>5. Does(file', Position', todo', <<>>, H(Stats))
    BY <2>2, <2>3, <2>4, Begins
  <2> QED BY <1>1, <1>2, <2>1, <2>5 DEF OfHeader, Doing
<1>9. OfTracking' /\ OfRecord' /\ OfRewind' /\ OfFinalHeader' /\ OfEnd'
  BY <1>6 DEF OfTracking, OfRecord, OfRewind, OfFinalHeader, OfEnd
<1> QED BY <1>3, <1>5, <1>7, <1>8, <1>9 DEF Contents, WInv

\* Whatever bytes a file begins with, another file begins with them.
Follows(f, g) == \A c \in Seq(Nat) : Padded(f, c) => Padded(g, c)

\* What a method does is the same in such a file.
LEMMA DoesFollows ==
    ASSUME NEW f, NEW g, Follows(f, g), NEW position, NEW q, NEW base \in Seq(Nat), NEW all \in Seq(Nat),
           Does(f, position, q, base, all)
    PROVE  Does(g, position, q, base, all)
<1>1. PICK n \in 0..(Len(all) - 1) :
        /\ Bytes(q) = SubSeq(all, n + 1, Len(all))
        /\ Ends(f, position, base \o SubSeq(all, 1, n))
  BY DEF Does
<1>2. n \in 0..Len(all)
  OBVIOUS
<1>3. base \o SubSeq(all, 1, n) \in Seq(Nat)
  BY <1>2, PartFacts
<1>4. Ends(g, position, base \o SubSeq(all, 1, n))
  BY <1>1, <1>3, Zenon DEF Follows, Ends
<1> QED BY <1>1, <1>4, Zenon DEF Does

\* Between two bytes that are written, the file grows and the window moves.
LEMMA ContentsFollow ==
    ASSUME WInv, stage \in WritingStages, Follows(file, file'), Position' = Position,
           UNCHANGED <<format, stage, todo, kept, written, broken>>
    PROVE  Contents'
<1>0. written \in Seq(Records) /\ kept \in Seq(Records)
  BY DEF WInv, Queued
<1>1. Stats' = Stats /\ (Streaming' <=> Streaming) /\ Stats \in Nat
  BY StatsAre DEF Stats, Streaming
<1>2. H(Stats) \in Seq(Nat) /\ H(Stats) \o Stream(written) \in Seq(Nat) /\ <<>> \in Seq(Nat)
  BY <1>0, <1>1, HeldBytes, EmptySeq
<1>3. OfHeader'
  <2> SUFFICES ASSUME stage = "header" PROVE OfHeader'
    BY DEF OfHeader
  <2>1. ~broken /\ written = <<>> /\ Does(file, Position, todo, <<>>, H(Stats))
    BY DEF WInv, Contents, OfHeader, Doing
  <2>2. Does(file', Position, todo, <<>>, H(Stats))
    BY <1>2, <2>1, DoesFollows
  <2> QED BY <1>1, <2>1, <2>2 DEF OfHeader, Doing
<1>4. OfRecord'
  <2> SUFFICES ASSUME stage = "record" PROVE OfRecord'
    BY DEF OfRecord
  <2>1. /\ ~broken /\ kept # <<>>
        /\ Does(file, Position, todo, H(Stats) \o Stream(written), Bytes(Head(kept)))
    BY DEF WInv, Contents, OfRecord, Doing
  <2>2. Bytes(Head(kept)) \in Seq(Nat)
    BY <1>0, <2>1, TailOfKept, RecordFields
  <2>3. Does(file', Position, todo, H(Stats) \o Stream(written), Bytes(Head(kept)))
    BY <1>2, <2>1, <2>2, DoesFollows
  <2> QED BY <1>1, <2>1, <2>3 DEF OfRecord, Doing
<1>5. OfTrailer'
  <2> SUFFICES ASSUME stage = "trailer" PROVE OfTrailer'
    BY DEF OfTrailer
  <2>1. PICK t \in Partials : (t = <<>> \/ broken) /\ Ends(file, Position, H(Stats) \o Stream(written) \o t)
    BY DEF WInv, Contents, OfTrailer, At
  <2>2. H(Stats) \o Stream(written) \o t \in Seq(Nat)
    BY <1>0, <1>1, HeldBytes, TailFacts
  <2>3. Ends(file', Position, H(Stats) \o Stream(written) \o t)
    BY <2>1, <2>2, Zenon DEF Follows, Ends
  <2>4. todo = <<<<TRAILER>>>>
    BY DEF WInv, Contents, OfTrailer
  <2> QED BY <1>1, <2>1, <2>3, <2>4 DEF OfTrailer, At
<1>6. OfFinalHeader'
  <2> SUFFICES ASSUME stage = "final header" PROVE OfFinalHeader'
    BY DEF OfFinalHeader
  <2>1. PICK t \in Tails, n \in 0..2 :
              /\ t = <<TRAILER>> \/ broken
              /\ Position = n /\ Bytes(todo) = SubSeq(H(1), n + 1, 3)
              /\ Holds(file, IF n = 2 THEN 1 ELSE 0, t)
    BY DEF WInv, Contents, OfFinalHeader
  <2> DEFINE b == IF n = 2 THEN 1 ELSE 0
  <2>2. b \in Nat /\ t \in Seq(Nat)
    BY TailFacts
  <2>3. Padded(file', H(b) \o Stream(written) \o t)
    <3>1. Padded(file, H(b) \o Stream(written) \o t)
      BY <2>1 DEF Holds
    <3> HIDE DEF b
    <3>2. H(b) \o Stream(written) \o t \in Seq(Nat)
      BY <1>0, <2>2, HeldBytes
    <3> QED BY <3>1, <3>2 DEF Follows
  <2>4. Streaming
    BY DEF WInv, Contents, OfFinalHeader
  <2>5. Position' = n /\ Bytes(todo') = SubSeq(H(1), n + 1, 3) /\ (t = <<TRAILER>> \/ broken')
    BY <2>1
  <2>6. Padded(file', H(b) \o Stream(written') \o t)
    BY <2>3
  <2> QED BY <1>1, <2>4, <2>5, <2>6 DEF OfFinalHeader, Holds
<1>7. OfTracking' /\ OfRewind' /\ OfEnd'
  BY DEF OfTracking, OfRewind, OfEnd, WritingStages
<1> QED BY <1>3, <1>4, <1>5, <1>6, <1>7 DEF Contents

\* The file grows, or does not.
LEMMA GrowHolds ==
    ASSUME WInv, Grow
    PROVE  WInv'
<1>0. /\ Queued /\ Placed /\ killed = FALSE /\ lz4 = FALSE /\ stage \in WritingStages
      /\ stage \notin {"closed", "killed"} /\ Writing /\ NeedsToGrow
  BY DEF WInv, Queued, Grow, Writing, WritingStages
<1>1. Steady /\ Position' = Position
  BY <1>0 DEF Steady, Grow, reader, Position
<1>2. CASE file' = file \o Zeros(NewSize - Len(file)) /\ UNCHANGED <<stage, todo, kept, written, faults, broken>>
  <2> DEFINE n == NewSize - Len(file)
  <2>1. n \in Nat /\ Paged(NewSize) /\ NewSize \in Nat /\ file \in Seq(Nat) /\ Len(file) \in Nat
    BY <1>0, GrownFacts DEF Placed
  <2>2. Len(file) + n = NewSize
    BY <2>1
  <2> HIDE DEF n
  <2>3. file' = file \o Zeros(n)
    BY <1>2 DEF n
  <2>4. file' \in Seq(Nat) /\ Len(file') = NewSize
    <3>1. Zeros(n) \in Seq(Nat) /\ Len(Zeros(n)) = n
      BY <2>1 DEF Zeros
    <3> QED BY <2>1, <2>2, <2>3, <3>1, ConcatProperties
  <2>5. Follows(file, file')
    BY <2>1, <2>3, PaddedGrows DEF Follows
  <2>6. Placed'
    <3>1. /\ UNCHANGED <<window, d_bufferOffset, needle, end>>
      BY DEF Grow
    <3>2. /\ file \in Seq(Nat) /\ window \in {"none", "mapped", "stale"}
          /\ Paged(d_bufferOffset) /\ Paged(end)
          /\ d_bufferOffset \in Nat /\ end \in Nat /\ needle \in 0..end /\ end <= BUFFER_SIZE
          /\ d_bufferOffset + end <= Len(file)
      BY <1>0 DEF Placed
    <3>3. d_bufferOffset + end <= Len(file')
      <4> DEFINE l == Len(file)
      <4>1. l \in Nat /\ NewSize = l + n /\ n \in Nat /\ d_bufferOffset + end <= l
        BY <2>1, <2>2, <3>2
      <4> HIDE DEF l
      <4> QED BY <2>4, <3>2, <4>1
    <3>4. Paged(Len(file'))
      BY <2>1, <2>4
    <3> QED BY <2>4, <3>1, <3>2, <3>3, <3>4 DEF Placed, Paged
  <2>7. Contents'
    BY <1>0, <1>1, <1>2, <2>5, ContentsFollow DEF Grow
  <2>8. Queued'
    BY <1>0, <1>2 DEF Queued, AreFields, Grow, reader
  <2> QED BY <2>6, <2>7, <2>8 DEF WInv
<1>3. CASE Happens /\ Fails /\ UNCHANGED file
  <2>1. Queued' /\ Contents'
    BY <1>0, <1>1, <1>3, FailsHolds
  <2>2. Placed'
    BY <1>0, <1>3 DEF Placed, Paged, Grow
  <2> QED BY <2>1, <2>2 DEF WInv
<1> QED BY <1>2, <1>3 DEF Grow

\* A window that is mapped at a page of the file, or of which nothing changes.
LEMMA MapsFacts ==
    ASSUME Placed, UNCHANGED file, NEW offset \in Nat, Paged(offset), offset <= Len(file), Maps(offset)
    PROVE  Placed' /\ Position' = offset
<1> DEFINE l == Len(file)
           m == Least(l - offset, BUFFER_SIZE)
<1>1. l \in Nat /\ Paged(l) /\ file \in Seq(Nat) /\ offset <= l
  BY DEF Placed
<1>2. Paged(l - offset) /\ Paged(BUFFER_SIZE) /\ BUFFER_SIZE \in Nat
  BY <1>1, PagedSums, PagedConstants
<1>3. window' = "mapped" /\ d_bufferOffset' = offset /\ needle' = 0 /\ end' = m
  BY DEF Maps
<1> HIDE DEF l
<1>4. m \in Nat /\ m <= BUFFER_SIZE /\ offset + m <= l /\ 0 \in 0..m
  BY <1>1, <1>2 DEF Least
<1>5. Paged(m)
  BY <1>2 DEF Least
<1> HIDE DEF m
<1>6. Placed'
  BY <1>1, <1>3, <1>4, <1>5 DEF Placed, Paged, l
<1>7. Position' = offset
  BY <1>3 DEF Position
<1> QED BY <1>6, <1>7

\* A step that maps no other part of the file leaves the next byte where it is.
LEMMA DoesNotMapFacts ==
    ASSUME Placed, UNCHANGED file, DoesNotMap
    PROVE  Placed' /\ Position' = Position
<1>1. window' \in {"none", "mapped", "stale"}
  BY DEF DoesNotMap
<1> QED BY <1>1 DEF Placed, Paged, Position, DoesNotMap

\* The window slides, or is lost.
LEMMA SlideHolds ==
    ASSUME WInv, Slide
    PROVE  WInv'
<1>0. /\ Queued /\ Placed /\ killed = FALSE /\ lz4 = FALSE /\ stage \in WritingStages
      /\ stage \notin {"closed", "killed"} /\ needle = end /\ file' = file
  BY DEF WInv, Queued, Slide, Writing, WritingStages
<1>1. Steady
  BY <1>0 DEF Steady, Slide, reader
<1>2. CASE Maps(d_bufferOffset + end) /\ UNCHANGED <<stage, todo, kept, written, faults, broken>>
  <2> DEFINE offset == d_bufferOffset + end
  <2>1. offset \in Nat /\ Paged(offset) /\ offset <= Len(file) /\ offset = Position
    <3> DEFINE l == Len(file)
    <3>1. /\ d_bufferOffset \in Nat /\ end \in Nat /\ d_bufferOffset + end <= l /\ needle = end
          /\ Paged(d_bufferOffset) /\ Paged(end)
      BY <1>0 DEF Placed
    <3> HIDE DEF l
    <3>2. Paged(offset)
      BY <3>1, PagedSums
    <3>3. offset \in Nat /\ offset <= l /\ offset = Position
      BY <3>1 DEF Position
    <3> QED BY <3>2, <3>3 DEF l
  <2> HIDE DEF offset
  <2>2. Placed' /\ Position' = Position
    BY <1>0, <1>2, <2>1, MapsFacts DEF offset
  <2>3. Follows(file, file')
    BY <1>0 DEF Follows
  <2>4. Contents'
    BY <1>0, <1>2, <2>2, <2>3, ContentsFollow DEF Slide
  <2>5. Queued'
    BY <1>0, <1>2 DEF Queued, AreFields, Slide, reader
  <2> QED BY <2>2, <2>4, <2>5 DEF WInv
<1>3. CASE Happens /\ DoesNotMap /\ Fails
  <2>1. Placed' /\ Position' = Position
    BY <1>0, <1>3, DoesNotMapFacts
  <2>2. Queued' /\ Contents'
    BY <1>0, <1>1, <1>3, <2>1, FailsHolds
  <2> QED BY <2>1, <2>2 DEF WInv
<1> QED BY <1>2, <1>3 DEF Slide

\* The process ends.
LEMMA EndsHolds ==
    ASSUME WInv, stage \notin {"closed", "killed"}, Goes("killed", kept), killed' = TRUE, LeftIn(file'),
           UNCHANGED <<written, broken, lz4, rstate>>
    PROVE  Queued' /\ Contents'
<1>1. /\ Queued /\ kept \in Seq(Records) /\ written \in Seq(Records) /\ broken \in BOOLEAN /\ lz4 = FALSE
      /\ "killed" \in Stages
  BY DEF WInv, Queued, Stages
<1>2. Queued'
  BY <1>1, GoesQueued
<1>3. LeftIn(file)'
  BY LeftStays, Zenon
<1>4. stage' = "killed"
  BY DEF Goes
<1>5. OfEnd'
  BY <1>3, <1>4 DEF OfEnd
<1>6. OfHeader' /\ OfTracking' /\ OfRecord' /\ OfTrailer' /\ OfRewind' /\ OfFinalHeader'
  BY <1>4 DEF OfHeader, OfTracking, OfRecord, OfTrailer, OfRewind, OfFinalHeader
<1> QED BY <1>2, <1>5, <1>6 DEF Contents

\* The window is where no file is.
LEMMA SlideAstrayHolds ==
    ASSUME WInv, SlideAstray
    PROVE  WInv'
<1>0. /\ Queued /\ Placed /\ stage \in WritingStages
      /\ stage \notin {"closed", "killed"} /\ file' = file /\ Position' = Position
      /\ UNCHANGED <<lz4, rstate, format>>
  BY DEF WInv, Queued, SlideAstray, Writing, WritingStages, sink, reader, Position
<1>1. Placed'
  BY <1>0 DEF Placed, Paged, SlideAstray, sink
<1>2. CASE Fails /\ UNCHANGED killed
  <2>1. Queued' /\ Contents'
    BY <1>0, <1>2, FailsHolds DEF Steady
  <2> QED BY <1>1, <2>1 DEF WInv
<1>3. CASE Goes("killed", kept) /\ killed' = TRUE /\ UNCHANGED <<written, broken>>
  <2>1. LeftIn(file')
    BY <1>0, LeftAtAnyTime
  <2>2. Queued' /\ Contents'
    BY <1>0, <1>3, <2>1, EndsHolds
  <2> QED BY <1>1, <2>2 DEF WInv
<1> QED BY <1>2, <1>3 DEF SlideAstray

\* Between any two bytes.
LEMMA KillHolds ==
    ASSUME WInv, Kill
    PROVE  WInv'
<1>0. Placed /\ Queued
  BY DEF WInv
<1>1. LeftIn(file') /\ file' \in Seq(Nat) /\ Len(file') = Len(file)
  <2>1. CASE file' = file
    BY <2>1, LeftAtAnyTime DEF WInv, Placed
  <2>2. CASE /\ Writing
             /\ \E n \in 1..(Least(end - needle, Len(Head(todo))) - 1) : file' = Copied(n)
    <3>1. PICK n \in 1..(Least(end - needle, Len(Head(todo))) - 1) : file' = Copied(n)
      BY <2>2
    <3> DEFINE l == Len(Head(todo))
    <3>2. l \in Nat /\ end \in Nat /\ needle \in 0..end
      BY <1>0, <2>2, FieldFacts DEF Placed
    <3> HIDE DEF l
    <3>3. n \in 1..(Least(end - needle, l) - 1)
      BY DEF l
    <3>4. n \in 1..(l - 1) /\ needle + n <= end /\ n \in Nat /\ n <= l
      BY <3>2, <3>3 DEF Least
    <3>5. Position + n <= Len(file)
      BY <1>0, <3>4, Room
    <3>6. n \in 1..(Len(Head(todo)) - 1) /\ n <= Len(Head(todo))
      BY <3>4 DEF l
    <3>7. LeftIn(Copied(n))
      BY <2>2, <3>5, <3>6, KilledMidway
    <3>8. Copied(n) \in Seq(Nat) /\ Len(Copied(n)) = Len(file)
      BY <1>0, <2>2, <3>4, <3>5, <3>6, CopiedFacts
    <3> QED BY <3>1, <3>7, <3>8
  <2> QED BY <2>1, <2>2 DEF Kill
<1>2. Queued' /\ Contents'
  BY <1>1, EndsHolds DEF Kill, reader
<1>3. Placed'
  BY <1>0, <1>1 DEF Placed, Paged, Kill
<1> QED BY <1>2, <1>3 DEF WInv

\* The header is to be written again.
LEMMA RewindHolds ==
    ASSUME WInv, Rewind
    PROVE  WInv'
<1>0. /\ Queued /\ Placed /\ killed = FALSE /\ lz4 = FALSE /\ stage = "rewind"
      /\ file' = file /\ kept \in Seq(Records) /\ written \in Seq(Records)
  BY DEF WInv, Queued, Rewind
<1>1. Steady
  BY <1>0 DEF Steady, Rewind, reader
<1>2. CASE Maps(0) /\ Goes("final header", kept) /\ UNCHANGED <<written, faults, broken>>
  <2>1. 0 \in Nat /\ Paged(0) /\ 0 <= Len(file)
    <3>1. Len(file) \in Nat
      BY <1>0 DEF Placed
    <3>2. 0 <= Len(file) /\ 0 \in Nat
      BY <3>1
    <3> QED BY <3>2, PagedConstants
  <2>2. Placed' /\ Position' = 0
    BY <1>0, <1>2, <2>1, MapsFacts
  <2>3. "final header" \in Stages
    BY DEF Stages, WritingStages
  <2>4. Queued'
    BY <1>0, <1>1, <1>2, <2>3, GoesQueued DEF Steady, Queued
  <2>5. stage' = "final header" /\ Bytes(todo') = H(1)
    BY <1>0, <1>2, <2>3, FieldsOf DEF Goes
  <2>6. OfFinalHeader'
    <3>1. PICK t \in Tails : (t = <<TRAILER>> \/ broken) /\ Holds(file, 0, t)
      BY <1>0 DEF WInv, Contents, OfRewind
    <3> DEFINE n == 0
    <3>2. Position' = n /\ (IF n = 2 THEN 1 ELSE 0) = 0 /\ n \in 0..2 /\ n + 1 = 1
      BY <2>2
    <3>3. SubSeq(H(1), 1, 3) = H(1)
      <4>1. H(1) \in Seq(Nat) /\ Len(H(1)) = 3
        BY HeaderAt, EmptySeq
      <4> QED BY <4>1, SubSeqFull
    <3>4. Padded(file', H(0) \o Stream(written') \o t)
      BY <1>0, <1>2, <3>1 DEF Holds
    <3>5. Streaming'
      BY <1>0, <1>1 DEF WInv, Contents, OfRewind, Steady, Streaming
    <3> HIDE DEF n
    <3>6. Bytes(todo') = SubSeq(H(1), n + 1, 3)
      BY <2>5, <3>2, <3>3
    <3>7. Padded(file', H(IF n = 2 THEN 1 ELSE 0) \o Stream(written') \o t)
      BY <3>2, <3>4
    <3>8. t = <<TRAILER>> \/ broken'
      BY <1>2, <3>1
    <3> QED BY <3>2, <3>5, <3>6, <3>7, <3>8, Zenon DEF OfFinalHeader, Holds
  <2>7. OfHeader' /\ OfTracking' /\ OfRecord' /\ OfTrailer' /\ OfRewind' /\ OfEnd'
    BY <2>5 DEF OfHeader, OfTracking, OfRecord, OfTrailer, OfRewind, OfEnd
  <2> QED BY <2>2, <2>4, <2>6, <2>7 DEF WInv, Contents
<1>3. CASE Happens /\ DoesNotMap /\ Fails
  <2>1. Placed' /\ Position' = Position
    BY <1>0, <1>3, DoesNotMapFacts
  <2>2. Queued' /\ Contents'
    BY <1>0, <1>1, <1>3, <2>1, FailsHolds
  <2> QED BY <2>1, <2>2 DEF WInv
<1> QED BY <1>2, <1>3 DEF Rewind

\* The file is compressed, or not.
LEMMA CloseHolds ==
    ASSUME WInv, Close
    PROVE  WInv'
<1>0. /\ Queued /\ Placed /\ killed = FALSE /\ lz4 = FALSE /\ stage = "closing"
      /\ file' = file /\ kept \in Seq(Records) /\ written \in Seq(Records)
      /\ UNCHANGED <<killed, written, broken, rstate>>
  BY DEF WInv, Queued, Close, reader
<1>1. "closed" \in Stages /\ Goes("closed", kept) /\ lz4' \in BOOLEAN
  BY <1>0 DEF Close, Stages
<1>2. Queued'
  BY <1>0, <1>1, GoesQueued DEF Queued
<1>3. Placed'
  BY <1>0 DEF Placed, Paged, Close
<1>4. stage' = "closed"
  BY <1>1 DEF Goes
<1>5. OfEnd'
  <2>1. CASE broken /\ LeftIn(file)
    <3>1. LeftIn(file)'
      BY <1>0, <2>1, LeftStays, Zenon
    <3> QED BY <1>0, <1>4, <2>1, <3>1 DEF OfEnd
  <2>2. CASE Holds(file, 1, <<TRAILER>>)
    BY <1>0, <1>4, <2>2 DEF OfEnd, Holds
  <2> QED BY <1>0, <2>1, <2>2 DEF WInv, Contents, OfEnd
<1>6. OfHeader' /\ OfTracking' /\ OfRecord' /\ OfTrailer' /\ OfRewind' /\ OfFinalHeader'
  BY <1>4 DEF OfHeader, OfTracking, OfRecord, OfTrailer, OfRewind, OfFinalHeader
<1> QED BY <1>2, <1>3, <1>5, <1>6 DEF WInv, Contents

\* The reader writes nothing.
LEMMA ReaderHolds ==
    ASSUME WInv, UNCHANGED <<writer, sink, broken, killed>>,
           rstate' # "closed" => rstate # "closed" \/ stage \in {"closed", "killed"}
    PROVE  WInv'
<1>1. Placed'
  BY DEF WInv, Placed, Paged, sink
<1>2. Queued'
  BY DEF WInv, Queued, AreFields, sink, writer
<1>3. Contents'
  BY DEF WInv, Contents, OfHeader, OfTracking, OfRecord, OfTrailer, OfRewind, OfFinalHeader, OfEnd, LeftIn,
         Holds, At, Doing, Position, Stats, Streaming, Clean, sink, writer
<1> QED BY <1>1, <1>2, <1>3 DEF WInv

\* How many of the three bytes of the header are written.
LEMMA ThreeBytes ==
    /\ 3 - 1 = 2
    /\ \A m \in 0..3 : m <= 2 => m \in 0..2 /\ (m >= 2 <=> m = 2)
    /\ 3 >= 2
    /\ \A n \in 0..2, k \in Nat : n + k <= 3 => n + k \in 0..3 /\ (n + k < 3 => n + k <= 2)
OBVIOUS

\* Some of a field, or all of it, is copied.
LEMMA MemCpyHolds ==
    ASSUME WInv, MemCpy
    PROVE  WInv'
<1> DEFINE x == Head(todo)
           k == Least(end - needle, Len(x))
           more == <<SubSeq(x, k + 1, Len(x))>> \o Tail(todo)
<1>0. /\ Queued /\ Placed /\ killed = FALSE /\ lz4 = FALSE /\ stage \in WritingStages
      /\ stage \notin {"closed", "killed"} /\ written \in Seq(Records) /\ kept \in Seq(Records)
      /\ Writing
  BY DEF WInv, Queued, MemCpy, Writing, WritingStages
<1>1. /\ Steady /\ broken' = broken /\ file' = Copied(k) /\ needle' = needle + k
      /\ UNCHANGED <<window, d_bufferOffset, end, format, killed, lz4, rstate>>
  BY <1>0 DEF Steady, MemCpy, reader
<1>2. k \in 1..Len(x) /\ k \in Nat /\ needle + k <= end /\ k <= Len(x) /\ Len(x) \in Nat
  <2> DEFINE l == Len(x)
  <2>1. l \in Nat \ {0} /\ end \in Nat /\ needle \in 0..end /\ needle < end
    BY <1>0, FieldFacts DEF Placed, MemCpy
  <2> HIDE DEF l
  <2>2. LET j == Least(end - needle, l) IN j \in 1..l /\ j \in Nat /\ needle + j <= end /\ j <= l
    BY <2>1 DEF Least
  <2> QED BY <2>1, <2>2 DEF l
<1>3. \/ k < Len(x) /\ todo' = more /\ UNCHANGED <<stage, kept, written>>
      \/ k = Len(x) /\ Tail(todo) = <<>> /\ Completes
      \/ k = Len(x) /\ Tail(todo) # <<>> /\ todo' = Tail(todo) /\ UNCHANGED <<stage, kept, written>>
  <2>1. IF k < Len(x)
        THEN todo' = more /\ UNCHANGED <<stage, kept, written>>
        ELSE IF Tail(todo) = <<>> THEN Completes
        ELSE todo' = Tail(todo) /\ UNCHANGED <<stage, kept, written>>
    BY DEF MemCpy
  <2> HIDE DEF k, x, more
  <2>2. k < Len(x) \/ k = Len(x)
    BY <1>2
  <2>3. ~(k < Len(x) /\ k = Len(x))
    BY <1>2
  <2> QED BY <2>1, <2>2, <2>3, Zenon
<1> HIDE DEF k
<1>4. Position + k <= Len(file) /\ Position' = Position + k
  <2>1. Position + k <= Len(file)
    BY <1>0, <1>2, Room
  <2>2. d_bufferOffset \in Int /\ needle \in Int
    BY <1>0 DEF Placed
  <2>3. d_bufferOffset + (needle + k) = d_bufferOffset + needle + k
    BY <1>2, <2>2
  <2> QED BY <1>1, <2>1, <2>3 DEF Position
<1>5. Placed'
  <2>1. Copied(k) \in Seq(Nat) /\ Len(Copied(k)) = Len(file)
    BY <1>0, <1>2, <1>4, CopiedFacts
  <2>2. needle + k \in 0..end
    <3>1. needle \in 0..end /\ end \in Nat
      BY <1>0 DEF Placed
    <3> QED BY <1>2, <3>1
  <2> QED BY <1>0, <1>1, <2>1, <2>2 DEF Placed, Paged
<1>6. Stats' = Stats /\ (Streaming' <=> Streaming) /\ Stats \in Nat
  BY <1>1, SteadyStats, StatsAre
<1>7. H(Stats) \in Seq(Nat) /\ H(Stats) \o Stream(written) \in Seq(Nat) /\ <<>> \in Seq(Nat)
  BY <1>0, <1>6, HeldBytes, EmptySeq
<1>8. stage = "header" =>
        /\ ~broken /\ written = <<>>
        /\ k < Len(x) => Does(Copied(k), Position + k, more, <<>>, H(Stats))
        /\ k = Len(x) /\ Tail(todo) # <<>> => Does(Copied(k), Position + k, Tail(todo), <<>>, H(Stats))
        /\ k = Len(x) /\ Tail(todo) = <<>> => Ends(Copied(k), Position + k, H(Stats))
  <2> SUFFICES ASSUME stage = "header"
               PROVE  /\ ~broken /\ written = <<>>
                      /\ k < Len(x) => Does(Copied(k), Position + k, more, <<>>, H(Stats))
                      /\ k = Len(x) /\ Tail(todo) # <<>> => Does(Copied(k), Position + k, Tail(todo), <<>>, H(Stats))
                      /\ k = Len(x) /\ Tail(todo) = <<>> => Ends(Copied(k), Position + k, H(Stats))
    BY Zenon
  <2>1. ~broken /\ written = <<>> /\ Doing(<<>>, H(Stats))
    BY DEF WInv, Contents, OfHeader
  <2>2. <<>> \o H(Stats) = H(Stats)
    BY <1>7, ConcatEmptySeq
  <2>3. /\ k < Len(x) => Does(Copied(k), Position + k, more, <<>>, H(Stats))
        /\ k = Len(x) /\ Tail(todo) # <<>> => Does(Copied(k), Position + k, Tail(todo), <<>>, H(Stats))
        /\ k = Len(x) /\ Tail(todo) = <<>> => Ends(Copied(k), Position + k, <<>> \o H(Stats))
    BY <1>0, <1>2, <1>4, <1>7, <2>1, MoreDone
  <2> HIDE DEF more, x
  <2> QED BY <2>1, <2>2, <2>3
<1>9. stage = "record" =>
        /\ ~broken /\ kept # <<>>
        /\ k < Len(x) => Does(Copied(k), Position + k, more, H(Stats) \o Stream(written), Bytes(Head(kept)))
        /\ k = Len(x) /\ Tail(todo) # <<>> =>
             Does(Copied(k), Position + k, Tail(todo), H(Stats) \o Stream(written), Bytes(Head(kept)))
        /\ k = Len(x) /\ Tail(todo) = <<>> =>
             Ends(Copied(k), Position + k, H(Stats) \o Stream(written) \o Bytes(Head(kept)))
  <2> SUFFICES ASSUME stage = "record"
               PROVE  /\ ~broken /\ kept # <<>>
                      /\ k < Len(x) => Does(Copied(k), Position + k, more, H(Stats) \o Stream(written), Bytes(Head(kept)))
                      /\ k = Len(x) /\ Tail(todo) # <<>> =>
                           Does(Copied(k), Position + k, Tail(todo), H(Stats) \o Stream(written), Bytes(Head(kept)))
                      /\ k = Len(x) /\ Tail(todo) = <<>> =>
                           Ends(Copied(k), Position + k, H(Stats) \o Stream(written) \o Bytes(Head(kept)))
    BY Zenon
  <2>1. ~broken /\ kept # <<>> /\ Doing(H(Stats) \o Stream(written), Bytes(Head(kept)))
    BY DEF WInv, Contents, OfRecord
  <2>2. Bytes(Head(kept)) \in Seq(Nat)
    BY <1>0, <2>1, TailOfKept, RecordFields
  <2>3. /\ k < Len(x) => Does(Copied(k), Position + k, more, H(Stats) \o Stream(written), Bytes(Head(kept)))
        /\ k = Len(x) /\ Tail(todo) # <<>> =>
             Does(Copied(k), Position + k, Tail(todo), H(Stats) \o Stream(written), Bytes(Head(kept)))
        /\ k = Len(x) /\ Tail(todo) = <<>> =>
             Ends(Copied(k), Position + k, H(Stats) \o Stream(written) \o Bytes(Head(kept)))
    BY <1>0, <1>2, <1>4, <1>7, <2>1, <2>2, MoreDone
  <2> HIDE DEF more, x
  <2> QED BY <2>1, <2>3
<1>10. stage = "trailer" =>
        /\ k = Len(x) /\ Tail(todo) = <<>>
        /\ \E t \in Partials :
              /\ t = <<>> \/ broken
              /\ Ends(Copied(k), Position + k, H(Stats) \o Stream(written) \o t \o <<TRAILER>>)
  <2> SUFFICES ASSUME stage = "trailer"
               PROVE  /\ k = Len(x) /\ Tail(todo) = <<>>
                      /\ \E t \in Partials :
                            /\ t = <<>> \/ broken
                            /\ Ends(Copied(k), Position + k, H(Stats) \o Stream(written) \o t \o <<TRAILER>>)
    BY Zenon
  <2>1. PICK t \in Partials : (t = <<>> \/ broken) /\ Ends(file, Position, H(Stats) \o Stream(written) \o t)
    BY DEF WInv, Contents, OfTrailer, At
  <2>2. todo = <<<<TRAILER>>>>
    BY DEF WInv, Contents, OfTrailer
  <2>3. x = <<TRAILER>> /\ Tail(todo) = <<>>
    <3>1. Head(<<<<TRAILER>>>>) = <<TRAILER>> /\ Tail(<<<<TRAILER>>>>) = <<>>
      OBVIOUS
    <3> QED BY <2>2, <3>1, Zenon
  <2>4. Len(x) = 1 /\ k = 1
    <3>1. Len(x) = 1
      BY <2>3, FieldsOfMethods
    <3> HIDE DEF x
    <3> QED BY <1>2, <3>1
  <2> DEFINE base == H(Stats) \o Stream(written) \o t
  <2>5. base \in Seq(Nat) /\ <<TRAILER>> \in Seq(Nat) /\ Len(<<TRAILER>>) > 0
    <3>1. t \in Seq(Nat)
      BY TailFacts
    <3>2. Len(<<TRAILER>>) = 1 /\ 1 > 0
      BY FieldsOfMethods
    <3> QED BY <1>0, <1>6, <3>1, <3>2, HeldBytes, FieldsOfMethods
  <2>6. Doing(base, <<TRAILER>>)
    <3>1. Bytes(todo) = <<TRAILER>>
      BY <2>2, FieldsOfMethods
    <3>2. Ends(file, Position, base)
      BY <2>1
    <3> HIDE DEF base
    <3> QED BY <2>5, <3>1, <3>2, Begins DEF Doing
  <2>7. Ends(Copied(k), Position + k, base \o <<TRAILER>>)
    <3> HIDE DEF base
    <3>1. k = Len(Head(todo)) /\ k \in 1..Len(Head(todo))
      BY <1>2, <2>4
    <3> QED BY <1>0, <1>4, <2>3, <2>5, <2>6, <3>1, MoreDone
  <2>8. k = Len(x)
    BY <2>4
  <2> HIDE DEF x, more
  <2> QED BY <2>1, <2>3, <2>7, <2>8
<1>11. stage = "final header" =>
        \E t \in Tails, m \in 0..3 :
          /\ t = <<TRAILER>> \/ broken
          /\ Holds(Copied(k), IF m >= 2 THEN 1 ELSE 0, t)
          /\ k < Len(x) => Position + k = m /\ m <= 2 /\ Bytes(more) = SubSeq(H(1), m + 1, 3)
          /\ k = Len(x) /\ Tail(todo) # <<>> =>
                Position + k = m /\ m <= 2 /\ Bytes(Tail(todo)) = SubSeq(H(1), m + 1, 3)
          /\ k = Len(x) /\ Tail(todo) = <<>> => m = 3
  <2> SUFFICES ASSUME stage = "final header"
               PROVE  \E t \in Tails, m \in 0..3 :
                        /\ t = <<TRAILER>> \/ broken
                        /\ Holds(Copied(k), IF m >= 2 THEN 1 ELSE 0, t)
                        /\ k < Len(x) => Position + k = m /\ m <= 2 /\ Bytes(more) = SubSeq(H(1), m + 1, 3)
                        /\ k = Len(x) /\ Tail(todo) # <<>> =>
                              Position + k = m /\ m <= 2 /\ Bytes(Tail(todo)) = SubSeq(H(1), m + 1, 3)
                        /\ k = Len(x) /\ Tail(todo) = <<>> => m = 3
    BY Zenon
  <2>1. PICK t \in Tails, n \in 0..2 :
              /\ t = <<TRAILER>> \/ broken
              /\ Position = n /\ Bytes(todo) = SubSeq(H(1), n + 1, 3)
              /\ Holds(file, IF n = 2 THEN 1 ELSE 0, t)
    BY DEF WInv, Contents, OfFinalHeader
  <2>2. t \in Seq(Nat)
    BY TailFacts
  <2> DEFINE a == IF n = 2 THEN 1 ELSE 0
             m == n + k
             b == IF m >= 2 THEN 1 ELSE 0
  <2>3. a \in Nat /\ b \in Nat
    BY <1>2
  <2>4. Stream(written) \o t \in Seq(Nat) /\ Padded(file, H(a) \o (Stream(written) \o t))
    <3>1. Padded(file, H(a) \o Stream(written) \o t)
      BY <2>1 DEF Holds
    <3> HIDE DEF a
    <3> QED BY <1>0, <2>2, <2>3, <3>1, HeldBytes
  <2>5. m <= 3 /\ Padded(Copied(k), H(b) \o (Stream(written) \o t))
    <3>1. Position = n /\ Bytes(todo) = SubSeq(H(1), n + 1, 3)
      BY <2>1
    <3> QED BY <1>0, <1>2, <1>4, <2>4, <3>1, HeaderAgain
  <2>6. Holds(Copied(k), b, t)
    <3> HIDE DEF a, b
    <3> QED BY <1>0, <2>2, <2>3, <2>5, HeldBytes DEF Holds
  <2>7. /\ k < Len(x) => m < 3 /\ Bytes(more) = SubSeq(H(1), m + 1, 3)
        /\ k = Len(x) /\ Tail(todo) # <<>> => m < 3 /\ Bytes(Tail(todo)) = SubSeq(H(1), m + 1, 3)
        /\ k = Len(x) /\ Tail(todo) = <<>> => m = 3
    <3> DEFINE h == H(1)
    <3>1. h \in Seq(Nat) /\ Len(h) = 3
      BY HeaderAt, EmptySeq
    <3> HIDE DEF h
    <3>2. n \in 0..(Len(h) - 1)
      <4> QED BY <3>1, ThreeBytes, Zenon
    <3>3. Bytes(todo) = SubSeq(h, n + 1, Len(h)) /\ k \in 1..Len(Head(todo))
      BY <1>2, <2>1, <3>1 DEF h
    <3>4. /\ k < Len(x) => m < Len(h) /\ Bytes(more) = SubSeq(h, m + 1, Len(h))
          /\ k = Len(x) /\ Tail(todo) # <<>> => m < Len(h) /\ Bytes(Tail(todo)) = SubSeq(h, m + 1, Len(h))
          /\ k = Len(x) /\ Tail(todo) = <<>> => m = Len(h)
      BY <1>0, <3>1, <3>2, <3>3, FieldsMove
    <3> HIDE DEF m, more, x
    <3> QED BY <3>1, <3>4, Zenon DEF h
  <2>8. m \in 0..3 /\ Position + k = m /\ (m < 3 => m <= 2)
    <3>1. Position = n
      BY <2>1
    <3> QED BY <1>2, <2>5, <3>1, ThreeBytes, Zenon
  <2> HIDE DEF a, m, x, more
  <2> QED BY <2>1, <2>6, <2>7, <2>8, Zenon
<1> HIDE DEF x
<1>12. CASE k = Len(x) /\ Tail(todo) = <<>> /\ Completes
  <2>1. stage = "header" => Ends(file', Position', H(Stats))
    BY <1>1, <1>4, <1>8, <1>12
  <2>2. stage = "record" => Ends(file', Position', H(Stats) \o Stream(written) \o Bytes(Head(kept)))
    BY <1>1, <1>4, <1>9, <1>12
  <2>3. stage = "trailer" =>
          \E t \in Partials : /\ t = <<>> \/ broken
                              /\ Ends(file', Position', H(Stats) \o Stream(written) \o t \o <<TRAILER>>)
    BY <1>1, <1>4, <1>10
  <2>4. stage = "final header" =>
          \E t \in Tails : (t = <<TRAILER>> \/ broken) /\ Holds(file', 1, t)
    <3> SUFFICES ASSUME stage = "final header"
                 PROVE  \E t \in Tails : (t = <<TRAILER>> \/ broken) /\ Holds(file', 1, t)
      BY Zenon
    <3>1. PICK t \in Tails, m \in 0..3 :
            /\ t = <<TRAILER>> \/ broken
            /\ Holds(Copied(k), IF m >= 2 THEN 1 ELSE 0, t)
            /\ k = Len(x) /\ Tail(todo) = <<>> => m = 3
      BY <1>11, Zenon
    <3>2. (IF m >= 2 THEN 1 ELSE 0) = 1
      BY <1>12, <3>1, ThreeBytes, Zenon
    <3>3. Holds(file', 1, t)
      BY <1>1, <3>1, <3>2
    <3> QED BY <3>1, <3>3
  <2>5. Queued' /\ Contents'
    BY <1>0, <1>1, <1>12, <2>1, <2>2, <2>3, <2>4, CompletesHolds
  <2> QED BY <1>5, <2>5 DEF WInv
<1>13. ASSUME NEW q, todo' = q, AreFields(q), q # <<>>, UNCHANGED <<stage, kept, written>>,
              stage # "trailer",
              stage = "header" => Does(Copied(k), Position + k, q, <<>>, H(Stats)),
              stage = "record" => Does(Copied(k), Position + k, q, H(Stats) \o Stream(written), Bytes(Head(kept))),
              stage = "final header" =>
                \E t \in Tails, m \in 0..2 :
                  /\ t = <<TRAILER>> \/ broken
                  /\ Position + k = m /\ Bytes(q) = SubSeq(H(1), m + 1, 3)
                  /\ Holds(Copied(k), IF m = 2 THEN 1 ELSE 0, t)
       PROVE  WInv'
  <2>1. Queued'
    <3>1. AreFields(todo)' /\ todo' # <<>>
      BY <1>13 DEF AreFields
    <3> QED BY <1>0, <1>1, <1>13, <3>1 DEF Queued
  <2>2. OfHeader'
    BY <1>1, <1>4, <1>6, <1>8, <1>13 DEF OfHeader, Doing
  <2>3. OfRecord'
    BY <1>1, <1>4, <1>6, <1>9, <1>13 DEF OfRecord, Doing
  <2>4. OfFinalHeader'
    <3> SUFFICES ASSUME stage = "final header" PROVE OfFinalHeader'
      BY <1>13 DEF OfFinalHeader
    <3>1. Streaming'
      BY <1>6 DEF WInv, Contents, OfFinalHeader
    <3>2. PICK t \in Tails, m \in 0..2 :
                  /\ t = <<TRAILER>> \/ broken
                  /\ Position + k = m /\ Bytes(q) = SubSeq(H(1), m + 1, 3)
                  /\ Holds(Copied(k), IF m = 2 THEN 1 ELSE 0, t)
      BY <1>13, Zenon
    <3>3. /\ t = <<TRAILER>> \/ broken'
          /\ Position' = m /\ Bytes(todo') = SubSeq(H(1), m + 1, 3)
      BY <1>1, <1>4, <1>13, <3>2
    <3>4. Padded(file', H(IF m = 2 THEN 1 ELSE 0) \o Stream(written') \o t)
      BY <1>1, <1>13, <3>2 DEF Holds
    <3> QED BY <3>1, <3>3, <3>4, Zenon DEF OfFinalHeader, Holds
  <2>5. OfTracking' /\ OfTrailer' /\ OfRewind' /\ OfEnd'
    BY <1>0, <1>13 DEF OfTracking, OfTrailer, OfRewind, OfEnd, WritingStages
  <2> QED BY <1>5, <2>1, <2>2, <2>3, <2>4, <2>5 DEF WInv, Contents
<1>14. stage = "final header" =>
         /\ k < Len(x) =>
              \E t \in Tails, m \in 0..2 :
                  /\ t = <<TRAILER>> \/ broken
                  /\ Position + k = m /\ Bytes(more) = SubSeq(H(1), m + 1, 3)
                  /\ Holds(Copied(k), IF m = 2 THEN 1 ELSE 0, t)
         /\ k = Len(x) /\ Tail(todo) # <<>> =>
              \E t \in Tails, m \in 0..2 :
                  /\ t = <<TRAILER>> \/ broken
                  /\ Position + k = m /\ Bytes(Tail(todo)) = SubSeq(H(1), m + 1, 3)
                  /\ Holds(Copied(k), IF m = 2 THEN 1 ELSE 0, t)
  <2> HIDE DEF more
  <2> SUFFICES ASSUME stage = "final header", NEW q,
                      \/ k < Len(x) /\ q = more
                      \/ k = Len(x) /\ Tail(todo) # <<>> /\ q = Tail(todo)
               PROVE  \E t \in Tails, m \in 0..2 :
                          /\ t = <<TRAILER>> \/ broken
                          /\ Position + k = m /\ Bytes(q) = SubSeq(H(1), m + 1, 3)
                          /\ Holds(Copied(k), IF m = 2 THEN 1 ELSE 0, t)
    BY Zenon
  <2>1. PICK t \in Tails, m \in 0..3 :
          /\ t = <<TRAILER>> \/ broken
          /\ Holds(Copied(k), IF m >= 2 THEN 1 ELSE 0, t)
          /\ k < Len(x) => Position + k = m /\ m <= 2 /\ Bytes(more) = SubSeq(H(1), m + 1, 3)
          /\ k = Len(x) /\ Tail(todo) # <<>> =>
                Position + k = m /\ m <= 2 /\ Bytes(Tail(todo)) = SubSeq(H(1), m + 1, 3)
    BY <1>11, Zenon
  <2>2. Position + k = m /\ m <= 2 /\ Bytes(q) = SubSeq(H(1), m + 1, 3)
    BY <2>1, Zenon
  <2>3. m \in 0..2 /\ (IF m >= 2 THEN 1 ELSE 0) = (IF m = 2 THEN 1 ELSE 0)
    BY <2>2, ThreeBytes, Zenon
  <2>4. Holds(Copied(k), IF m = 2 THEN 1 ELSE 0, t)
    BY <2>1, <2>3, Zenon
  <2> QED BY <2>1, <2>2, <2>3, <2>4, Zenon
<1>15. CASE k < Len(x) /\ todo' = more /\ UNCHANGED <<stage, kept, written>>
  <2>1. AreFields(more) /\ more # <<>>
    <3>1. k \in 0..Len(x)
      BY <1>2
    <3>2. AreFields(more)
      BY <1>0, <1>15, <3>1, FieldsLeft DEF x
    <3>3. more # <<>>
      <4> DEFINE y == <<SubSeq(x, k + 1, Len(x))>>
      <4>1. y \in Seq(Seq(Nat)) /\ y # <<>> /\ Tail(todo) \in Seq(Seq(Nat))
        <5>1. x \in Seq(Nat) /\ Tail(todo) \in Seq(Seq(Nat))
          BY <1>0, FieldFacts DEF x
        <5>2. SubSeq(x, k + 1, Len(x)) \in Seq(Nat)
          BY <3>1, <5>1, RestOf
        <5> QED BY <5>1, <5>2
      <4> HIDE DEF y
      <4>2. y \o Tail(todo) # <<>>
        BY <4>1, ConcatEqualIffEmpty
      <4> QED BY <4>2 DEF y
    <3> QED BY <3>2, <3>3
  <2>2. stage # "trailer"
    <3>1. ~(k < Len(x) /\ k = Len(x))
      BY <1>2
    <3> QED BY <1>10, <1>15, <3>1, Zenon
  <2> HIDE DEF more
  <2> QED BY <1>8, <1>9, <1>13, <1>14, <1>15, <2>1, <2>2, Zenon
<1>16. CASE k = Len(x) /\ Tail(todo) # <<>> /\ todo' = Tail(todo) /\ UNCHANGED <<stage, kept, written>>
  <2>1. AreFields(Tail(todo))
    <3>1. k \in 0..Len(x)
      BY <1>2
    <3> QED BY <1>0, <3>1, FieldsLeft DEF x
  <2>2. stage # "trailer"
    BY <1>10, <1>16, Zenon
  <2> HIDE DEF more
  <2> QED BY <1>8, <1>9, <1>13, <1>14, <1>16, <2>1, <2>2, Zenon
<1> HIDE DEF more
<1> QED BY <1>3, <1>12, <1>15, <1>16, Zenon

\* A file of no bytes.
LEMMA InitHolds ==
    ASSUME Init
    PROVE  WInv
<1>1. /\ kept = <<>> /\ written = <<>> /\ file = <<>> /\ window = "none" /\ d_bufferOffset = 0
      /\ needle = 0 /\ end = 0 /\ lz4 = FALSE /\ rstate = "closed" /\ broken = FALSE /\ killed = FALSE
  BY DEF Init
<1>2. Placed
  <2>1. 0 \in Nat /\ 0 \in 0..0 /\ 0 <= BUFFER_SIZE /\ 0 + 0 <= 0 /\ Paged(0)
    BY PagedConstants
  <2>2. <<>> \in Seq(Nat) /\ Len(<<>>) = 0
    BY EmptySeq
  <2> QED BY <1>1, <2>1, <2>2, Zenon DEF Placed
<1>3. kept \in Seq(Records) /\ written \in Seq(Records)
  BY <1>1, EmptySeq
<1>4. Ends(file, Position, <<>>)
  <2>1. Position = 0
    BY <1>1 DEF Position
  <2>2. Len(<<>>) = 0 /\ \A i \in 1..Len(<<>>) : FALSE
    OBVIOUS
  <2> QED BY <1>1, <2>1, <2>2 DEF Ends, Padded
<1>5. CASE Streaming
  <2>1. stage = "header" /\ todo = Header(0) /\ Stats = 0
    BY <1>5 DEF Init, Streaming, Stats
  <2>2. AreFields(todo) /\ todo # <<>> /\ Bytes(todo) = H(0)
    BY <2>1, FieldsOfMethods
  <2>3. Queued
    BY <1>1, <1>3, <2>1, <2>2 DEF Queued, Stages, WritingStages
  <2>4. OfHeader
    <3>1. H(0) \in Seq(Nat) /\ Len(H(0)) = 3 /\ <<>> \in Seq(Nat)
      BY HeaderAt, EmptySeq
    <3>2. 3 > 0
      OBVIOUS
    <3>3. Len(H(0)) > 0
      BY <3>1, <3>2, Zenon
    <3>4. Doing(<<>>, H(0))
      BY <1>4, <2>2, <3>1, <3>3, Begins DEF Doing
    <3> QED BY <1>1, <2>1, <3>4 DEF OfHeader
  <2>5. OfTracking /\ OfRecord /\ OfTrailer /\ OfRewind /\ OfFinalHeader /\ OfEnd
    BY <2>1 DEF OfTracking, OfRecord, OfTrailer, OfRewind, OfFinalHeader, OfEnd
  <2> QED BY <1>2, <2>3, <2>4, <2>5 DEF WInv, Contents
<1>6. CASE ~Streaming
  <2>1. stage = "tracking" /\ todo = <<>>
    BY <1>6 DEF Init, Streaming
  <2>2. AreFields(todo)
    BY <2>1, FieldsOfMethods
  <2>3. Queued
    BY <1>1, <1>3, <2>1, <2>2 DEF Queued, Stages, WritingStages
  <2>4. OfTracking
    BY <1>1, <1>4, <1>6 DEF OfTracking, At
  <2>5. OfHeader /\ OfRecord /\ OfTrailer /\ OfRewind /\ OfFinalHeader /\ OfEnd
    BY <2>1 DEF OfHeader, OfRecord, OfTrailer, OfRewind, OfFinalHeader, OfEnd
  <2> QED BY <1>2, <2>3, <2>4, <2>5 DEF WInv, Contents
<1> QED BY <1>5, <1>6

\* Whatever is written, however the file grows and the window moves, and when
\* ever the process ends, the file begins with what was written up to there.
THEOREM FileInvariance == Spec => []WInv
<1>1. Init => WInv
  BY InitHolds
<1>2. WInv /\ [Next]_vars => WInv'
  <2> SUFFICES ASSUME WInv, [Next]_vars PROVE WInv'
    OBVIOUS
  <2>1. ASSUME NEW r \in Records, WriteRecord(r) PROVE WInv'
    BY <2>1, WriteRecordHolds
  <2>2. CASE Open
    BY <2>2, ReaderHolds DEF Open
  <2>3. CASE ReadHeader
    BY <2>3, ReaderHolds DEF ReadHeader
  <2>4. CASE NextRecord
    BY <2>4, ReaderHolds DEF NextRecord
  <2>5. CASE UNCHANGED vars
    BY <2>5, ReaderHolds DEF vars, reader
  <2> QED BY <2>1, <2>2, <2>3, <2>4, <2>5, StopHolds, GrowHolds, SlideHolds, SlideAstrayHolds, MemCpyHolds,
             RewindHolds, CloseHolds, KillHolds DEF Next
<1> QED BY <1>1, <1>2, PTL DEF Spec

\* The first of some bytes.
LEMMA FirstOf ==
    ASSUME NEW x \in Seq(Nat), NEW n \in 0..Len(x)
    PROVE  /\ SubSeq(x, 1, n) \in Seq(Nat) /\ Len(SubSeq(x, 1, n)) = n
           /\ \A i \in 1..n : SubSeq(x, 1, n)[i] = x[i]
OBVIOUS

\* What the file begins with, behind the header.
LEMMA PrefixOfFile ==
    ASSUME NEW f \in Seq(Nat), NEW b \in Nat, NEW c \in Seq(Nat), NEW d \in Seq(Nat),
           Padded(f, H(b) \o (c \o d))
    PROVE  IsPrefixedBy(SubSeq(f, 4, Len(f)), c)
<1> DEFINE g == H(b) \o (c \o d)
           u == SubSeq(f, 4, Len(f))
           l == Len(f)
           n == Len(c)
           m == Len(d)
<1>0. l \in Nat /\ n \in Nat /\ m \in Nat
  OBVIOUS
<1>1. /\ c \o d \in Seq(Nat) /\ Len(c \o d) = n + m
      /\ \A i \in 1..(n + m) : (c \o d)[i] = IF i <= n THEN c[i] ELSE d[i - n]
  BY ConcatProperties
<1>2. Len(g) = 3 + (n + m) /\ \A i \in 1..(n + m) : g[3 + i] = (c \o d)[i]
  <2> DEFINE e == c \o d
  <2> HIDE DEF n, m
  <2>1. e \in Seq(Nat) /\ Len(e) = n + m
    BY <1>1
  <2> HIDE DEF e
  <2>2. Len(H(b) \o e) = 3 + Len(e) /\ \A i \in 1..Len(e) : (H(b) \o e)[3 + i] = e[i]
    BY <2>1, HeaderAt
  <2>3. Len(H(b) \o e) = 3 + (n + m) /\ \A i \in 1..(n + m) : (H(b) \o e)[3 + i] = e[i]
    BY <2>1, <2>2, Zenon
  <2> QED BY <2>3 DEF e
<1>3. Len(g) <= l /\ \A i \in 1..l : f[i] = IF i <= Len(g) THEN g[i] ELSE 0
  BY DEF Padded
<1> HIDE DEF g, l, n, m
<1>4. 3 \in 0..l /\ n <= l - 3 /\ n + m <= l - 3
  BY <1>0, <1>2, <1>3
<1>5. u \in Seq(Nat) /\ Len(u) = l - 3 /\ \A i \in 1..(l - 3) : u[i] = f[3 + i]
  <2> DEFINE k == 3
  <2>1. k \in 0..Len(f) /\ k + 1 = 4
    BY <1>4 DEF l
  <2> HIDE DEF k
  <2>2. /\ SubSeq(f, k + 1, Len(f)) \in Seq(Nat) /\ Len(SubSeq(f, k + 1, Len(f))) = Len(f) - k
        /\ \A i \in 1..(Len(f) - k) : SubSeq(f, k + 1, Len(f))[i] = f[k + i]
    BY <2>1, RestOf, Zenon
  <2>3. SubSeq(f, k + 1, Len(f)) = u
    BY <2>1
  <2> HIDE DEF u
  <2> QED BY <2>2, <2>3, Zenon DEF k, l
<1>6. \A i \in 1..n : u[i] = c[i]
  <2> SUFFICES ASSUME NEW i \in 1..n PROVE u[i] = c[i]
    OBVIOUS
  <2>1. i \in 1..(n + m) /\ i \in 1..(l - 3) /\ 3 + i \in 1..l /\ 3 + i <= Len(g) /\ i <= n
    BY <1>0, <1>2, <1>4
  <2>2. u[i] = f[3 + i] /\ f[3 + i] = g[3 + i]
    BY <1>3, <1>5, <2>1
  <2>3. g[3 + i] = c[i]
    BY <1>1, <1>2, <2>1
  <2> QED BY <2>2, <2>3
<1> HIDE DEF u
<1>7. SubSeq(u, 1, n) = c /\ n <= Len(u)
  <2>1. n <= Len(u) /\ n \in Nat /\ Len(u) \in Nat
    BY <1>0, <1>4, <1>5
  <2>2. SubSeq(u, 1, n) \in Seq(Nat) /\ Len(SubSeq(u, 1, n)) = n /\ \A i \in 1..n : SubSeq(u, 1, n)[i] = u[i]
    <3>1. u \in Seq(Nat) /\ n \in 0..Len(u)
      BY <1>5, <2>1
    <3> QED BY <3>1, FirstOf
  <2>3. SubSeq(u, 1, n) = c
    <3>1. \A i \in 1..n : SubSeq(u, 1, n)[i] = c[i]
      BY <1>6, <2>2
    <3>2. Len(c) = n /\ c \in Seq(Nat)
      BY DEF n
    <3> QED BY <2>2, <3>1, <3>2, SeqEqual
  <2> QED BY <2>1, <2>3
<1> QED BY <1>7 DEF IsPrefixedBy, u, n

\* The invariant says so of the file.
LEMMA HoldsStream ==
    ASSUME WInv
    PROVE  FileHoldsStream
<1>0. Placed /\ Queued /\ written \in Seq(Records) /\ file \in Seq(Nat)
  BY DEF WInv, Queued, Placed
<1>1. TypeOK
  <2>1. Len(file) % PageSize = 0 /\ d_bufferOffset % PageSize = 0
    BY <1>0, PagedHasNoRest DEF Placed
  <2>2. needle \in 0..end /\ end \in 0..BUFFER_SIZE /\ d_bufferOffset + end <= Len(file)
    <3>1. end \in Nat /\ end <= BUFFER_SIZE /\ needle \in 0..end
      BY <1>0 DEF Placed
    <3>2. end \in 0..BUFFER_SIZE
      BY <3>1, PagedConstants
    <3> QED BY <1>0, <3>1, <3>2 DEF Placed
  <2>3. stage = "record" => kept # <<>>
    BY DEF WInv, Contents, OfRecord
  <2> QED BY <2>1, <2>2, <2>3 DEF TypeOK
<1> DEFINE whole == stage \in {"rewind", "final header"} /\ ~broken
<1>2. ASSUME written # <<>>, ~whole
      PROVE  IsPrefixedBy(SubSeq(file, 4, Len(file)), Stream(written))
  <2>1. PICK b \in 0..1, t \in Tails : Holds(file, b, t)
    BY <1>2, LeftAtAnyTime DEF LeftIn
  <2>2. b \in Nat /\ t \in Seq(Nat)
    BY TailFacts
  <2>3. Stream(written) \in Seq(Nat) /\ Padded(file, H(b) \o (Stream(written) \o t))
    BY <1>0, <2>1, <2>2, HeldBytes DEF Holds
  <2> QED BY <1>0, <2>2, <2>3, PrefixOfFile
<1>3. ASSUME whole
      PROVE  IsPrefixedBy(SubSeq(file, 4, Len(file)), Append(Stream(written), TRAILER))
  <2>1. PICK b \in 0..1 : Holds(file, b, <<TRAILER>>)
    BY <1>3, Bits DEF WInv, Contents, OfRewind, OfFinalHeader
  <2>2. b \in Nat /\ <<TRAILER>> \in Seq(Nat) /\ Stream(written) \in Seq(Nat) /\ TRAILER \in Nat
    BY <1>0, FieldsOfMethods, StreamFacts DEF TRAILER
  <2> DEFINE c == Stream(written) \o <<TRAILER>>
  <2>3. c \in Seq(Nat) /\ Padded(file, H(b) \o c) /\ c = Append(Stream(written), TRAILER)
    <3> DEFINE s == Stream(written)
               t == <<TRAILER>>
    <3>1. s \in Seq(Nat) /\ t \in Seq(Nat)
      BY <2>2
    <3>2. Append(s, TRAILER) = s \o t
      BY <2>2, AppendIsConcat
    <3> HIDE DEF t
    <3>3. s \o t \in Seq(Nat) /\ Padded(file, H(b) \o s \o t) /\ H(b) \o s \o t = H(b) \o (s \o t)
      BY <1>0, <2>1, <2>2, <3>1, HeldBytes DEF Holds, t
    <3> HIDE DEF s
    <3> QED BY <3>2, <3>3, Zenon DEF s, t
  <2> HIDE DEF c
  <2>4. c \o <<>> = c /\ <<>> \in Seq(Nat)
    BY <2>3, ConcatEmptySeq, EmptySeq
  <2>5. Padded(file, H(b) \o (c \o <<>>))
    BY <2>3, <2>4
  <2> QED BY <1>0, <2>2, <2>3, <2>4, <2>5, PrefixOfFile
<1>4. ASSUME stage \in {"header", "tracking", "record", "trailer"}
      PROVE  \A i \in (d_bufferOffset + needle + 1)..Len(file) : file[i] = 0
  <2>1. \E c \in Seq(Nat) : Ends(file, Position, c)
    <3>1. CASE stage = "header" \/ stage = "record"
      <4>1. \E base \in Seq(Nat), all \in Seq(Nat) : Does(file, Position, todo, base, all)
        <5>0. Stats \in Nat
          BY StatsAre
        <5>1. H(Stats) \in Seq(Nat) /\ H(Stats) \o Stream(written) \in Seq(Nat) /\ <<>> \in Seq(Nat)
          BY <1>0, <5>0, HeldBytes, EmptySeq
        <5>2. CASE stage = "header"
          BY <5>1, <5>2 DEF WInv, Contents, OfHeader, Doing
        <5>3. CASE stage = "record"
          <6>1. kept # <<>> /\ Does(file, Position, todo, H(Stats) \o Stream(written), Bytes(Head(kept)))
            BY <5>3 DEF WInv, Contents, OfRecord, Doing
          <6>2. Bytes(Head(kept)) \in Seq(Nat)
            BY <1>0, <6>1, TailOfKept, RecordFields DEF Queued
          <6> QED BY <5>1, <6>1, <6>2
        <5> QED BY <3>1, <5>2, <5>3
      <4>2. PICK base \in Seq(Nat), all \in Seq(Nat) : Does(file, Position, todo, base, all)
        BY <4>1
      <4>3. PICK n \in 0..(Len(all) - 1) : Ends(file, Position, base \o SubSeq(all, 1, n))
        BY <4>2 DEF Does
      <4>4. n \in 0..Len(all)
        OBVIOUS
      <4>5. base \o SubSeq(all, 1, n) \in Seq(Nat)
        BY <4>4, PartFacts
      <4> QED BY <4>3, <4>5
    <3>2. CASE stage = "tracking" \/ stage = "trailer"
      <4>1. \E b \in Nat, t \in Partials : Ends(file, Position, H(b) \o Stream(written) \o t) \/ Ends(file, Position, <<>>)
        <5>1. 0 \in Nat /\ Stats \in Nat /\ <<>> \in Partials
          BY StatsAre, TailFacts
        <5> QED BY <3>2, <5>1 DEF WInv, Contents, OfTracking, OfTrailer, At
      <4>2. PICK b \in Nat, t \in Partials : Ends(file, Position, H(b) \o Stream(written) \o t) \/ Ends(file, Position, <<>>)
        BY <4>1
      <4>3. t \in Seq(Nat) /\ <<>> \in Seq(Nat)
        BY TailFacts, EmptySeq
      <4>4. H(b) \o Stream(written) \o t \in Seq(Nat)
        BY <1>0, <4>3, HeldBytes
      <4> QED BY <4>2, <4>3, <4>4
    <3> QED BY <1>4, <3>1, <3>2
  <2>2. PICK c \in Seq(Nat) : Ends(file, Position, c)
    BY <2>1
  <2>3. d_bufferOffset \in Nat /\ needle \in Nat
    BY <1>0 DEF Placed
  <2>4. Len(c) = d_bufferOffset + needle /\ \A i \in 1..Len(file) : i > Len(c) => file[i] = 0
    <3>1. \A i \in 1..Len(file) : file[i] = IF i <= Len(c) THEN c[i] ELSE 0
      BY <2>2 DEF Ends, Padded
    <3>2. Len(c) = d_bufferOffset + needle
      BY <2>2 DEF Ends, Position
    <3>3. Len(c) \in Nat
      OBVIOUS
    <3> QED BY <3>1, <3>2, <3>3
  <2> SUFFICES ASSUME NEW i \in (d_bufferOffset + needle + 1)..Len(file) PROVE file[i] = 0
    OBVIOUS
  <2>5. i \in 1..Len(file) /\ i > Len(c)
    BY <2>3, <2>4
  <2> QED BY <2>4, <2>5
<1>5. FlattenSeq([i \in DOMAIN written |-> Bytes(written[i])]) = Stream(written)
  BY DEF Stream
<1> HIDE DEF whole
<1>6. written # <<>> =>
         IsPrefixedBy(SubSeq(file, 4, Len(file)),
                      IF whole THEN Append(Stream(written), TRAILER) ELSE Stream(written))
  BY <1>2, <1>3, Zenon
<1> QED BY <1>1, <1>4, <1>5, <1>6, Zenon DEF FileHoldsStream, whole

\* The file holds the stream of records, whatever windows it is written through,
\* however it grows, and whatever fails.
THEOREM FileIsHeld == Spec => []FileHoldsStream
BY FileInvariance, HoldsStream, PTL

-----------------------------------------------------------------------------
(* What the reader finds *)

\* Behind the first p bytes of a file there are these, and zeros.
From(f, p, s) ==
    /\ p + Len(s) <= Len(f)
    /\ \A i \in 1..(Len(f) - p) : f[p + i] = IF i <= Len(s) THEN s[i] ELSE 0

\* What is behind the first of what a file begins with.
LEMMA PaddedFrom ==
    ASSUME NEW f \in Seq(Nat), NEW c \in Seq(Nat), NEW s \in Seq(Nat), Padded(f, c \o s)
    PROVE  From(f, Len(c), s)
<1> DEFINE l == Len(f)
           p == Len(c)
           n == Len(s)
           g == c \o s
<1>1. l \in Nat /\ p \in Nat /\ n \in Nat
  OBVIOUS
<1>2. Len(g) = p + n /\ \A i \in 1..(p + n) : g[i] = IF i <= p THEN c[i] ELSE s[i - p]
  BY ConcatProperties
<1>3. Len(g) <= l /\ \A i \in 1..l : f[i] = IF i <= Len(g) THEN g[i] ELSE 0
  BY DEF Padded
<1> HIDE DEF l, p, n, g
<1>4. p + n <= l
  BY <1>2, <1>3
<1>5. ASSUME NEW i \in 1..(l - p) PROVE f[p + i] = IF i <= n THEN s[i] ELSE 0
  <2> DEFINE j == p + i
  <2>1. j \in 1..l /\ ~(j <= p) /\ j - p = i
    BY <1>1
  <2>2. j <= p + n <=> i <= n
    BY <1>1
  <2>3. i <= n => j \in 1..(p + n)
    BY <1>1
  <2> HIDE DEF j
  <2>4. f[j] = IF i <= n THEN g[j] ELSE 0
    BY <1>2, <1>3, <2>1, <2>2, Zenon
  <2>5. i <= n => g[j] = s[i]
    BY <1>2, <2>1, <2>3, Zenon
  <2>6. f[j] = IF i <= n THEN s[i] ELSE 0
    BY <2>4, <2>5, Zenon
  <2> QED BY <2>6 DEF j
<1> QED BY <1>4, <1>5 DEF From, l, p, n

\* The last byte that is not zero.
LEMMA SizeFacts ==
    ASSUME file \in Seq(Nat)
    PROVE  /\ FindReadableSize \in 0..Len(file)
           /\ FindReadableSize # 0 => file[FindReadableSize] # 0
           /\ \A i \in 1..Len(file) : file[i] # 0 => i <= FindReadableSize
<1> DEFINE l == Len(file)
           data == {i \in DOMAIN file : file[i] # 0}
<1>1. DOMAIN file = 1..l /\ l \in Nat
  OBVIOUS
<1> HIDE DEF l
<1>2. data = {i \in 1..l : file[i] # 0}
  BY <1>1
<1>3. FindReadableSize = IF data = {} THEN 0 ELSE CHOOSE i \in data : \A j \in data : j <= i
  BY DEF FindReadableSize
<1> HIDE DEF data
<1>4. CASE data = {}
  <2>1. FindReadableSize = 0
    BY <1>3, <1>4
  <2>2. 0 \in 0..l
    BY <1>1
  <2> QED BY <1>2, <1>4, <2>1, <2>2 DEF l
<1>5. CASE data # {}
  <2>1. \E i \in data : \A j \in data : j <= i
    <3>1. data \in SUBSET Nat /\ data # {} /\ \A j \in data : j <= l
      BY <1>1, <1>2, <1>5
    <3> DEFINE rev == {l - j : j \in data}
    <3>2. rev \in SUBSET Nat /\ rev # {}
      <4>1. ASSUME NEW j \in data PROVE l - j \in Nat
        <5>1. j \in Nat /\ j <= l
          BY <3>1
        <5> QED BY <1>1, <5>1
      <4>2. rev \in SUBSET Nat
        BY <4>1
      <4>3. rev # {}
        BY <3>1, Zenon
      <4> QED BY <4>2, <4>3
    <3>3. PICK m \in rev : \A k \in rev : m <= k
      <4> HIDE DEF rev
      <4> QED BY <3>2, LeastNumber
    <3>4. PICK i \in data : m = l - i
      BY <3>3
    <3>5. ASSUME NEW j \in data PROVE j <= i
      <4>1. l - j \in rev
        OBVIOUS
      <4>2. l - i <= l - j
        BY <3>3, <3>4, <4>1
      <4> HIDE DEF rev
      <4>3. i \in Nat /\ j \in Nat
        BY <3>1
      <4> QED BY <1>1, <4>2, <4>3
    <3> QED BY <3>4, <3>5
  <2>2. FindReadableSize \in data /\ \A j \in data : j <= FindReadableSize
    BY <1>3, <1>5, <2>1
  <2>3. FindReadableSize \in 1..l /\ file[FindReadableSize] # 0
    BY <1>2, <2>2
  <2>4. FindReadableSize \in 0..l
    BY <1>1, <2>3
  <2> QED BY <1>2, <2>2, <2>3, <2>4 DEF l
<1> QED BY <1>4, <1>5

Sized == d_readable_size = IF lz4 THEN 0 ELSE FindReadableSize

\* Up to a byte that is not zero all can be read.
LEMMA ReadableUpTo ==
    ASSUME file \in Seq(Nat), Sized, NEW p \in Nat, NEW s \in Seq(Nat), From(file, p, s),
           NEW j \in 1..Len(s), s[j] # 0, NEW n \in 0..j
    PROVE  Readable(p, n) /\ FindReadableSize # 0 /\ p + j <= FindReadableSize
<1> DEFINE l == Len(file)
           m == Len(s)
           z == FindReadableSize
<1>1. l \in Nat /\ m \in Nat /\ z \in 0..l /\ \A i \in 1..l : file[i] # 0 => i <= z
  BY SizeFacts
<1>2. p + m <= l /\ \A i \in 1..(l - p) : file[p + i] = IF i <= m THEN s[i] ELSE 0
  BY DEF From
<1> HIDE DEF l, z
<1>3. j \in 1..(l - p) /\ j <= m /\ p + j \in 1..l
  BY <1>1, <1>2
<1>4. file[p + j] # 0
  BY <1>2, <1>3
<1>5. p + j <= z
  BY <1>1, <1>3, <1>4
<1>6. p + n <= l /\ p + n <= z /\ z # 0
  BY <1>1, <1>3, <1>5
<1>7. d_readable_size = 0 \/ d_readable_size = z
  BY DEF Sized, z
<1> QED BY <1>5, <1>6, <1>7 DEF Readable, l, z

\* Beyond what is written nothing can be read.
LEMMA SizeWithin ==
    ASSUME file \in Seq(Nat), NEW p \in Nat, NEW s \in Seq(Nat), From(file, p, s)
    PROVE  FindReadableSize <= p + Len(s)
<1> DEFINE l == Len(file)
           m == Len(s)
           z == FindReadableSize
<1>1. l \in Nat /\ m \in Nat /\ z \in 0..l /\ (z # 0 => file[z] # 0)
  BY SizeFacts
<1>2. p + m <= l /\ \A i \in 1..(l - p) : file[p + i] = IF i <= m THEN s[i] ELSE 0
  BY DEF From
<1> HIDE DEF l, z, m
<1> SUFFICES ASSUME z > p + m PROVE FALSE
  BY <1>1 DEF z, m
<1>3. z - p \in 1..(l - p) /\ ~(z - p <= m) /\ p + (z - p) = z /\ z # 0
  BY <1>1
<1>4. file[z] = 0
  BY <1>2, <1>3
<1> QED BY <1>1, <1>3, <1>4

\* One element more.
LEMMA OneMore ==
    ASSUME NEW T, NEW w \in Seq(T), NEW k \in 0..(Len(w) - 1)
    PROVE  /\ SubSeq(w, 1, k) \in Seq(T) /\ Len(SubSeq(w, 1, k)) = k /\ w[k + 1] \in T
           /\ SubSeq(w, 1, k + 1) = Append(SubSeq(w, 1, k), w[k + 1])
<1> DEFINE s == SubSeq(w, 1, k)
           t == SubSeq(w, 1, k + 1)
           n == Len(w)
           a == Append(s, w[k + 1])
<1>1. n \in Nat /\ k \in Nat /\ k + 1 \in 1..n
  OBVIOUS
<1>2. w[k + 1] \in T
  BY <1>1, ElementOfSeq
<1>3. s \in Seq(T) /\ Len(s) = k /\ \A i \in 1..k : s[i] = w[i]
  BY <1>1
<1>4. t \in Seq(T) /\ Len(t) = k + 1 /\ \A i \in 1..(k + 1) : t[i] = w[i]
  <2>1. k + 1 \in 0..Len(w)
    BY <1>1
  <2> DEFINE j == k + 1
  <2> HIDE DEF j
  <2>2. SubSeq(w, 1, j) \in Seq(T) /\ Len(SubSeq(w, 1, j)) = j /\ \A i \in 1..j : SubSeq(w, 1, j)[i] = w[i]
    BY <2>1 DEF j
  <2> QED BY <2>2 DEF j
<1> HIDE DEF s, t, n
<1>5. a \in Seq(T) /\ Len(a) = k + 1 /\ (\A i \in 1..k : a[i] = s[i]) /\ a[k + 1] = w[k + 1]
  BY <1>2, <1>3, AppendProperties
<1> HIDE DEF a
<1>6. \A i \in 1..(k + 1) : a[i] = t[i]
  <2> SUFFICES ASSUME NEW i \in 1..(k + 1) PROVE a[i] = t[i]
    OBVIOUS
  <2>1. i \in 1..k \/ i = k + 1
    BY <1>1
  <2> QED BY <1>3, <1>4, <1>5, <2>1
<1>7. a = t
  BY <1>4, <1>5, <1>6, SeqEqual
<1> QED BY <1>2, <1>3, <1>7 DEF a, s, t

\* The stream goes on with the next record.
LEMMA StreamStep ==
    ASSUME NEW w \in Seq(Records), NEW k \in 0..(Len(w) - 1)
    PROVE  Stream(SubSeq(w, 1, k + 1)) = Stream(SubSeq(w, 1, k)) \o Bytes(w[k + 1])
BY OneMore, StreamFacts

\* The stream of the first records is the first of the stream.
LEMMA StreamSplit ==
    ASSUME NEW w \in Seq(Records), NEW k \in 0..Len(w)
    PROVE  /\ SubSeq(w, 1, k) \in Seq(Records)
           /\ \E rest \in Seq(Nat) : Stream(w) = Stream(SubSeq(w, 1, k)) \o rest
<1> DEFINE n == Len(w)
           Extends(m) == \E rest \in Seq(Nat) : Stream(SubSeq(w, 1, m)) = Stream(SubSeq(w, 1, k)) \o rest
           B == {m \in k..n : ~Extends(m)}
<1>1. n \in Nat /\ k \in Nat /\ k <= n
  OBVIOUS
<1>2. SubSeq(w, 1, k) \in Seq(Records) /\ Stream(SubSeq(w, 1, k)) \in Seq(Nat)
  <2>1. SubSeq(w, 1, k) \in Seq(Records)
    BY <1>1
  <2> QED BY <2>1, StreamFacts
<1>3. Extends(k)
  <2> DEFINE s == Stream(SubSeq(w, 1, k))
  <2> HIDE DEF s
  <2>1. s \in Seq(Nat)
    BY <1>2 DEF s
  <2>2. s \o <<>> = s /\ <<>> \in Seq(Nat)
    BY <2>1, ConcatEmptySeq, EmptySeq
  <2>3. \E rest \in Seq(Nat) : s = s \o rest
    BY <2>2
  <2> QED BY <2>3 DEF s
<1>4. ASSUME NEW m \in k..(n - 1), Extends(m) PROVE Extends(m + 1)
  <2>1. PICK rest \in Seq(Nat) : Stream(SubSeq(w, 1, m)) = Stream(SubSeq(w, 1, k)) \o rest
    BY <1>4
  <2>2. m \in 0..(n - 1) /\ m \in 0..(Len(w) - 1)
    BY <1>1
  <2>3. Stream(SubSeq(w, 1, m + 1)) = Stream(SubSeq(w, 1, m)) \o Bytes(w[m + 1]) /\ w[m + 1] \in Records
    BY <2>2, StreamStep, OneMore
  <2>4. Bytes(w[m + 1]) \in Seq(Nat)
    BY <2>3, RecordFields
  <2>5. (Stream(SubSeq(w, 1, k)) \o rest) \o Bytes(w[m + 1]) = Stream(SubSeq(w, 1, k)) \o (rest \o Bytes(w[m + 1]))
    BY <1>2, <2>4, Associates
  <2>6. rest \o Bytes(w[m + 1]) \in Seq(Nat)
    BY <2>4, ConcatProperties
  <2> QED BY <2>1, <2>3, <2>5, <2>6
<1> HIDE DEF Extends
<1>5. B = {}
  <2> SUFFICES ASSUME B # {} PROVE FALSE
    OBVIOUS
  <2>1. PICK m \in B : \A j \in B : m <= j
    <3>1. B \in SUBSET Nat
      BY <1>1
    <3> HIDE DEF B
    <3> QED BY <3>1, LeastNumber
  <2>2. m # k /\ m \in k..n /\ ~Extends(m)
    BY <1>3
  <2>3. m - 1 \in k..(n - 1) /\ m - 1 \in k..n /\ ~(m <= m - 1) /\ m - 1 + 1 = m
    BY <1>1, <2>2
  <2>4. Extends(m - 1)
    BY <2>1, <2>3
  <2>5. Extends(m - 1 + 1)
    BY <1>4, <2>3, <2>4
  <2> QED BY <2>2, <2>3, <2>5
<1>6. Extends(n)
  <2>1. n \in k..n
    BY <1>1
  <2> QED BY <1>5, <2>1
<1>7. SubSeq(w, 1, n) = w
  BY SubSeqFull
<1> QED BY <1>2, <1>6, <1>7 DEF Extends

\* A record, one behind it and what is between.
LEMMA StreamAt ==
    ASSUME NEW w \in Seq(Records), NEW k \in 0..(Len(w) - 1)
    PROVE  \E rest \in Seq(Nat) :
              /\ Stream(w) = Stream(SubSeq(w, 1, k)) \o (Bytes(w[k + 1]) \o rest)
              /\ k + 1 < Len(w) => Len(rest) > 0 /\ rest[1] # 0
              /\ k + 1 = Len(w) => rest = <<>>
<1> DEFINE n == Len(w)
           r == w[k + 1]
           s == Stream(SubSeq(w, 1, k))
           u == Stream(SubSeq(w, 1, k + 1))
<1>1. n \in Nat /\ k \in Nat /\ k + 1 \in 1..n /\ k + 1 \in 0..n /\ k \in 0..n
  OBVIOUS
<1>2. u = s \o Bytes(r) /\ r \in Records /\ Bytes(r) \in Seq(Nat)
  BY StreamStep, OneMore, RecordFields
<1>3. s \in Seq(Nat) /\ u \in Seq(Nat)
  <2>1. SubSeq(w, 1, k) \in Seq(Records) /\ SubSeq(w, 1, k + 1) \in Seq(Records)
    BY <1>1, StreamSplit
  <2> QED BY <2>1, StreamFacts
<1> HIDE DEF r, s
<1>4. ASSUME NEW rest \in Seq(Nat), Stream(w) = u \o rest
      PROVE  Stream(w) = s \o (Bytes(r) \o rest)
  <2> DEFINE b == Bytes(r)
  <2> HIDE DEF b
  <2>1. b \in Seq(Nat) /\ u = s \o b
    BY <1>2 DEF b
  <2>2. (s \o b) \o rest = s \o (b \o rest)
    BY <1>3, <2>1, Associates
  <2> HIDE DEF u
  <2> QED BY <1>4, <2>1, <2>2 DEF b
<1>5. CASE k + 1 = n
  <2> DEFINE rest == <<>>
  <2>1. rest \in Seq(Nat) /\ Stream(w) = u \o rest
    <3>1. SubSeq(w, 1, k + 1) = w
      BY <1>5, SubSeqFull
    <3>2. u \o <<>> = u /\ <<>> \in Seq(Nat)
      <4> HIDE DEF u
      <4> QED BY <1>3, ConcatEmptySeq
    <3> QED BY <3>1, <3>2
  <2> HIDE DEF rest, u
  <2>2. Stream(w) = s \o (Bytes(r) \o rest)
    BY <1>4, <2>1
  <2>3. ~(k + 1 < n)
    BY <1>1, <1>5
  <2>4. rest = <<>>
    BY DEF rest
  <2> QED BY <2>1, <2>2, <2>3, <2>4, Zenon DEF r, s
<1>6. CASE k + 1 # n
  <2> DEFINE j == k + 1
             v == Stream(SubSeq(w, 1, j + 1))
  <2>1. j \in 0..(Len(w) - 1) /\ j + 1 \in 0..Len(w)
    BY <1>1, <1>6
  <2>2. PICK rest \in Seq(Nat) : Stream(w) = v \o rest
    BY <2>1, StreamSplit
  <2> DEFINE q == w[j + 1]
  <2>3. v = u \o Bytes(q) /\ q \in Records
    BY <2>1, StreamStep, OneMore
  <2>4. PICK t \in {ALLOCATION, CONTEXT_SWITCH, THREAD_RECORD}, x \in Seq(Nat) : Bytes(q) = <<t>> \o x
    BY <2>3, RecordFacts
  <2>5. t \in Nat /\ t # 0 /\ Bytes(q) \in Seq(Nat)
    <3>1. t \in Nat /\ t # 0
      BY DEF ALLOCATION, CONTEXT_SWITCH, THREAD_RECORD
    <3>2. Bytes(q) \in Seq(Nat)
      BY <2>3, RecordFields
    <3> QED BY <3>1, <3>2
  <2> HIDE DEF u, v, q
  <2> DEFINE e == Bytes(q) \o rest
  <2>6. Stream(w) = u \o e /\ e \in Seq(Nat)
    <3>1. e \in Seq(Nat)
      BY <2>5, ConcatProperties
    <3>2. (u \o Bytes(q)) \o rest = u \o (Bytes(q) \o rest)
      BY <1>3, <2>5, Associates, Zenon
    <3> QED BY <2>2, <2>3, <3>1, <3>2
  <2>7. Len(e) > 0 /\ e[1] # 0
    <3> DEFINE h == <<t>>
               y == x \o rest
    <3>1. h \in Seq(Nat) /\ Len(h) = 1 /\ h[1] = t
      BY <2>5
    <3> HIDE DEF h
    <3>2. y \in Seq(Nat)
      BY ConcatProperties
    <3>3. e = h \o y
      <4>1. Bytes(q) = h \o x
        BY <2>4 DEF h
      <4>2. (h \o x) \o rest = h \o (x \o rest)
        BY <3>1, Associates
      <4> QED BY <4>1, <4>2
    <3> HIDE DEF y, e
    <3>4. Len(h \o y) = 1 + Len(y) /\ Len(y) \in Nat /\ (h \o y)[1] = h[1]
      <4>1. /\ Len(h \o y) = Len(h) + Len(y)
            /\ \A i \in 1..(Len(h) + Len(y)) : (h \o y)[i] = IF i <= Len(h) THEN h[i] ELSE y[i - Len(h)]
        BY <3>1, <3>2, ConcatProperties, Zenon
      <4>2. Len(y) \in Nat
        BY <3>2, LenProperties
      <4>3. 1 \in 1..(1 + Len(y)) /\ 1 <= 1
        BY <4>2
      <4> QED BY <3>1, <4>1, <4>2, <4>3, Zenon
    <3>5. 1 + Len(y) > 0
      BY <3>4
    <3> QED BY <2>5, <3>1, <3>3, <3>4, <3>5, Zenon
  <2> HIDE DEF e
  <2>8. Stream(w) = s \o (Bytes(r) \o e)
    BY <1>4, <2>6
  <2>9. k + 1 # Len(w)
    BY <1>6
  <2> QED BY <2>6, <2>7, <2>8, <2>9, Zenon DEF r, s
<1> QED BY <1>5, <1>6

\* What the reader has before it: a record, and what follows it.
LEMMA NextAt ==
    ASSUME NEW w \in Seq(Records), NEW k \in 0..(Len(w) - 1), NEW t \in Seq(Nat), t = <<>> \/ t[1] # 0
    PROVE  \E more \in Seq(Nat) :
              /\ Stream(w) \o t = Stream(SubSeq(w, 1, k)) \o (Bytes(w[k + 1]) \o more)
              /\ more = <<>> \/ (Len(more) > 0 /\ more[1] # 0)
              /\ more = <<>> => k + 1 = Len(w) /\ t = <<>>
<1> DEFINE s == Stream(SubSeq(w, 1, k))
           x == Bytes(w[k + 1])
<1>1. s \in Seq(Nat) /\ x \in Seq(Nat)
  <2>1. SubSeq(w, 1, k) \in Seq(Records) /\ w[k + 1] \in Records
    BY OneMore
  <2> QED BY <2>1, StreamFacts, RecordFields
<1>2. PICK rest \in Seq(Nat) :
         /\ Stream(w) = s \o (x \o rest)
         /\ k + 1 < Len(w) => Len(rest) > 0 /\ rest[1] # 0
         /\ k + 1 = Len(w) => rest = <<>>
  BY StreamAt
<1> HIDE DEF s, x
<1> DEFINE more == rest \o t
<1>3. more \in Seq(Nat)
  BY ConcatProperties
<1>4. Stream(w) \o t = s \o (x \o more)
  <2>1. x \o rest \in Seq(Nat)
    BY <1>1, ConcatProperties
  <2>2. (s \o (x \o rest)) \o t = s \o ((x \o rest) \o t)
    <3> DEFINE y == x \o rest
    <3> HIDE DEF y
    <3>0. y \in Seq(Nat)
      BY <2>1 DEF y
    <3>1. (s \o y) \o t = s \o (y \o t)
      BY <1>1, <3>0, Associates
    <3> QED BY <3>1 DEF y
  <2>3. (x \o rest) \o t = x \o (rest \o t)
    BY <1>1, Associates
  <2> QED BY <1>2, <2>2, <2>3
<1>5. CASE k + 1 = Len(w)
  <2>1. more = t
    BY <1>2, <1>5, ConcatEmptySeq
  <2>2. t = <<>> \/ Len(t) > 0
    BY EmptySeq
  <2> HIDE DEF more
  <2> QED BY <1>3, <1>4, <1>5, <2>1, <2>2 DEF s, x
<1>6. CASE k + 1 # Len(w)
  <2>1. Len(rest) > 0 /\ rest[1] # 0
    <3>1. k + 1 < Len(w)
      BY <1>6
    <3> QED BY <1>2, <3>1
  <2>2. Len(more) > 0 /\ more[1] = rest[1]
    BY <2>1, ConcatProperties
  <2>3. more # <<>>
    BY <2>2
  <2> HIDE DEF more
  <2> QED BY <1>3, <1>4, <2>1, <2>2, <2>3 DEF s, x
<1> QED BY <1>5, <1>6

\* Behind the first of what is there, there is the rest of it.
LEMMA FromBehind ==
    ASSUME NEW f \in Seq(Nat), NEW p \in Nat, NEW c \in Seq(Nat), NEW s \in Seq(Nat), From(f, p, c \o s)
    PROVE  /\ From(f, p + Len(c), s) /\ p + Len(c) <= Len(f)
           /\ \A i \in 1..Len(c) : f[p + i] = c[i]
<1> DEFINE l == Len(f)
           m == Len(c)
           n == Len(s)
           g == c \o s
           q == p + m
<1>1. l \in Nat /\ m \in Nat /\ n \in Nat
  OBVIOUS
<1>2. Len(g) = m + n /\ \A i \in 1..(m + n) : g[i] = IF i <= m THEN c[i] ELSE s[i - m]
  BY ConcatProperties
<1>3. p + Len(g) <= l /\ \A i \in 1..(l - p) : f[p + i] = IF i <= Len(g) THEN g[i] ELSE 0
  BY DEF From
<1> HIDE DEF l, m, n, g
<1>4. q \in Nat /\ q + n <= l /\ q <= l
  BY <1>1, <1>2, <1>3
<1>5. ASSUME NEW i \in 1..(l - q) PROVE f[q + i] = IF i <= n THEN s[i] ELSE 0
  <2> DEFINE j == m + i
  <2>1. j \in 1..(l - p) /\ ~(j <= m) /\ j - m = i /\ p + j = q + i
    BY <1>1
  <2>2. j <= m + n <=> i <= n
    BY <1>1
  <2>3. i <= n => j \in 1..(m + n)
    BY <1>1
  <2> HIDE DEF j
  <2>4. f[p + j] = IF i <= n THEN g[j] ELSE 0
    BY <1>2, <1>3, <2>1, <2>2, Zenon
  <2>5. i <= n => g[j] = s[i]
    BY <1>2, <2>1, <2>3, Zenon
  <2> HIDE DEF q
  <2>6. f[p + j] = IF i <= n THEN s[i] ELSE 0
    BY <2>4, <2>5, Zenon
  <2> QED BY <2>1, <2>6, Zenon
<1>6. ASSUME NEW i \in 1..m PROVE f[p + i] = c[i]
  <2>1. i \in 1..(l - p) /\ i <= m + n /\ i \in 1..(m + n) /\ i <= m
    BY <1>1, <1>4
  <2> QED BY <1>2, <1>3, <2>1, Zenon
<1> QED BY <1>4, <1>5, <1>6 DEF From, l, m, n

\* The same of one byte.
LEMMA FromFirst ==
    ASSUME NEW f \in Seq(Nat), NEW p \in Nat, NEW c \in Seq(Nat), NEW s \in Seq(Nat), From(f, p, c \o s)
    PROVE  Len(c) = 1 => From(f, p + 1, s) /\ p + 1 <= Len(f) /\ f[p + 1] = c[1]
<1>1. From(f, p + Len(c), s) /\ p + Len(c) <= Len(f)
  BY FromBehind
<1>2. \A i \in 1..Len(c) : f[p + i] = c[i]
  BY FromBehind
<1> QED BY <1>1, <1>2

\* Behind a token there is what follows it.
LEMMA FromToken ==
    ASSUME NEW f \in Seq(Nat), NEW p \in Nat, NEW t \in Nat, NEW s \in Seq(Nat), From(f, p, <<t>> \o s)
    PROVE  From(f, p + 1, s) /\ p + 1 <= Len(f) /\ f[p + 1] = t
<1>1. <<t>> \in Seq(Nat) /\ Len(<<t>>) = 1 /\ <<t>>[1] = t
  OBVIOUS
<1> QED BY <1>1, FromFirst, Zenon

\* The string up to its delimiter.
LEMMA LineFacts ==
    ASSUME file \in Seq(Nat), NEW p \in 0..Len(file)
    PROVE  /\ LineAt(p) \in Nat \ {0} /\ LineAt(p) <= Len(file) - p + 1
           /\ \A i \in 1..(Len(file) - p) : i < LineAt(p) => file[p + i] # 0
           /\ LineAt(p) <= Len(file) - p => file[p + LineAt(p)] = 0
<1> DEFINE l == Len(file)
           ends == {n \in 1..(l - p) : file[p + n] = 0}
           z == LineAt(p)
<1>1. l \in Nat /\ p \in Nat /\ p <= l
  OBVIOUS
<1>2. z = IF ends = {} THEN l - p + 1 ELSE CHOOSE n \in ends : \A m \in ends : n <= m
  BY DEF LineAt
<1> HIDE DEF z, l
<1>3. CASE ends = {}
  <2>1. z = l - p + 1
    BY <1>2, <1>3
  <2>2. \A i \in 1..(l - p) : file[p + i] # 0
    BY <1>3
  <2>3. z \in Nat \ {0} /\ z <= l - p + 1 /\ ~(z <= l - p)
    BY <1>1, <2>1
  <2> QED BY <2>2, <2>3 DEF z, l
<1>4. CASE ends # {}
  <2>1. \E n \in ends : \A m \in ends : n <= m
    <3>1. ends \in SUBSET Nat
      BY <1>1
    <3> HIDE DEF ends
    <3> QED BY <1>4, <3>1, LeastNumber
  <2>2. z \in ends /\ \A m \in ends : z <= m
    BY <1>2, <1>4, <2>1
  <2>3. z \in 1..(l - p) /\ file[p + z] = 0
    BY <2>2
  <2>4. ASSUME NEW i \in 1..(l - p), i < z PROVE file[p + i] # 0
    <3>1. ~(z <= i)
      BY <2>3, <2>4
    <3>2. i \notin ends
      BY <2>2, <3>1
    <3> QED BY <3>2
  <2>5. z \in Nat \ {0} /\ z <= l - p + 1
    BY <1>1, <2>3
  <2> QED BY <2>3, <2>4, <2>5 DEF z, l
<1> QED BY <1>3, <1>4

\* The two fields of a record, by its token.
LEMMA LayoutOf ==
    ASSUME NEW p \in Nat, NEW t \in {ALLOCATION, CONTEXT_SWITCH, THREAD_RECORD}, file[p + 1] = t
    PROVE  LET n == CASE t = ALLOCATION -> 1 [] t = CONTEXT_SWITCH -> 2 [] OTHER -> LineAt(p + 1)
           IN  Layout(p) = <<1, n>>
<1>1. CASE t = ALLOCATION
  BY <1>1 DEF Layout, ALLOCATION, CONTEXT_SWITCH, THREAD_RECORD
<1>2. CASE t = CONTEXT_SWITCH
  BY <1>2 DEF Layout, ALLOCATION, CONTEXT_SWITCH, THREAD_RECORD
<1>3. CASE t = THREAD_RECORD
  BY <1>3 DEF Layout, ALLOCATION, CONTEXT_SWITCH, THREAD_RECORD
<1> QED BY <1>1, <1>2, <1>3

\* The second field of a record is as long as its token tells.
Shaped(t, x) ==
    /\ t = ALLOCATION => Len(x) = 1
    /\ t = CONTEXT_SWITCH => Len(x) = 2
    /\ t = THREAD_RECORD => x = <<1, 0>>

\* A record that is whole is laid out as it is.
LEMMA WholeLayout ==
    ASSUME file \in Seq(Nat), NEW p \in Nat, NEW t \in {ALLOCATION, CONTEXT_SWITCH, THREAD_RECORD},
           NEW x \in Seq(Nat), NEW s \in Seq(Nat), From(file, p, <<t>> \o (x \o s)),
           Shaped(t, x)
    PROVE  /\ p + 1 <= Len(file) /\ file[p + 1] = t /\ From(file, p + 1, x \o s)
           /\ Layout(p) = <<1, Len(x)>>
<1> DEFINE l == Len(file)
<1>1. t \in Nat
  BY DEF ALLOCATION, CONTEXT_SWITCH, THREAD_RECORD
<1>2. x \o s \in Seq(Nat)
  BY ConcatProperties
<1>4. From(file, p + 1, x \o s) /\ p + 1 <= l /\ file[p + 1] = t
  BY <1>1, <1>2, FromToken
<1>5. ASSUME t = THREAD_RECORD PROVE LineAt(p + 1) = 2 /\ Len(x) = 2
  <2> DEFINE q == p + 1
             z == LineAt(q)
  <2>1. Len(x) = 2 /\ x[1] = 1 /\ x[2] = 0
    BY <1>5 DEF Shaped
  <2>2. q \in Nat /\ q + Len(x) <= l /\ \A i \in 1..Len(x) : file[q + i] = x[i]
    BY <1>4, FromBehind
  <2>3. l \in Nat /\ q \in 0..l /\ 1 \in 1..Len(x) /\ 2 \in 1..Len(x)
    BY <2>1, <2>2
  <2>4. file[q + 1] = 1 /\ file[q + 2] = 0
    BY <2>1, <2>2, <2>3
  <2> HIDE DEF q, l
  <2>5. /\ z \in Nat \ {0} /\ z <= l - q + 1
        /\ \A i \in 1..(l - q) : i < z => file[q + i] # 0
        /\ z <= l - q => file[q + z] = 0
    BY <2>3, LineFacts DEF l
  <2> HIDE DEF z
  <2>6. 2 \in 1..(l - q) /\ q \in Nat /\ l \in Nat
    BY <2>1, <2>2, <2>3
  <2>7. ~(2 < z)
    BY <2>4, <2>5, <2>6
  <2>8. z # 1
    <3>1. 1 <= l - q
      BY <2>6
    <3> QED BY <2>4, <2>5, <3>1
  <2>9. z = 2
    BY <2>5, <2>7, <2>8
  <2> QED BY <2>1, <2>9 DEF q, z
<1>6. Layout(p) = <<1, Len(x)>>
  <2>1. CASE t = ALLOCATION
    BY <1>4, <2>1, LayoutOf DEF Shaped
  <2>2. CASE t = CONTEXT_SWITCH
    BY <1>4, <2>2, LayoutOf DEF ALLOCATION, CONTEXT_SWITCH, Shaped
  <2>3. CASE t = THREAD_RECORD
    <3>1. t # ALLOCATION /\ t # CONTEXT_SWITCH
      BY <2>3 DEF ALLOCATION, CONTEXT_SWITCH, THREAD_RECORD
    <3>2. Layout(p) = <<1, LineAt(p + 1)>>
      BY <1>4, <3>1, LayoutOf
    <3> QED BY <1>5, <2>3, <3>2
  <2> QED BY <2>1, <2>2, <2>3
<1> QED BY <1>4, <1>6

\* A part of a sequence by its elements.
LEMMA PartIs ==
    ASSUME NEW f \in Seq(Nat), NEW q \in Nat, NEW x \in Seq(Nat), q + Len(x) <= Len(f),
           \A i \in 1..Len(x) : f[q + i] = x[i]
    PROVE  SubSeq(f, q + 1, q + Len(x)) = x
<1> DEFINE n == Len(x)
           m == q + n
           y == SubSeq(f, q + 1, m)
<1>1. n \in Nat /\ Len(f) \in Nat /\ m \in Nat /\ m <= Len(f)
  OBVIOUS
<1>2. y \in Seq(Nat) /\ Len(y) = n /\ \A i \in 1..n : y[i] = f[q + i]
  <2> DEFINE a == q + 1
  <2>1. a \in Int /\ m \in Int /\ m - a + 1 = n /\ (a <= m <=> n # 0) /\ \A i \in 1..n : a + i - 1 = q + i
    BY <1>1
  <2>2. \A i \in a..m : f[i] \in Nat
    BY <1>1
  <2> HIDE DEF a, m, n
  <2>3. /\ SubSeq(f, a, m) \in Seq(Nat) /\ Len(SubSeq(f, a, m)) = IF a <= m THEN m - a + 1 ELSE 0
        /\ \A i \in 1..(m - a + 1) : SubSeq(f, a, m)[i] = f[a + i - 1]
    BY <2>1, <2>2, SubSeqProperties
  <2>4. Len(SubSeq(f, a, m)) = n
    BY <2>1, <2>3
  <2>5. \A i \in 1..n : SubSeq(f, a, m)[i] = f[q + i]
    BY <2>1, <2>3
  <2> QED BY <2>3, <2>4, <2>5 DEF a
<1> HIDE DEF y
<1>3. \A i \in 1..n : y[i] = x[i]
  BY <1>2
<1>4. y = x
  BY <1>2, <1>3, SeqEqual
<1> QED BY <1>4 DEF y

\* The token of a record, and the rest of it.
LEMMA TokenFirst ==
    ASSUME NEW t \in Nat, NEW s \in Seq(Nat)
    PROVE  /\ <<t>> \o s \in Seq(Nat) /\ Len(<<t>> \o s) = 1 + Len(s) /\ (<<t>> \o s)[1] = t
           /\ \A i \in 1..Len(s) : (<<t>> \o s)[1 + i] = s[i]
<1> DEFINE h == <<t>>
           g == h \o s
           n == Len(s)
<1>1. h \in Seq(Nat) /\ Len(h) = 1 /\ h[1] = t /\ n \in Nat
  OBVIOUS
<1> HIDE DEF h
<1>2. g \in Seq(Nat) /\ Len(g) = 1 + n /\ \A i \in 1..(1 + n) : g[i] = IF i <= 1 THEN h[i] ELSE s[i - 1]
  <2>1. /\ h \o s \in Seq(Nat) /\ Len(h \o s) = Len(h) + Len(s)
        /\ \A i \in 1..(Len(h) + Len(s)) : (h \o s)[i] = IF i <= Len(h) THEN h[i] ELSE s[i - Len(h)]
    BY <1>1, ConcatProperties, Zenon
  <2> QED BY <1>1, <2>1, Zenon
<1> HIDE DEF g, n
<1>3. g[1] = t
  <2>1. 1 \in 1..(1 + n)
    BY <1>1
  <2> QED BY <1>1, <1>2, <2>1
<1>4. ASSUME NEW i \in 1..n PROVE g[1 + i] = s[i]
  <2> DEFINE j == 1 + i
  <2>1. j \in 1..(1 + n) /\ ~(j <= 1) /\ j - 1 = i
    BY <1>1
  <2> HIDE DEF j
  <2>2. g[j] = s[i]
    BY <1>2, <2>1
  <2> QED BY <2>2 DEF j
<1> QED BY <1>2, <1>3, <1>4 DEF h, g, n

\* A record that is whole is read as it was written, unless it ends with a zero
\* and nothing is behind it.
LEMMA RecordRead ==
    ASSUME file \in Seq(Nat), Sized, d_bytes_read \in Nat, NEW r \in Records, NEW s \in Seq(Nat),
           s = <<>> \/ (Len(s) > 0 /\ s[1] # 0), From(file, d_bytes_read, Bytes(r) \o s), NextRecord
    PROVE  \/ /\ rstate' = rstate /\ delivered' = Append(delivered, r)
              /\ d_bytes_read' = d_bytes_read + Len(Bytes(r))
           \/ rstate' = "error" /\ delivered' = delivered /\ s = <<>> /\ Last(r[2]) = 0
<1> DEFINE p == d_bytes_read
<1>1. PICK t \in {ALLOCATION, CONTEXT_SWITCH, THREAD_RECORD}, x \in Seq(Nat) :
         /\ r = <<<<t>>, x>> /\ Bytes(r) = <<t>> \o x
         /\ t = ALLOCATION => Len(x) = 1 /\ x[1] \in 0..1
         /\ t = CONTEXT_SWITCH => Len(x) = 2 /\ x[1] \in 0..1 /\ x[2] \in 0..1
         /\ t = THREAD_RECORD => x = <<1, 0>>
  BY RecordFacts
<1> DEFINE n == Len(x)
           e == x \o s
<1>2. t \in Nat /\ t # 0 /\ t # TRAILER
  BY DEF ALLOCATION, CONTEXT_SWITCH, THREAD_RECORD, TRAILER
<1>3. n \in Nat /\ n > 0
  <2>1. t = THREAD_RECORD => Len(x) = 2
    BY <1>1
  <2> QED BY <1>1, <2>1
<1>4. e \in Seq(Nat) /\ Bytes(r) \o s = <<t>> \o e
  <2>1. <<t>> \in Seq(Nat)
    BY <1>2
  <2>2. (<<t>> \o x) \o s = <<t>> \o (x \o s)
    BY <2>1, Associates
  <2>3. x \o s \in Seq(Nat)
    BY ConcatProperties
  <2> QED BY <1>1, <2>2, <2>3
<1>5. From(file, p, <<t>> \o e)
  BY <1>4
<1>8. p \in Nat /\ p + 1 \in Nat
  OBVIOUS
<1>6. p + 1 <= Len(file) /\ file[p + 1] = t /\ From(file, p + 1, e) /\ Layout(p) = <<1, n>>
  <2>1. Shaped(t, x)
    BY <1>1 DEF Shaped
  <2>3. From(file, p, <<t>> \o (x \o s))
    BY <1>5
  <2>4. p + 1 <= Len(file) /\ file[p + 1] = t /\ From(file, p + 1, x \o s) /\ Layout(p) = <<1, Len(x)>>
    BY <1>8, <2>1, <2>3, WholeLayout, Zenon
  <2> QED BY <2>4
<1>7. Len(Bytes(r)) = 1 + n
  BY <1>1, <1>2, TokenFirst
<1>9. p + 1 + n <= Len(file) /\ \A i \in 1..n : file[p + 1 + i] = x[i]
  <2> DEFINE q == p + 1
  <2>1. q \in Nat /\ From(file, q, x \o s)
    BY <1>6, <1>8
  <2> HIDE DEF q
  <2>2. q + n <= Len(file) /\ \A i \in 1..n : file[q + i] = x[i]
    BY <2>1, FromBehind
  <2> QED BY <2>2 DEF q
<1>10. SubSeq(file, p + 2, p + 1 + n) = x
  <2> DEFINE q == p + 1
  <2>1. SubSeq(file, q + 1, q + n) = x
    BY <1>8, <1>9, PartIs
  <2>2. q + 1 = p + 2 /\ q + n = p + 1 + n
    BY <1>3, <1>8
  <2> QED BY <2>1, <2>2
<1>11. Readable(p, 1)
  <2> DEFINE g == <<t>> \o e
  <2>1. g \in Seq(Nat) /\ Len(g) = 1 + Len(e) /\ g[1] = t
    BY <1>2, <1>4, TokenFirst
  <2>2. From(file, p, g)
    BY <1>5
  <2>3. Len(e) \in Nat
    BY <1>4, LenProperties
  <2> HIDE DEF g, e, p
  <2>4. 1 \in 1..Len(g) /\ 1 \in 0..1
    BY <2>1, <2>3
  <2> QED BY <1>2, <1>8, <2>1, <2>2, <2>4, ReadableUpTo
<1>12. Layout(p)[1] = 1 /\ Layout(p)[2] = n /\ Len(Layout(p)) = 2
  BY <1>6
<1>13. CASE Gets(p, n)
  <2> DEFINE last == p + Layout(p)[1] + Layout(p)[2]
  <2>1. last = p + 1 + n /\ Least(last, Len(file)) = p + 1 + n
    BY <1>9, <1>12 DEF Least
  <2>2. ~(Len(Layout(p)) = 1)
    BY <1>12
  <2>3. /\ d_bytes_read' = last /\ UNCHANGED rstate
        /\ delivered' = Append(delivered,
              <<<<file[p + 1]>>, SubSeq(file, p + 2, Least(last, Len(file)))>>)
    <3> HIDE DEF n, e
    <3> QED BY <1>2, <1>6, <1>11, <1>12, <1>13, <2>2 DEF NextRecord
  <2> HIDE DEF last
  <2>4. delivered' = Append(delivered, r)
    BY <1>1, <1>6, <1>10, <2>1, <2>3
  <2>5. d_bytes_read' = p + Len(Bytes(r))
    <3> HIDE DEF n
    <3> QED BY <1>3, <1>7, <1>8, <2>1, <2>3
  <2> QED BY <2>3, <2>4, <2>5
<1>14. CASE ~Gets(p, n)
  <2>1. rstate' = "error" /\ delivered' = delivered
    <3> HIDE DEF n, e
    <3> QED BY <1>2, <1>6, <1>11, <1>12, <1>14 DEF NextRecord
  <2> DEFINE q == p + 1
  <2>2. q \in Nat /\ From(file, q, e) /\ Len(e) = n + Len(s)
    BY <1>6, <1>8, ConcatProperties
  <2>3. \A i \in 1..n : e[i] = x[i]
    BY ConcatProperties
  <2>4. Len(s) > 0 => e[n + 1] = s[1]
    BY <1>3, ConcatProperties
  <2>5. Len(s) \in Nat
    OBVIOUS
  <2>6. ~Readable(q, n)
    BY <1>14 DEF Gets
  <2> HIDE DEF q, e, n
  <2>7. s = <<>>
    <3> SUFFICES ASSUME Len(s) > 0, s[1] # 0 PROVE FALSE
      OBVIOUS
    <3> DEFINE j == n + 1
    <3>1. j \in 1..Len(e) /\ n \in 0..j /\ e[j] # 0
      BY <1>3, <2>2, <2>4, <2>5
    <3> HIDE DEF j
    <3> QED BY <1>4, <2>2, <2>6, <3>1, ReadableUpTo
  <2>8. x[n] = 0
    <3> SUFFICES ASSUME x[n] # 0 PROVE FALSE
      OBVIOUS
    <3>1. n \in 1..n /\ n \in 1..Len(e) /\ n \in 0..n
      BY <1>3, <2>2, <2>5
    <3>2. e[n] # 0
      BY <2>3, <3>1
    <3> QED BY <1>4, <2>2, <2>6, <3>1, <3>2, ReadableUpTo
  <2>9. Last(r[2]) = 0
    BY <1>1, <2>8 DEF Last, n
  <2> QED BY <2>1, <2>7, <2>9
<1> QED BY <1>13, <1>14

\* How much of a record there may be, by its token.
Started(a, t, k) ==
    /\ Len(t) > 0 /\ t[1] = a
    /\ a = ALLOCATION => Len(t) <= 1 + k
    /\ a = CONTEXT_SWITCH => Len(t) <= 2 + k
    /\ a = THREAD_RECORD => \A i \in 1..Len(t) : t[i] # 0

\* A record that was begun.
LEMMA PartialTokens ==
    ASSUME NEW t \in Partials, t # <<>>
    PROVE  t \in Seq(Nat) /\ \E a \in {ALLOCATION, CONTEXT_SWITCH, THREAD_RECORD} : Started(a, t, 0)
<1>1. PICK r \in Records : \E n \in 0..(Len(Bytes(r)) - 1) : t = SubSeq(Bytes(r), 1, n)
  BY DEF Partials
<1>2. PICK n \in 0..(Len(Bytes(r)) - 1) : t = SubSeq(Bytes(r), 1, n)
  BY <1>1
<1>3. PICK a \in {ALLOCATION, CONTEXT_SWITCH, THREAD_RECORD}, x \in Seq(Nat) :
         /\ r = <<<<a>>, x>> /\ Bytes(r) = <<a>> \o x
         /\ a = ALLOCATION => Len(x) = 1 /\ x[1] \in 0..1
         /\ a = CONTEXT_SWITCH => Len(x) = 2 /\ x[1] \in 0..1 /\ x[2] \in 0..1
         /\ a = THREAD_RECORD => x = <<1, 0>>
  BY RecordFacts
<1> DEFINE b == Bytes(r)
<1>4. a \in Nat /\ a # 0
  BY DEF ALLOCATION, CONTEXT_SWITCH, THREAD_RECORD
<1>5. /\ b \in Seq(Nat) /\ Len(b) = 1 + Len(x) /\ b[1] = a
      /\ \A i \in 1..Len(x) : b[1 + i] = x[i]
  <2> DEFINE g == <<a>> \o x
  <2>1. /\ g \in Seq(Nat) /\ Len(g) = 1 + Len(x) /\ g[1] = a
        /\ \A i \in 1..Len(x) : g[1 + i] = x[i]
    BY <1>4, TokenFirst, Zenon
  <2>2. b = g
    BY <1>3
  <2> HIDE DEF b, g
  <2> QED BY <2>1, <2>2
<1>6. Len(x) \in Nat
  OBVIOUS
<1> HIDE DEF b
<1>7. n \in 0..Len(b) /\ n < Len(b) /\ n \in Nat
  BY <1>2, <1>5, <1>6 DEF b
<1>8. t \in Seq(Nat) /\ Len(t) = n /\ \A i \in 1..n : t[i] = b[i]
  BY <1>2, <1>5, <1>7, FirstOf DEF b
<1>9. n # 0
  BY <1>8, EmptySeq
<1>10. t[1] = a
  <2>1. 1 \in 1..n
    BY <1>7, <1>9
  <2>2. t[1] = b[1]
    BY <1>8, <2>1
  <2> QED BY <1>5, <2>2
<1>11. a = THREAD_RECORD => Len(x) = 2 /\ x[1] = 1
  BY <1>3
<1>12. ASSUME a = THREAD_RECORD, NEW i \in 1..n PROVE t[i] # 0
  <2>1. i = 1 \/ i = 1 + 1
    <3>1. n < 1 + 2
      BY <1>5, <1>7, <1>11, <1>12
    <3> QED BY <1>7, <3>1
  <2>2. 1 \in 1..Len(x)
    BY <1>11, <1>12
  <2>3. b[1 + 1] = 1
    BY <1>5, <1>11, <1>12, <2>2
  <2> QED BY <1>4, <1>5, <1>8, <1>12, <2>1, <2>3
<1>13. Started(a, t, 0)
  <2>1. Len(t) > 0
    BY <1>7, <1>8, <1>9
  <2>2. ASSUME NEW k \in Nat, Len(x) = k PROVE Len(t) <= k + 0
    BY <1>5, <1>7, <1>8, <2>2
  <2>3. (a = ALLOCATION => Len(t) <= 1 + 0) /\ (a = CONTEXT_SWITCH => Len(t) <= 2 + 0)
    <3>1. (a = ALLOCATION => Len(x) = 1) /\ (a = CONTEXT_SWITCH => Len(x) = 2)
      BY <1>3
    <3>2. 1 \in Nat /\ 2 \in Nat
      OBVIOUS
    <3> QED BY <2>2, <3>1, <3>2, Zenon
  <2>4. a = THREAD_RECORD => \A i \in 1..Len(t) : t[i] # 0
    BY <1>8, <1>12
  <2> QED BY <1>10, <2>1, <2>3, <2>4 DEF Started
<1> QED BY <1>8, <1>13

\* What there may be behind the complete records.
LEMMA TailTokens ==
    ASSUME NEW t \in Tails, t # <<>>, t # <<TRAILER>>
    PROVE  /\ t \in Seq(Nat)
           /\ \E a \in {ALLOCATION, CONTEXT_SWITCH, THREAD_RECORD} :
                 Started(a, t, 1) /\ (t \in Partials => Started(a, t, 0))
<1>1. CASE t \in Partials
  <2>1. t \in Seq(Nat)
    BY <1>1, PartialTokens
  <2>2. PICK a \in {ALLOCATION, CONTEXT_SWITCH, THREAD_RECORD} : Started(a, t, 0)
    BY <1>1, PartialTokens
  <2>3. Started(a, t, 1)
    <3>1. Len(t) \in Nat
      BY <2>1
    <3> QED BY <2>2, <3>1 DEF Started
  <2> QED BY <2>1, <2>2, <2>3
<1>2. CASE t \notin Partials
  <2>1. PICK g \in Partials : t = g \o <<TRAILER>>
    BY <1>2 DEF Tails
  <2>2. g # <<>>
    BY <2>1, TailFacts
  <2>3. g \in Seq(Nat)
    BY <2>2, PartialTokens
  <2>4. PICK a \in {ALLOCATION, CONTEXT_SWITCH, THREAD_RECORD} : Started(a, g, 0)
    BY <2>2, PartialTokens
  <2> DEFINE h == <<TRAILER>>
             n == Len(g)
  <2>5. h \in Seq(Nat) /\ Len(h) = 1 /\ h[1] = TRAILER
    BY DEF TRAILER
  <2> HIDE DEF h
  <2>6. t \in Seq(Nat) /\ Len(t) = n + 1 /\ \A i \in 1..(n + 1) : t[i] = IF i <= n THEN g[i] ELSE h[i - n]
    <3>1. /\ g \o h \in Seq(Nat) /\ Len(g \o h) = Len(g) + Len(h)
          /\ \A i \in 1..(Len(g) + Len(h)) : (g \o h)[i] = IF i <= Len(g) THEN g[i] ELSE h[i - Len(g)]
      BY <2>3, <2>5, ConcatProperties, Zenon
    <3>2. t = g \o h
      BY <2>1 DEF h
    <3> QED BY <2>5, <3>1, <3>2, Zenon
  <2>7. n \in Nat /\ n > 0
    BY <2>3, <2>4 DEF Started
  <2>8. t[1] = a
    <3>1. g[1] = a
      BY <2>4 DEF Started
    <3> HIDE DEF n
    <3>2. 1 \in 1..(n + 1) /\ 1 <= n
      BY <2>7
    <3> QED BY <2>6, <3>1, <3>2
  <2>9. ASSUME a = THREAD_RECORD, NEW i \in 1..(n + 1) PROVE t[i] # 0
    <3>1. CASE i <= n
      <4>1. g[i] # 0
        BY <2>4, <2>9, <3>1 DEF Started
      <4> HIDE DEF n
      <4> QED BY <2>6, <3>1, <4>1
    <3>2. CASE ~(i <= n)
      <4> HIDE DEF n
      <4>1. i - n = 1
        BY <2>7, <3>2
      <4>2. t[i] = h[1]
        BY <2>6, <3>2, <4>1
      <4> QED BY <2>5, <4>2 DEF TRAILER
    <3> QED BY <3>1, <3>2
  <2>10. Started(a, t, 1)
    <3>1. Len(t) > 0
      BY <2>6, <2>7
    <3>2. a = ALLOCATION => Len(t) <= 1 + 1
      BY <2>4, <2>6, <2>7 DEF Started
    <3>3. a = CONTEXT_SWITCH => Len(t) <= 2 + 1
      BY <2>4, <2>6, <2>7 DEF Started
    <3>4. a = THREAD_RECORD => \A i \in 1..Len(t) : t[i] # 0
      <4> HIDE DEF n
      <4> QED BY <2>6, <2>9
    <3> QED BY <2>8, <3>1, <3>2, <3>3, <3>4 DEF Started
  <2> QED BY <1>2, <2>6, <2>10
<1> QED BY <1>1, <1>2

\* Nothing is read any more.
ReadsNothing == rstate' \in {"end", "error"} /\ delivered' = delivered

\* Zeros are no record.
LEMMA ZerosRead ==
    ASSUME file \in Seq(Nat), d_bytes_read \in Nat, NextRecord,
           \A i \in 1..Len(file) : i > d_bytes_read => file[i] = 0
    PROVE  ReadsNothing
<1> DEFINE p == d_bytes_read
<1>1. CASE ~Readable(p, 1)
  BY <1>1 DEF NextRecord, ReadsNothing
<1>2. CASE Readable(p, 1)
  <2>1. p + 1 <= Len(file) /\ Len(file) \in Nat
    BY <1>2 DEF Readable
  <2>2. p + 1 \in 1..Len(file) /\ p + 1 > p
    BY <2>1
  <2>3. file[p + 1] = 0
    BY <2>2
  <2>4. Layout(p) = <<1>>
    BY <2>3 DEF Layout, ALLOCATION, CONTEXT_SWITCH, THREAD_RECORD
  <2>5. Len(Layout(p)) = 1
    BY <2>4
  <2> QED BY <2>5 DEF NextRecord, ReadsNothing
<1> QED BY <1>1, <1>2

\* The trailer is the end.
LEMMA TrailerRead ==
    ASSUME NextRecord, file[d_bytes_read + 1] = TRAILER
    PROVE  rstate' = "end" /\ delivered' = delivered
BY DEF NextRecord

\* The fields of a record that was begun reach beyond what there is of it.
LEMMA LayoutCovers ==
    ASSUME file \in Seq(Nat), NEW p \in Nat, NEW t \in Seq(Nat), From(file, p, t),
           NEW a \in {ALLOCATION, CONTEXT_SWITCH, THREAD_RECORD}, NEW k \in 0..1, Started(a, t, k)
    PROVE  \E n \in Nat : Layout(p) = <<1, n>> /\ file[p + 1] = a /\ p + Len(t) < p + 1 + n + k
<1> DEFINE l == Len(file)
           m == Len(t)
<1>1. l \in Nat /\ m \in Nat /\ m > 0 /\ p + m <= l /\ k \in Nat
  BY DEF From, Started
<1>2. ASSUME NEW i \in 1..m PROVE file[p + i] = t[i]
  <2>1. i \in 1..(l - p) /\ i <= m
    BY <1>1
  <2> QED BY <2>1 DEF From
<1>3. file[p + 1] = a
  <2>1. 1 \in 1..m
    BY <1>1
  <2> QED BY <1>2, <2>1 DEF Started
<1>4. CASE a = ALLOCATION
  <2>1. Layout(p) = <<1, 1>>
    <3>1. a # CONTEXT_SWITCH /\ a # THREAD_RECORD
      BY <1>4 DEF ALLOCATION, CONTEXT_SWITCH, THREAD_RECORD
    <3>2. ALLOCATION \in {ALLOCATION, CONTEXT_SWITCH, THREAD_RECORD} /\ file[p + 1] = ALLOCATION
      BY <1>3, <1>4
    <3> QED BY <3>2, LayoutOf DEF ALLOCATION, CONTEXT_SWITCH
  <2>2. m <= 1 + k
    BY <1>4 DEF Started
  <2>3. p + m < p + 1 + 1 + k
    BY <1>1, <2>2
  <2> QED BY <1>3, <2>1, <2>3
<1>5. CASE a = CONTEXT_SWITCH
  <2>1. Layout(p) = <<1, 2>>
    <3>1. a # ALLOCATION
      BY <1>5 DEF ALLOCATION, CONTEXT_SWITCH
    <3> QED BY <1>3, <1>5, <3>1, LayoutOf
  <2>2. m <= 2 + k
    BY <1>5 DEF Started
  <2>3. p + m < p + 1 + 2 + k
    BY <1>1, <2>2
  <2> QED BY <1>3, <2>1, <2>3
<1>6. CASE a = THREAD_RECORD
  <2> DEFINE q == p + 1
             z == LineAt(q)
  <2>1. Layout(p) = <<1, z>>
    <3>1. a # ALLOCATION /\ a # CONTEXT_SWITCH
      BY <1>6 DEF ALLOCATION, CONTEXT_SWITCH, THREAD_RECORD
    <3> QED BY <1>3, <3>1, LayoutOf
  <2>2. q \in 0..l
    BY <1>1
  <2> HIDE DEF q
  <2>3. z \in Nat \ {0} /\ (z <= l - q => file[q + z] = 0)
    BY <2>2, LineFacts
  <2> HIDE DEF z, m
  <2>4. p + m < p + 1 + z
    <3> SUFFICES ASSUME z <= m - 1 PROVE FALSE
      BY <1>1, <2>3
    <3> DEFINE i == 1 + z
    <3>1. i \in 1..m /\ z <= l - q /\ q + z = p + i
      BY <1>1, <2>3 DEF q
    <3> HIDE DEF i
    <3>2. t[i] # 0
      BY <1>6, <3>1 DEF Started, m
    <3>3. file[p + i] = t[i]
      BY <1>2, <3>1
    <3> QED BY <2>3, <3>1, <3>2, <3>3
  <2>5. p + m < p + 1 + z + k
    BY <1>1, <2>3, <2>4
  <2>6. z \in Nat
    BY <2>3
  <2> QED BY <1>3, <2>1, <2>5, <2>6 DEF m
<1> QED BY <1>4, <1>5, <1>6

\* A record that was begun is not read, or the zeros behind it are taken for
\* the rest of it.
LEMMA TailRead ==
    ASSUME file \in Seq(Nat), Sized, d_bytes_read \in Nat, NEW t \in Tails, t # <<>>, t # <<TRAILER>>,
           From(file, d_bytes_read, t), NextRecord
    PROVE  \/ ReadsNothing
           \/ /\ t \in Partials => lz4 # FALSE
              /\ rstate' = rstate /\ d_bytes_read' \in Nat
              /\ \E e : delivered' = Append(delivered, e)
              /\ \A i \in 1..Len(file) : i > d_bytes_read' => file[i] = 0
<1> DEFINE p == d_bytes_read
           m == Len(t)
           l == Len(file)
<1>1. t \in Seq(Nat)
  BY TailTokens
<1>2. l \in Nat /\ m \in Nat /\ p \in Nat /\ p + m <= l /\ m > 0
  BY <1>1 DEF From
<1>3. ASSUME NEW k \in 0..1, NEW a \in {ALLOCATION, CONTEXT_SWITCH, THREAD_RECORD}, Started(a, t, k),
             NEW n \in Nat, Layout(p) = <<1, n>>, file[p + 1] = a, p + m < p + 1 + n + k
      PROVE  \/ ReadsNothing
             \/ /\ Gets(p, n) /\ rstate' = rstate /\ d_bytes_read' = p + 1 + n
                /\ \E e : delivered' = Append(delivered, e)
  <2>1. Layout(p)[1] = 1 /\ Layout(p)[2] = n /\ Len(Layout(p)) = 2
    BY <1>3
  <2> HIDE DEF m, l
  <2> QED BY <2>1 DEF NextRecord, ReadsNothing
<1>4. ASSUME NEW q \in Nat, p + m <= q, NEW i \in 1..l, i > q PROVE file[i] = 0
  <2> DEFINE j == i - p
  <2>1. j \in 1..(l - p) /\ ~(j <= m) /\ p + j = i
    BY <1>2, <1>4
  <2> HIDE DEF j
  <2>2. file[p + j] = 0
    BY <2>1 DEF From
  <2> QED BY <2>1, <2>2
<1>5. CASE t \notin Partials
  <2>1. PICK a \in {ALLOCATION, CONTEXT_SWITCH, THREAD_RECORD} : Started(a, t, 1)
    BY TailTokens
  <2>2. PICK n \in Nat : Layout(p) = <<1, n>> /\ file[p + 1] = a /\ p + m < p + 1 + n + 1
    BY <1>1, <1>2, <2>1, LayoutCovers, Bits
  <2>3. p + 1 + n \in Nat /\ p + m <= p + 1 + n
    BY <1>2, <2>2
  <2>4. \/ ReadsNothing
        \/ /\ Gets(p, n) /\ rstate' = rstate /\ d_bytes_read' = p + 1 + n
           /\ \E e : delivered' = Append(delivered, e)
    BY <1>3, <2>1, <2>2, Bits
  <2> QED BY <1>4, <1>5, <2>3, <2>4
<1>6. CASE t \in Partials
  <2>1. PICK a \in {ALLOCATION, CONTEXT_SWITCH, THREAD_RECORD} : Started(a, t, 0)
    BY <1>6, PartialTokens
  <2>2. PICK n \in Nat : Layout(p) = <<1, n>> /\ file[p + 1] = a /\ p + m < p + 1 + n + 0
    BY <1>1, <1>2, <2>1, LayoutCovers, Bits
  <2>3. p + 1 + n \in Nat /\ p + m <= p + 1 + n /\ p + m < p + 1 + n
    BY <1>2, <2>2
  <2>4. \/ ReadsNothing
        \/ /\ Gets(p, n) /\ rstate' = rstate /\ d_bytes_read' = p + 1 + n
           /\ \E e : delivered' = Append(delivered, e)
    BY <1>3, <2>1, <2>2, Bits
  <2>5. Gets(p, n) => lz4 # FALSE
    <3> SUFFICES ASSUME Gets(p, n), lz4 = FALSE PROVE FALSE
      OBVIOUS
    <3>1. d_readable_size = FindReadableSize
      BY DEF Sized
    <3>2. FindReadableSize <= p + m
      BY <1>1, <1>2, SizeWithin
    <3>3. FindReadableSize # 0
      <4>1. t[1] # 0
        BY <2>1 DEF Started, ALLOCATION, CONTEXT_SWITCH, THREAD_RECORD
      <4>2. 1 \in 1..Len(t) /\ 1 \in 0..1
        BY <1>2
      <4> QED BY <1>1, <1>2, <4>1, <4>2, ReadableUpTo
    <3>4. p + 1 + n <= FindReadableSize
      BY <3>1, <3>3 DEF Gets, Readable
    <3>5. FindReadableSize \in Nat
      BY SizeFacts
    <3> QED BY <1>2, <2>3, <3>2, <3>4, <3>5
  <2> QED BY <1>4, <2>3, <2>4, <2>5
<1> QED BY <1>5, <1>6

\* What the file of a process that has ended holds: a header, the complete
\* records and a tail, that is the trailer unless the process was killed or a
\* write has failed.
Ended(b, t) ==
    /\ b \in 0..1 /\ t \in Tails /\ Holds(file, b, t)
    /\ broken \/ t = <<TRAILER>> \/ (killed /\ t \in Partials)
    /\ killed \/ broken \/ b = 1

\* The reader has read the first of the records, or all of them and the zeros
\* behind a record that was begun.
Reached ==
    \/ \E k \in 0..Len(written) :
          delivered = SubSeq(written, 1, k) /\ d_bytes_read = 3 + Len(Stream(SubSeq(written, 1, k)))
    \/ /\ broken /\ (\E e : delivered = Append(written, e)) /\ d_bytes_read \in Nat
       /\ \A i \in 1..Len(file) : i > d_bytes_read => file[i] = 0

\* What has been read when there is nothing else to read.
AllRead ==
    \/ delivered = written /\ (killed \/ broken \/ (rstate = "end" /\ header = 1))
    \/ /\ killed \/ broken
       /\ \E k \in 0..(Len(written) - 1) :
             k + 1 = Len(written) /\ delivered = SubSeq(written, 1, k) /\ Last(written[k + 1][2]) = 0
    \/ broken /\ \E e : delivered = Append(written, e)

FinallyRead == written \in Seq(Records) /\ rstate \in {"end", "error"} /\ AllRead

\* The invariant of the reader.
RInv ==
    /\ rstate # "closed" => Sized
    /\ rstate \in {"closed", "header"} => delivered = <<>>
    /\ rstate = "reading" => Reached /\ \E b \in 0..1, t \in Tails : Ended(b, t) /\ header = b
    /\ CaptureIsReadable

\* The file when it is read.
LEMMA EndedFile ==
    ASSUME WInv, stage \in {"closed", "killed"}
    PROVE  \/ \E b \in 0..1, t \in Tails : Ended(b, t)
           \/ /\ written = <<>> /\ (killed \/ broken)
              /\ \E b \in 0..1, n \in 0..2 : Padded(file, SubSeq(H(b), 1, n))
<1>1. killed = (stage = "killed") /\ broken \in BOOLEAN
  BY DEF WInv, Queued
<1>2. ASSUME NEW b \in 0..1, NEW t \in Tails, Clean(t), Holds(file, b, t), killed \/ broken
      PROVE  Ended(b, t)
  BY <1>1, <1>2 DEF Ended, Clean
<1>3. ASSUME LeftIn(file), killed \/ broken
      PROVE  \/ \E b \in 0..1, t \in Tails : Ended(b, t)
             \/ /\ written = <<>> /\ (killed \/ broken)
                /\ \E b \in 0..1, n \in 0..2 : Padded(file, SubSeq(H(b), 1, n))
  BY <1>2, <1>3, Zenon DEF LeftIn
<1>4. CASE stage = "killed"
  <2>1. LeftIn(file) /\ killed
    BY <1>1, <1>4 DEF WInv, Contents, OfEnd
  <2> QED BY <1>3, <2>1
<1>5. CASE stage = "closed"
  <2>1. (broken /\ LeftIn(file)) \/ Holds(file, 1, <<TRAILER>>)
    BY <1>5 DEF WInv, Contents, OfEnd
  <2>2. CASE broken /\ LeftIn(file)
    BY <1>3, <2>2
  <2>3. CASE Holds(file, 1, <<TRAILER>>)
    <3>1. Ended(1, <<TRAILER>>) /\ <<TRAILER>> \in Tails
      BY <2>3, Bits, TailFacts DEF Ended
    <3> QED BY <3>1, Bits, Zenon
  <2> QED BY <2>1, <2>2, <2>3
<1> QED BY <1>4, <1>5

\* What is read in the end is what the reader should have read.
LEMMA FinallyReadable == FinallyRead => CaptureIsReadable
<1> SUFFICES ASSUME FinallyRead PROVE CaptureIsReadable
  OBVIOUS
<1> DEFINE n == Len(written)
<1>1. written \in Seq(Records) /\ n \in Nat /\ rstate \in {"end", "error"}
  BY DEF FinallyRead
<1>2. rstate # "not a capture"
  BY <1>1
<1>3. NothingElseToRead
  BY <1>2 DEF NothingElseToRead
<1>4. SubSeq(written, 1, n) = written
  BY <1>1, SubSeqFull
<1>5. CASE delivered = written /\ (killed \/ broken \/ (rstate = "end" /\ header = 1))
  <2>1. Lost = 0
    BY <1>1, <1>5 DEF Lost
  <2>2. IsPrefixedBy(written, delivered)
    BY <1>1, <1>4, <1>5 DEF IsPrefixedBy
  <2>3. KilledCaptureIsReadable
    <3>1. Lost >= 0 /\ ~(Lost > 0)
      BY <2>1
    <3> QED BY <2>2, <3>1, Zenon DEF KilledCaptureIsReadable
  <2>4. ClosedCaptureIsWhole
    BY <1>5 DEF ClosedCaptureIsWhole
  <2> QED BY <1>3, <2>3, <2>4 DEF CaptureIsReadable
<1>6. CASE /\ killed \/ broken
           /\ \E k \in 0..(Len(written) - 1) :
                 k + 1 = Len(written) /\ delivered = SubSeq(written, 1, k) /\ Last(written[k + 1][2]) = 0
  <2>1. PICK k \in 0..(Len(written) - 1) :
           k + 1 = Len(written) /\ delivered = SubSeq(written, 1, k) /\ Last(written[k + 1][2]) = 0
    BY <1>6
  <2>2. Len(delivered) = k
    BY <1>1, <2>1, OneMore
  <2>3. Lost = 1
    BY <1>1, <2>1, <2>2 DEF Lost
  <2>4. IsPrefixedBy(written, delivered)
    BY <1>1, <2>1, <2>2 DEF IsPrefixedBy
  <2>5. Last(Last(written)[2]) = 0
    <3>1. Last(written) = written[k + 1]
      BY <2>1 DEF Last
    <3> QED BY <2>1, <3>1
  <2>6. KilledCaptureIsReadable
    <3>1. Lost >= 0
      BY <2>3
    <3> QED BY <1>6, <2>3, <2>4, <2>5, <3>1, Zenon DEF KilledCaptureIsReadable
  <2>7. ClosedCaptureIsWhole
    BY <1>6 DEF ClosedCaptureIsWhole
  <2> QED BY <1>3, <2>6, <2>7 DEF CaptureIsReadable
<1>7. CASE broken /\ \E e : delivered = Append(written, e)
  <2>1. PICK e : delivered = Append(written, e)
    BY <1>7
  <2> DEFINE S == Records \cup {e}
  <2>2. written \in Seq(S) /\ e \in S
    BY <1>1
  <2> HIDE DEF S
  <2>3. Len(delivered) = n + 1 /\ delivered \in Seq(S) /\ \A i \in 1..n : delivered[i] = written[i]
    BY <2>1, <2>2, AppendProperties
  <2>4. Lost = -1
    BY <1>1, <2>3 DEF Lost
  <2>5. SubSeq(delivered, 1, n) = written
    <3> DEFINE s == SubSeq(delivered, 1, n)
    <3> HIDE DEF n
    <3>1. n \in 0..Len(delivered) /\ n \in Nat
      BY <1>1, <2>3
    <3>2. s \in Seq(S) /\ Len(s) = n /\ \A i \in 1..n : s[i] = delivered[i]
      BY <2>3, <3>1
    <3>3. \A i \in 1..n : s[i] = written[i]
      BY <2>3, <3>2
    <3> HIDE DEF s
    <3> QED BY <2>2, <3>2, <3>3, SeqEqual DEF n, s
  <2>6. IsPrefixedBy(delivered, written)
    BY <1>1, <2>3, <2>5 DEF IsPrefixedBy
  <2>7. KilledCaptureIsReadable
    <3>1. ~(Lost >= 0)
      BY <2>4
    <3> QED BY <1>7, <2>4, <2>6, <3>1 DEF KilledCaptureIsReadable
  <2>8. ClosedCaptureIsWhole
    BY <1>7 DEF ClosedCaptureIsWhole
  <2> QED BY <1>3, <2>7, <2>8 DEF CaptureIsReadable
<1> QED BY <1>5, <1>6, <1>7 DEF FinallyRead, AllRead

\* What is behind the records that have been read.
LEMMA BehindRead ==
    ASSUME WInv, NEW b \in 0..1, NEW t \in Tails, Ended(b, t), NEW k \in 0..Len(written), NEW rest \in Seq(Nat),
           Stream(written) \o t = Stream(SubSeq(written, 1, k)) \o rest
    PROVE  /\ 3 + Len(Stream(SubSeq(written, 1, k))) \in Nat
           /\ From(file, 3 + Len(Stream(SubSeq(written, 1, k))), rest)
<1> DEFINE s == Stream(SubSeq(written, 1, k))
           c == H(b) \o s
<1>1. written \in Seq(Records) /\ file \in Seq(Nat) /\ b \in Nat /\ t \in Seq(Nat)
  BY TailFacts DEF WInv, Placed, Queued
<1>2. s \in Seq(Nat)
  <2>1. SubSeq(written, 1, k) \in Seq(Records)
    BY <1>1, StreamSplit
  <2> QED BY <2>1, StreamFacts
<1>3. H(b) \in Seq(Nat) /\ H(b) \o Stream(written) \o t = H(b) \o (Stream(written) \o t)
  BY <1>1, HeldBytes
<1> HIDE DEF s
<1>4. Stream(written) \o t = s \o rest
  BY DEF s
<1>5. c \in Seq(Nat) /\ Len(c) = 3 + Len(s)
  BY <1>1, <1>2, HeaderAt
<1>6. H(b) \o (s \o rest) = c \o rest
  <2>1. (H(b) \o s) \o rest = H(b) \o (s \o rest)
    BY <1>2, <1>3, Associates
  <2> QED BY <2>1
<1> HIDE DEF c
<1>7. Padded(file, c \o rest)
  BY <1>3, <1>4, <1>6 DEF Ended, Holds
<1>8. From(file, Len(c), rest)
  BY <1>1, <1>5, <1>7, PaddedFrom
<1>9. Len(s) \in Nat
  BY <1>2, LenProperties
<1> QED BY <1>5, <1>8, <1>9 DEF s

\* The first of the records, and the rest of them.
LEMMA TailIsToken ==
    ASSUME NEW t \in Tails
    PROVE  t \in Seq(Nat) /\ (t = <<>> \/ (Len(t) > 0 /\ t[1] # 0))
<1>1. t \in Seq(Nat)
  BY TailFacts
<1>2. CASE t = <<>>
  BY <1>1, <1>2
<1>3. CASE t = <<TRAILER>>
  BY <1>1, <1>3 DEF TRAILER
<1>4. CASE t # <<>> /\ t # <<TRAILER>>
  <2>1. PICK a \in {ALLOCATION, CONTEXT_SWITCH, THREAD_RECORD} : Started(a, t, 1)
    BY <1>4, TailTokens
  <2> QED BY <1>1, <2>1 DEF Started, ALLOCATION, CONTEXT_SWITCH, THREAD_RECORD
<1> QED BY <1>2, <1>3, <1>4

\* The reader gets the next of the records.
LEMMA NextOfRecords ==
    ASSUME WInv, RInv, NextRecord, NEW b \in 0..1, NEW t \in Tails, Ended(b, t), header = b,
           NEW k \in 0..(Len(written) - 1), delivered = SubSeq(written, 1, k),
           d_bytes_read = 3 + Len(Stream(SubSeq(written, 1, k)))
    PROVE  (Reached' /\ rstate' = rstate) \/ FinallyRead'
<1> DEFINE s == Stream(SubSeq(written, 1, k))
           r == written[k + 1]
           w == SubSeq(written, 1, k + 1)
<1>1. written \in Seq(Records) /\ file \in Seq(Nat) /\ Sized /\ rstate = "reading"
  BY DEF WInv, Placed, Queued, RInv, NextRecord
<1>2. written' = written /\ killed' = killed /\ broken' = broken /\ file' = file
  BY DEF NextRecord, writer, sink
<1>3. r \in Records /\ w = Append(SubSeq(written, 1, k), r) /\ Stream(w) = s \o Bytes(r)
  BY <1>1, OneMore, StreamStep
<1>4. t \in Seq(Nat) /\ (t = <<>> \/ t[1] # 0)
  BY TailIsToken
<1>5. PICK more \in Seq(Nat) :
         /\ Stream(written) \o t = s \o (Bytes(r) \o more)
         /\ more = <<>> \/ (Len(more) > 0 /\ more[1] # 0)
         /\ more = <<>> => k + 1 = Len(written) /\ t = <<>>
  BY <1>1, <1>4, NextAt
<1>6. d_bytes_read \in Nat /\ From(file, d_bytes_read, Bytes(r) \o more)
  <2> DEFINE rest == Bytes(r) \o more
  <2>1. rest \in Seq(Nat)
    BY <1>3, RecordFields, ConcatProperties
  <2>2. k \in 0..Len(written)
    BY <1>1
  <2>3. Stream(written) \o t = s \o rest
    BY <1>5
  <2> HIDE DEF rest
  <2>4. 3 + Len(s) \in Nat /\ From(file, 3 + Len(s), rest)
    BY <2>1, <2>2, <2>3, BehindRead
  <2> QED BY <2>4 DEF rest
<1> HIDE DEF r
<1>7. \/ /\ rstate' = rstate /\ delivered' = Append(delivered, r)
         /\ d_bytes_read' = d_bytes_read + Len(Bytes(r))
      \/ rstate' = "error" /\ delivered' = delivered /\ more = <<>> /\ Last(r[2]) = 0
  BY <1>1, <1>3, <1>5, <1>6, RecordRead
<1>8. CASE /\ rstate' = rstate /\ delivered' = Append(delivered, r)
           /\ d_bytes_read' = d_bytes_read + Len(Bytes(r))
  <2>1. delivered' = w
    BY <1>3, <1>8
  <2>2. Len(Stream(w)) = Len(s) + Len(Bytes(r)) /\ Len(s) \in Nat /\ Len(Bytes(r)) \in Nat
    <3>1. SubSeq(written, 1, k) \in Seq(Records)
      BY <1>1, OneMore
    <3>2. s \in Seq(Nat) /\ Bytes(r) \in Seq(Nat)
      BY <1>3, <3>1, StreamFacts, RecordFields
    <3> DEFINE y == Bytes(r)
    <3> HIDE DEF s, y, w
    <3>3. Len(s \o y) = Len(s) + Len(y)
      BY <3>2, ConcatProperties DEF y
    <3> QED BY <1>3, <3>2, <3>3, LenProperties DEF y
  <2>3. d_bytes_read' = 3 + Len(Stream(w))
    <3> HIDE DEF s, w
    <3>1. d_bytes_read = 3 + Len(s)
      BY DEF s
    <3> QED BY <1>8, <2>2, <3>1
  <2>4. k + 1 \in 0..Len(written)
    BY <1>1
  <2>5. \E j \in 0..Len(written)' : /\ delivered' = SubSeq(written', 1, j)
                                    /\ d_bytes_read' = 3 + Len(Stream(SubSeq(written', 1, j)))
    BY <1>2, <2>1, <2>3, <2>4, Zenon
  <2> QED BY <1>8, <2>5 DEF Reached, Stream
<1>9. CASE rstate' = "error" /\ delivered' = delivered /\ more = <<>> /\ Last(r[2]) = 0
  <2>1. k + 1 = Len(written) /\ t = <<>>
    BY <1>5, <1>9
  <2>2. killed \/ broken
    <3>1. t # <<TRAILER>>
      BY <2>1
    <3> QED BY <3>1 DEF Ended
  <2>3. AllRead'
    BY <1>2, <1>9, <2>1, <2>2, Zenon DEF AllRead, r
  <2> QED BY <1>1, <1>2, <1>9, <2>3 DEF FinallyRead
<1> QED BY <1>7, <1>8, <1>9

\* The reader has got all of the records.
LEMMA BehindRecords ==
    ASSUME WInv, RInv, NextRecord, NEW b \in 0..1, NEW t \in Tails, Ended(b, t), header = b,
           delivered = written, d_bytes_read = 3 + Len(Stream(written))
    PROVE  (Reached' /\ rstate' = rstate) \/ FinallyRead'
<1> DEFINE n == Len(written)
<1>1. /\ written \in Seq(Records) /\ file \in Seq(Nat) /\ Sized /\ rstate = "reading"
      /\ killed = (stage = "killed") /\ (lz4 => stage = "closed") /\ lz4 \in BOOLEAN
  BY DEF WInv, Placed, Queued, RInv, NextRecord
<1>2. written' = written /\ killed' = killed /\ broken' = broken /\ file' = file /\ header' = header
  BY DEF NextRecord, writer, sink
<1>3. t \in Seq(Nat) /\ (t = <<>> \/ (Len(t) > 0 /\ t[1] # 0))
  BY TailIsToken
<1>4. d_bytes_read \in Nat /\ From(file, d_bytes_read, t)
  <2>1. n \in 0..n /\ SubSeq(written, 1, n) = written
    <3>1. n \in Nat
      BY <1>1
    <3>2. SubSeq(written, 1, n) = written
      BY <1>1, SubSeqFull
    <3> QED BY <3>1, <3>2
  <2>2. Stream(written) \o t = Stream(SubSeq(written, 1, n)) \o t
    BY <2>1
  <2>3. /\ 3 + Len(Stream(SubSeq(written, 1, n))) \in Nat
        /\ From(file, 3 + Len(Stream(SubSeq(written, 1, n))), t)
    BY <1>3, <2>1, <2>2, BehindRead
  <2> QED BY <2>1, <2>3
<1>5. ASSUME ReadsNothing, killed \/ broken \/ (rstate' = "end" /\ header = 1) PROVE FinallyRead'
  <2>1. AllRead'
    BY <1>2, <1>5 DEF AllRead, ReadsNothing
  <2> QED BY <1>1, <1>2, <1>5, <2>1 DEF FinallyRead, ReadsNothing
<1>6. CASE t = <<>>
  <2>1. \A i \in 1..Len(file) : i > d_bytes_read => file[i] = 0
    <3> SUFFICES ASSUME NEW i \in 1..Len(file), i > d_bytes_read PROVE file[i] = 0
      OBVIOUS
    <3> DEFINE j == i - d_bytes_read
    <3>1. j \in 1..(Len(file) - d_bytes_read) /\ d_bytes_read + j = i
      BY <1>1, <1>4
    <3>2. Len(t) = 0
      BY <1>6
    <3>3. ~(j <= Len(t))
      BY <3>1, <3>2
    <3> HIDE DEF j
    <3>4. file[d_bytes_read + j] = 0
      BY <1>4, <3>1, <3>3, Zenon DEF From
    <3> QED BY <3>1, <3>4
  <2>2. ReadsNothing
    BY <1>1, <1>4, <2>1, ZerosRead
  <2>3. killed \/ broken
    <3>1. t # <<TRAILER>>
      BY <1>6
    <3> QED BY <3>1 DEF Ended
  <2> QED BY <1>5, <2>2, <2>3
<1>7. CASE t = <<TRAILER>>
  <2>1. file[d_bytes_read + 1] = TRAILER
    <3>1. Len(t) = 1 /\ t[1] = TRAILER
      BY <1>7
    <3>2. 1 \in 1..(Len(file) - d_bytes_read) /\ 1 <= Len(t)
      BY <1>1, <1>4, <3>1 DEF From
    <3> QED BY <1>4, <3>1, <3>2 DEF From
  <2>2. rstate' = "end" /\ delivered' = delivered
    BY <2>1, TrailerRead
  <2>3. killed \/ broken \/ header = 1
    BY DEF Ended
  <2> QED BY <1>5, <2>2, <2>3 DEF ReadsNothing
<1>8. CASE t # <<>> /\ t # <<TRAILER>>
  <2>1. broken \/ (killed /\ t \in Partials)
    BY <1>8 DEF Ended
  <2>2. \/ ReadsNothing
        \/ /\ t \in Partials => lz4 # FALSE
           /\ rstate' = rstate /\ d_bytes_read' \in Nat
           /\ \E e : delivered' = Append(delivered, e)
           /\ \A i \in 1..Len(file) : i > d_bytes_read' => file[i] = 0
    BY <1>1, <1>4, <1>8, TailRead
  <2>3. CASE ReadsNothing
    BY <1>5, <2>1, <2>3
  <2>4. CASE /\ t \in Partials => lz4 # FALSE
             /\ rstate' = rstate /\ d_bytes_read' \in Nat
             /\ \E e : delivered' = Append(delivered, e)
             /\ \A i \in 1..Len(file) : i > d_bytes_read' => file[i] = 0
    <3>1. broken
      <4>1. ~(killed /\ t \in Partials)
        <5> SUFFICES ASSUME killed, t \in Partials PROVE FALSE
          OBVIOUS
        <5>1. stage = "killed" /\ stage = "closed"
          BY <1>1, <2>4
        <5> QED BY <5>1
      <4> QED BY <2>1, <4>1
    <3> QED BY <1>2, <2>4, <3>1 DEF Reached
  <2> QED BY <2>2, <2>3, <2>4
<1> QED BY <1>6, <1>7, <1>8

\* As long as it is written nobody reads.
LEMMA WritersRead ==
    ASSUME rstate = "closed", RInv, rstate' = rstate, delivered' = delivered
    PROVE  RInv'
<1>1. CaptureIsReadable'
  BY DEF CaptureIsReadable, KilledCaptureIsReadable, NothingElseToRead, ClosedCaptureIsWhole, IsRead
<1> QED BY <1>1 DEF RInv

\* The source is opened.
LEMMA OpenReads ==
    ASSUME RInv, Open
    PROVE  RInv'
<1>1. /\ rstate = "closed" /\ rstate' = "header" /\ delivered' = delivered /\ lz4' = lz4 /\ file' = file
      /\ d_readable_size' = IF lz4 THEN 0 ELSE FindReadableSize
  BY DEF Open, sink
<1>2. CaptureIsReadable'
  BY <1>1 DEF CaptureIsReadable, KilledCaptureIsReadable, NothingElseToRead, ClosedCaptureIsWhole, IsRead
<1>3. Sized'
  BY <1>1 DEF Sized, FindReadableSize
<1>4. delivered' = <<>>
  BY <1>1 DEF RInv
<1> QED BY <1>1, <1>2, <1>3, <1>4 DEF RInv

\* What follows the header begins with a token.
LEMMA FirstIsToken ==
    ASSUME NEW w \in Seq(Records), NEW t \in Tails, w # <<>> \/ t # <<>>
    PROVE  Len(Stream(w) \o t) > 0 /\ (Stream(w) \o t)[1] # 0
<1> DEFINE s == Stream(w) \o t
<1>1. t \in Seq(Nat) /\ (t = <<>> \/ (Len(t) > 0 /\ t[1] # 0))
  BY TailIsToken
<1>2. CASE w = <<>>
  <2>1. s = t
    BY <1>1, <1>2, StreamOfNone, ConcatEmptySeq
  <2> HIDE DEF s
  <2>2. Len(s) > 0 /\ s[1] # 0
    BY <1>1, <1>2, <2>1
  <2> QED BY <2>2 DEF s
<1>3. CASE w # <<>>
  <2> DEFINE k == 0
             r == w[k + 1]
             u == Stream(SubSeq(w, 1, k))
  <2>1. k \in 0..(Len(w) - 1)
    <3>1. Len(w) \in Nat /\ Len(w) # 0
      BY <1>3, EmptySeq
    <3> QED BY <3>1
  <2>2. SubSeq(w, 1, k) = <<>>
    BY SubSeqEmpty
  <2>3. u = <<>>
    BY <2>2, StreamOfNone
  <2> HIDE DEF k
  <2>4. r \in Records
    BY <2>1, OneMore
  <2>5. PICK more \in Seq(Nat) : s = u \o (Bytes(r) \o more)
    <3>1. t = <<>> \/ t[1] # 0
      BY <1>1
    <3>2. \E more \in Seq(Nat) :
             /\ Stream(w) \o t = Stream(SubSeq(w, 1, k)) \o (Bytes(w[k + 1]) \o more)
             /\ more = <<>> \/ (Len(more) > 0 /\ more[1] # 0)
             /\ more = <<>> => k + 1 = Len(w) /\ t = <<>>
      BY <1>1, <2>1, <3>1, NextAt, Zenon
    <3> QED BY <3>2, Zenon
  <2>6. PICK a \in {ALLOCATION, CONTEXT_SWITCH, THREAD_RECORD}, x \in Seq(Nat) : Bytes(r) = <<a>> \o x
    BY <2>4, RecordFacts
  <2>7. a \in Nat /\ a # 0
    BY DEF ALLOCATION, CONTEXT_SWITCH, THREAD_RECORD
  <2> HIDE DEF u, s, r
  <2> DEFINE y == Bytes(r) \o more
  <2>8. y = <<a>> \o (x \o more) /\ x \o more \in Seq(Nat)
    <3>1. <<a>> \in Seq(Nat)
      BY <2>7
    <3>2. (<<a>> \o x) \o more = <<a>> \o (x \o more)
      BY <3>1, Associates
    <3>3. x \o more \in Seq(Nat)
      BY ConcatProperties
    <3> QED BY <2>6, <3>2, <3>3
  <2> DEFINE z == x \o more
             g == <<a>> \o z
  <2>9. z \in Seq(Nat) /\ y = g
    BY <2>8
  <2> HIDE DEF z, y
  <2>10. g \in Seq(Nat) /\ Len(g) = 1 + Len(z) /\ g[1] = a /\ Len(z) \in Nat
    BY <2>7, <2>9, TokenFirst, LenProperties, Zenon
  <2> HIDE DEF g
  <2>11. s = y
    <3>1. <<>> \o y = y
      BY <2>9, <2>10, ConcatEmptySeq
    <3> QED BY <2>3, <2>5, <3>1 DEF y
  <2>12. Len(s) > 0 /\ s[1] # 0
    BY <2>7, <2>9, <2>10, <2>11
  <2> QED BY <2>12 DEF s
<1> QED BY <1>2, <1>3

\* The header of a capture, and what can be read of it.
LEMMA HeaderBytes ==
    ASSUME file \in Seq(Nat), written \in Seq(Records), Sized,
           NEW b \in 0..1, NEW t \in Tails, Holds(file, b, t)
    PROVE  /\ Len(file) >= 3 /\ file[1] = MAGIC /\ file[2] = b
           /\ written # <<>> \/ t # <<>> => Readable(0, 3)
<1> DEFINE s == Stream(written) \o t
           g == H(b) \o s
           l == Len(file)
           n == Len(s)
<1>1. t \in Seq(Nat) /\ b \in Nat
  BY TailFacts
<1>2. s \in Seq(Nat) /\ H(b) \o Stream(written) \o t = g
  BY <1>1, HeldBytes
<1>3. written # <<>> \/ t # <<>> => n > 0 /\ s[1] # 0
  BY FirstIsToken
<1> HIDE DEF s
<1>4. /\ g \in Seq(Nat) /\ Len(g) = 3 + n /\ g[1] = MAGIC /\ g[2] = b
      /\ \A i \in 1..n : g[3 + i] = s[i]
  <2>1. Headed(g, b, s)
    BY <1>1, <1>2, HeadedBytes, Zenon
  <2> HIDE DEF g
  <2> QED BY <2>1, Zenon DEF Headed
<1>5. Padded(file, g)
  BY <1>2 DEF Holds
<1> HIDE DEF g
<1>6. n \in Nat /\ l \in Nat
  BY <1>2
<1>7. Len(g) <= l /\ \A i \in 1..l : file[i] = IF i <= Len(g) THEN g[i] ELSE 0
  BY <1>5 DEF Padded
<1> HIDE DEF l, n
<1>8. l >= 3 /\ 1 \in 1..l /\ 2 \in 1..l /\ 1 <= Len(g) /\ 2 <= Len(g)
  BY <1>4, <1>6, <1>7
<1>9. file[1] = MAGIC /\ file[2] = b
  BY <1>4, <1>7, <1>8
<1>10. ASSUME n > 0, s[1] # 0 PROVE Readable(0, 3)
  <2> DEFINE p == 0
  <2>1. p \in Nat /\ 4 \in 1..Len(g) /\ 3 \in 0..4 /\ 1 \in 1..n
    BY <1>4, <1>6, <1>10
  <2>2. g[4] # 0
    <3>1. g[3 + 1] = s[1]
      BY <1>4, <2>1
    <3> QED BY <1>10, <3>1
  <2>3. From(file, p, g)
    <3>1. p + Len(g) <= Len(file)
      BY <1>4, <1>6, <1>7 DEF l
    <3>2. Len(file) - p = l /\ \A i \in 1..l : p + i = i
      BY <1>6 DEF l
    <3>3. \A i \in 1..(Len(file) - p) : file[p + i] = IF i <= Len(g) THEN g[i] ELSE 0
      <4> HIDE DEF p
      <4> QED BY <1>7, <3>2
    <3> QED BY <3>1, <3>3 DEF From
  <2> HIDE DEF p
  <2>4. Readable(p, 3)
    BY <1>4, <2>1, <2>2, <2>3, ReadableUpTo
  <2> QED BY <2>4 DEF p
<1> QED BY <1>3, <1>8, <1>9, <1>10 DEF l

\* A header that has not been written to its end is one, with zeros.
LEMMA PartialHeader ==
    ASSUME file \in Seq(Nat), NEW b \in 0..1, NEW n \in 0..2, Padded(file, SubSeq(H(b), 1, n)),
           Len(file) >= 3, file[1] = MAGIC
    PROVE  \E c \in 0..1 : Padded(file, H(c)) /\ file[2] = c
<1> DEFINE h == H(b)
           g == SubSeq(h, 1, n)
           c == IF n = 2 THEN b ELSE 0
           l == Len(file)
<1>1. h \in Seq(Nat) /\ Len(h) = 3 /\ h[1] = MAGIC /\ h[2] = b
  BY DEF H, MAGIC
<1>2. H(c) \in Seq(Nat) /\ Len(H(c)) = 3 /\ H(c)[1] = MAGIC /\ H(c)[2] = c /\ H(c)[3] = 0
  BY DEF H, MAGIC
<1>3. l \in Nat /\ l >= 3
  OBVIOUS
<1> HIDE DEF h
<1>4. Len(g) = n /\ \A i \in 1..n : g[i] = h[i]
  <2>1. n \in 0..Len(h)
    BY <1>1
  <2> QED BY <1>1, <2>1, FirstOf
<1>5. \A i \in 1..l : file[i] = IF i <= Len(g) THEN g[i] ELSE 0
  BY DEF Padded, h
<1> HIDE DEF g, l
<1>6. n # 0
  <2> SUFFICES ASSUME n = 0 PROVE FALSE
    OBVIOUS
  <2>1. 1 \in 1..l /\ ~(1 <= Len(g))
    BY <1>3, <1>4
  <2>2. file[1] = 0
    BY <1>5, <2>1
  <2> QED BY <2>2 DEF MAGIC
<1>7. file[2] = c
  <2>1. 2 \in 1..l /\ (n = 2 => 2 \in 1..n /\ 2 <= n) /\ (n # 2 => ~(2 <= n))
    BY <1>3
  <2> QED BY <1>1, <1>4, <1>5, <2>1
<1>8. ASSUME NEW i \in 1..l, i > 2 PROVE file[i] = 0
  <2>1. ~(i <= Len(g))
    BY <1>4, <1>8
  <2> QED BY <1>5, <2>1
<1>9. Padded(file, H(c))
  <2>1. ASSUME NEW i \in 1..l PROVE file[i] = IF i <= 3 THEN H(c)[i] ELSE 0
    <3>1. i = 1 \/ i = 2 \/ i = 3 \/ i > 3
      BY <1>3
    <3> HIDE DEF c
    <3>2. CASE i = 1
      BY <1>2, <3>2
    <3>3. CASE i = 2
      BY <1>2, <1>7, <3>3
    <3>4. CASE i = 3
      BY <1>2, <1>8, <3>4
    <3>5. CASE i > 3
      BY <1>8, <3>5
    <3> QED BY <3>1, <3>2, <3>3, <3>4, <3>5
  <2> HIDE DEF c
  <2> QED BY <1>2, <1>3, <2>1 DEF Padded, l
<1>10. c \in 0..1
  OBVIOUS
<1> QED BY <1>7, <1>9, <1>10

\* A header that is there is read, with what has been written of it.
LEMMA ReadHeaderReads ==
    ASSUME WInv, RInv, ReadHeader
    PROVE  RInv'
<1>1. /\ rstate = "header" /\ Sized /\ delivered = <<>> /\ stage \in {"closed", "killed"}
      /\ written \in Seq(Records) /\ file \in Seq(Nat)
  BY DEF ReadHeader, RInv, WInv, Queued, Placed
<1>2. /\ written' = written /\ killed' = killed /\ broken' = broken /\ file' = file /\ lz4' = lz4
      /\ delivered' = delivered /\ d_readable_size' = d_readable_size
  BY DEF ReadHeader, writer, sink
<1>3. Sized'
  BY <1>1, <1>2 DEF Sized, FindReadableSize
<1>4. CASE Readable(0, 3) /\ file[1] = MAGIC
  <2>1. rstate' = "reading" /\ header' = file[2] /\ d_bytes_read' = 3
    BY <1>4 DEF ReadHeader
  <2>2. CaptureIsReadable'
    BY <2>1
    DEF CaptureIsReadable, KilledCaptureIsReadable, NothingElseToRead, ClosedCaptureIsWhole, IsRead
  <2>3. Reached'
    <3> DEFINE k == 0
    <3>1. SubSeq(written, 1, k) = <<>>
      BY SubSeqEmpty
    <3>3. k \in 0..Len(written)
      BY <1>1
    <3> HIDE DEF k
    <3>2. Len(Stream(SubSeq(written, 1, k))) = 0
      <4>1. Stream(SubSeq(written, 1, k)) = <<>>
        BY <3>1, StreamOfNone, Zenon
      <4>2. Len(<<>>) = 0
        OBVIOUS
      <4> QED BY <4>1, <4>2, Zenon
    <3>4. delivered' = SubSeq(written, 1, k) /\ d_bytes_read' = 3 + Len(Stream(SubSeq(written, 1, k)))
      <4>1. d_bytes_read' = 3 + 0
        BY <2>1
      <4>2. delivered' = SubSeq(written, 1, k)
        BY <1>1, <1>2, <3>1, Zenon
      <4> QED BY <3>2, <4>1, <4>2, Zenon
    <3>5. \E j \in 0..Len(written)' : /\ delivered' = SubSeq(written', 1, j)
                                      /\ d_bytes_read' = 3 + Len(Stream(SubSeq(written', 1, j)))
      BY <1>2, <3>3, <3>4, Zenon
    <3> QED BY <3>5 DEF Reached, Stream
  <2>4. \E b \in 0..1, t \in Tails : Ended(b, t) /\ header' = b
    <3>1. CASE \E b \in 0..1, t \in Tails : Ended(b, t)
      <4>1. PICK b \in 0..1, t \in Tails : Ended(b, t)
        BY <3>1
      <4>2. file[2] = b
        BY <1>1, <4>1, HeaderBytes DEF Ended
      <4> QED BY <2>1, <4>1, <4>2
    <3>2. CASE /\ written = <<>> /\ (killed \/ broken)
               /\ \E b \in 0..1, n \in 0..2 : Padded(file, SubSeq(H(b), 1, n))
      <4>1. PICK b \in 0..1, n \in 0..2 : Padded(file, SubSeq(H(b), 1, n))
        BY <3>2
      <4>2. Len(file) >= 3
        BY <1>1, <1>4 DEF Readable
      <4>3. PICK c \in 0..1 : Padded(file, H(c)) /\ file[2] = c
        BY <1>1, <1>4, <4>1, <4>2, PartialHeader
      <4>4. H(c) \o Stream(written) \o <<>> = H(c)
        <5>1. H(c) \in Seq(Nat)
          BY DEF H, MAGIC
        <5>2. H(c) \o <<>> = H(c)
          BY <5>1, ConcatEmptySeq
        <5>3. Stream(written) = <<>>
          BY <3>2, StreamOfNone
        <5> QED BY <5>2, <5>3
      <4>5. Holds(file, c, <<>>)
        BY <4>3, <4>4 DEF Holds
      <4>6. Ended(c, <<>>)
        BY <3>2, <4>5, TailFacts DEF Ended
      <4>7. <<>> \in Tails
        BY TailFacts
      <4> QED BY <2>1, <4>3, <4>6, <4>7
    <3> QED BY <1>1, <3>1, <3>2, EndedFile
  <2>5. \E b \in 0..1, t \in Tails : Ended(b, t)' /\ header' = b
    BY <1>2, <2>4 DEF Ended, Holds, Stream
  <2> QED BY <1>3, <2>1, <2>2, <2>3, <2>5 DEF RInv
<1>5. CASE ~(Readable(0, 3) /\ file[1] = MAGIC)
  <2>1. rstate' = "not a capture"
    BY <1>5 DEF ReadHeader
  <2>2. written = <<>> /\ (killed \/ broken)
    <3>1. CASE \E b \in 0..1, t \in Tails : Ended(b, t)
      <4>1. PICK b \in 0..1, t \in Tails : Ended(b, t)
        BY <3>1
      <4>2. file[1] = MAGIC /\ (written # <<>> \/ t # <<>> => Readable(0, 3))
        BY <1>1, <4>1, HeaderBytes DEF Ended
      <4>3. written = <<>> /\ t = <<>>
        BY <1>5, <4>2
      <4>4. t # <<TRAILER>>
        BY <4>3
      <4> QED BY <4>1, <4>3, <4>4 DEF Ended
    <3> QED BY <1>1, <3>1, EndedFile
  <2>3. CaptureIsReadable'
    BY <1>2, <2>1, <2>2
    DEF CaptureIsReadable, KilledCaptureIsReadable, NothingElseToRead, ClosedCaptureIsWhole, IsRead
  <2> QED BY <1>3, <2>1, <2>3 DEF RInv
<1> QED BY <1>4, <1>5

\* A record more, or the end.
LEMMA NextRecordReads ==
    ASSUME WInv, RInv, NextRecord
    PROVE  RInv'
<1>1. rstate = "reading" /\ Sized /\ Reached /\ written \in Seq(Records) /\ file \in Seq(Nat)
  BY DEF NextRecord, RInv, WInv, Queued, Placed
<1>2. PICK b \in 0..1, t \in Tails : Ended(b, t) /\ header = b
  BY <1>1 DEF RInv
<1>3. /\ written' = written /\ killed' = killed /\ broken' = broken /\ file' = file /\ lz4' = lz4
      /\ header' = header /\ d_readable_size' = d_readable_size
  BY DEF NextRecord, writer, sink
<1>4. (Reached' /\ rstate' = rstate) \/ FinallyRead'
  <2>1. ASSUME NEW k \in 0..Len(written), delivered = SubSeq(written, 1, k),
               d_bytes_read = 3 + Len(Stream(SubSeq(written, 1, k)))
        PROVE  (Reached' /\ rstate' = rstate) \/ FinallyRead'
    <3>1. CASE k = Len(written)
      <4>1. SubSeq(written, 1, k) = written
        BY <1>1, <3>1, SubSeqFull
      <4>2. delivered = written /\ d_bytes_read = 3 + Len(Stream(written))
        BY <2>1, <4>1
      <4> QED BY <1>2, <4>2, BehindRecords
    <3>2. CASE k # Len(written)
      <4>1. k \in 0..(Len(written) - 1)
        BY <1>1, <3>2
      <4> QED BY <1>2, <2>1, <4>1, NextOfRecords
    <3> QED BY <3>1, <3>2
  <2>2. CASE /\ broken /\ (\E e : delivered = Append(written, e)) /\ d_bytes_read \in Nat
             /\ \A i \in 1..Len(file) : i > d_bytes_read => file[i] = 0
    <3>1. ReadsNothing
      BY <1>1, <2>2, ZerosRead
    <3>2. AllRead'
      BY <1>3, <2>2, <3>1 DEF AllRead, ReadsNothing
    <3> QED BY <1>1, <1>3, <3>1, <3>2 DEF FinallyRead, ReadsNothing
  <2> QED BY <1>1, <2>1, <2>2 DEF Reached
<1>5. Sized'
  BY <1>1, <1>3 DEF Sized, FindReadableSize
<1>6. CASE Reached' /\ rstate' = rstate
  <2>1. CaptureIsReadable'
    BY <1>1, <1>6
    DEF CaptureIsReadable, KilledCaptureIsReadable, NothingElseToRead, ClosedCaptureIsWhole, IsRead
  <2>2. \E c \in 0..1, u \in Tails : Ended(c, u)' /\ header' = c
    BY <1>2, <1>3 DEF Ended, Holds, Stream
  <2> QED BY <1>1, <1>5, <1>6, <2>1, <2>2 DEF RInv
<1>7. CASE FinallyRead'
  <2>1. CaptureIsReadable'
    BY <1>7, FinallyReadable, PTL
  <2>2. rstate' \in {"end", "error"}
    BY <1>7 DEF FinallyRead
  <2> QED BY <1>5, <2>1, <2>2 DEF RInv
<1> QED BY <1>4, <1>6, <1>7

\* Every step of the writers and of the reader.
LEMMA ReaderInductive == WInv /\ RInv /\ [Next]_vars => RInv'
<1> SUFFICES ASSUME WInv, RInv, [Next]_vars PROVE RInv'
  OBVIOUS
<1>1. ASSUME stage \notin {"closed", "killed"}, UNCHANGED reader PROVE RInv'
  <2>1. rstate = "closed"
    BY <1>1 DEF WInv, Queued
  <2> QED BY <1>1, <2>1, WritersRead DEF reader
<1>2. ASSUME NEW r \in Records, WriteRecord(r) PROVE RInv'
  BY <1>1, <1>2 DEF WriteRecord
<1>3. CASE Stop
  BY <1>1, <1>3 DEF Stop
<1>4. ASSUME Writing PROVE stage \notin {"closed", "killed"}
  BY <1>4 DEF Writing, WInv, Queued, WritingStages
<1>5. CASE Grow
  BY <1>1, <1>4, <1>5 DEF Grow
<1>6. CASE Slide
  BY <1>1, <1>4, <1>6 DEF Slide
<1>7. CASE SlideAstray
  BY <1>1, <1>4, <1>7 DEF SlideAstray
<1>8. CASE MemCpy
  BY <1>1, <1>4, <1>8 DEF MemCpy
<1>9. CASE Rewind
  BY <1>1, <1>9 DEF Rewind
<1>10. CASE Close
  BY <1>1, <1>10 DEF Close
<1>11. CASE Kill
  BY <1>1, <1>11 DEF Kill
<1>12. CASE Open
  BY <1>12, OpenReads
<1>13. CASE ReadHeader
  BY <1>13, ReadHeaderReads
<1>14. CASE NextRecord
  BY <1>14, NextRecordReads
<1>15. CASE UNCHANGED vars
  <2>1. /\ rstate' = rstate /\ delivered' = delivered /\ d_bytes_read' = d_bytes_read /\ header' = header
        /\ d_readable_size' = d_readable_size /\ written' = written /\ file' = file /\ lz4' = lz4
        /\ killed' = killed /\ broken' = broken
    BY <1>15 DEF vars, writer, sink, reader
  <2>2. Sized => Sized'
    BY <2>1 DEF Sized, FindReadableSize
  <2>3. Reached => Reached'
    BY <2>1 DEF Reached, Stream
  <2>4. \A b, t : Ended(b, t) => Ended(b, t)'
    BY <2>1 DEF Ended, Holds, Stream
  <2>5. CaptureIsReadable => CaptureIsReadable'
    BY <2>1
    DEF CaptureIsReadable, KilledCaptureIsReadable, NothingElseToRead, ClosedCaptureIsWhole, IsRead, Lost
  <2>6. \A b, t : Ended(b, t) /\ header = b => Ended(b, t)' /\ header' = b
    BY <2>1, <2>4
  <2> QED BY <2>1, <2>2, <2>3, <2>5, <2>6 DEF RInv
<1> QED
  BY <1>2, <1>3, <1>5, <1>6, <1>7, <1>8, <1>9, <1>10, <1>11, <1>12, <1>13, <1>14, <1>15 DEF Next

\* Whatever happens to the process that writes a capture, by the end of the
\* reading the records that are complete have been read, but for the last if it
\* ends with a zero and nothing is behind it, and what was closed without a
\* failure is whole.
THEOREM CaptureIsRead == Spec => []CaptureIsReadable
<1>1. Init => RInv
  BY DEF Init, RInv, CaptureIsReadable, KilledCaptureIsReadable, NothingElseToRead, ClosedCaptureIsWhole, IsRead
<1>2. RInv => CaptureIsReadable
  BY DEF RInv
<1> QED BY <1>1, <1>2, FileInvariance, ReaderInductive, PTL DEF Spec
=============================================================================
