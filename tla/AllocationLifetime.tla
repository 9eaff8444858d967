------------------------- MODULE AllocationLifetime -------------------------
(***************************************************************************)
(* AllocationLifetimeAggregator of snapshot.cpp: it tells, for every       *)
(* location, what was allocated between two snapshots and freed between    *)
(* two others.  A mapping counts as one allocation, however many pieces    *)
(* munmap has cut it into: the pieces share an Allocation by a shared_ptr, *)
(* which is its id here, and the last one to be freed counts.              *)
(***************************************************************************)
EXTENDS Integers, Sequences, FiniteSets, Allocations, IntervalTree

VARIABLES
    num_snapshots,
    allocation_history,   \* what was freed, by the snapshots before which it
                          \* was allocated and freed, and by key
    allocated,            \* the live simple allocations, by address
    mapped,               \* the live mappings
    live_at,              \* history: what was live at each snapshot
    uncounted             \* history: keys that munmap has freed several pieces
                          \* of one mapping of, with none of it left

lifetime_vars == <<num_snapshots, allocation_history, allocated, mapped, live_at, uncounted>>

Nothing == [key |-> "none", size |-> 0, generation |-> 0]

LifetimeInit ==
    /\ num_snapshots = 0
    /\ allocation_history = [x \in {} |-> None]
    /\ allocated = [a \in Addresses |-> Nothing]
    /\ mapped = {}
    /\ live_at = <<>>
    /\ uncounted = {}

\* at tells the pieces of a mapping from each other.
Deallocation(value, at, bytes, count) ==
    [where |-> <<value.generation, num_snapshots, value.key>>, at |-> at,
     bytes |-> bytes, count |-> count]

\* recordDeallocation, for each of a set.  What was allocated since the last
\* snapshot is ignored.
RecordDeallocations(deallocations) ==
    LET spanning == {d \in deallocations : d.where[1] # num_snapshots}
        at(x) == {d \in spanning : d.where = x}
        known(x) == IF x \in DOMAIN allocation_history THEN allocation_history[x] ELSE None
    IN allocation_history' =
         [x \in DOMAIN allocation_history \cup {d.where : d \in spanning} |->
            [bytes |-> known(x).bytes + SumFunction([d \in at(x) |-> d.bytes]),
             allocations |-> known(x).allocations + SumFunction([d \in at(x) |-> d.count])]]

LifetimeSimple(a, key, size) ==
    /\ allocated' = [allocated EXCEPT ![a] =
                       [key |-> key, size |-> size, generation |-> num_snapshots]]
    /\ UNCHANGED <<num_snapshots, allocation_history, mapped, live_at, uncounted>>

LifetimeSimpleFree(a) ==
    /\ allocated[a] # Nothing
    /\ RecordDeallocations({Deallocation(allocated[a], a, allocated[a].size, 1)})
    /\ allocated' = [allocated EXCEPT ![a] = Nothing]
    /\ UNCHANGED <<num_snapshots, mapped, live_at, uncounted>>

NewId == CHOOSE i \in 0..Cardinality(mapped) : \A m \in mapped : m.value.id # i

LifetimeRanged(begin, end, key) ==
    /\ mapped' = AddInterval(mapped, begin, end,
                   [key |-> key, generation |-> num_snapshots, id |-> NewId])
    /\ UNCHANGED <<num_snapshots, allocation_history, allocated, live_at, uncounted>>

\* Mutant: only the pieces that are left.
UseCountLeft(id, removed, left) == 1 + Cardinality({m \in left : m.value.id = id})

\* use_count of the Allocation of a mapping: the pieces that RemovalStats
\* holds and those that are left.
UseCount(id, removed, left) ==
    Cardinality({r \in removed : r.value.id = id}) + Cardinality({m \in left : m.value.id = id})

LifetimeRangedFree(begin, end) ==
    LET removed == Removed(mapped, begin, end)
        left == RemoveInterval(mapped, begin, end)
        count(r) == IF UseCount(r.value.id, removed, left) = 1 THEN 1 ELSE 0
        gone == {r.value : r \in removed} \ {m.value : m \in left}
    IN /\ mapped' = left
       /\ RecordDeallocations({Deallocation(r.value, r.begin, Size(r), count(r)) : r \in removed})
       /\ uncounted' = uncounted \cup
            {v.key : v \in {w \in gone : UseCount(w.id, removed, left) > 1}}
       /\ UNCHANGED <<num_snapshots, allocated, live_at>>

-----------------------------------------------------------------------------
\* generateIndex: what was never freed, by the snapshot before which it was
\* allocated; each mapping counts once.
LeakedSince(key, generation) ==
    LET simple == {a \in Addresses : /\ allocated[a] # Nothing /\ allocated[a].key = key
                                     /\ allocated[a].generation = generation}
        ranged == {m \in mapped : m.value.key = key /\ m.value.generation = generation}
    IN [bytes |-> SumFunction([a \in simple |-> allocated[a].size]) + TotalSize(ranged),
        allocations |-> Cardinality(simple) + Cardinality({m.value.id : m \in ranged})]

\* What the index has of a key at a snapshot.
InLifetimes(key, snapshot) ==
    LET freed == {x \in DOMAIN allocation_history :
                     x[3] = key /\ x[1] < snapshot /\ snapshot <= x[2]}
        generations == 0..snapshot - 1
    IN [bytes |-> SumFunction([x \in freed |-> allocation_history[x].bytes])
                    + SumFunction([g \in generations |-> LeakedSince(key, g).bytes]),
        allocations |-> SumFunction([x \in freed |-> allocation_history[x].allocations])
                    + SumFunction([g \in generations |-> LeakedSince(key, g).allocations])]

\* History: what is live, whenever it was allocated.
LiveNow(key) ==
    LET simple == {a \in Addresses : allocated[a] # Nothing /\ allocated[a].key = key}
        ranged == {m \in mapped : m.value.key = key}
    IN [bytes |-> SumFunction([a \in simple |-> allocated[a].size]) + TotalSize(ranged),
        allocations |-> Cardinality(simple) + Cardinality({m.value.id : m \in ranged})]

LifetimeCapture ==
    /\ num_snapshots' = num_snapshots + 1
    /\ live_at' = Append(live_at, [k \in Keys |-> LiveNow(k)])
    /\ UNCHANGED <<allocation_history, allocated, mapped, uncounted>>
=============================================================================
