---------------------------- MODULE Allocations ----------------------------
(***************************************************************************)
(* The allocations and deallocations that the aggregators of snapshot.cpp  *)
(* process, as a RecordReader returns them.  A key is a                    *)
(* HighWaterMarkLocationKey; as the allocator is part of it, simple and    *)
(* ranged allocations have different keys.  An address is freed before it  *)
(* is allocated again, and mappings do not overlap.                        *)
(***************************************************************************)
EXTENDS Integers, FiniteSets

CONSTANTS
    SimpleKeys,    \* locations that allocate with malloc and the like
    RangedKeys,    \* locations that allocate with mmap
    Addresses,     \* of simple allocations
    Sizes,         \* of simple allocations
    Pages          \* addresses of mappings

ASSUME NumbersAssumption == Sizes \subseteq Nat /\ Pages \subseteq Nat

\* A location is a tuple of machine words: there are finitely many.  "none"
\* stands for none.
ASSUME KeysAssumption ==
    /\ IsFiniteSet(SimpleKeys) /\ IsFiniteSet(RangedKeys)
    /\ "none" \notin SimpleKeys \cup RangedKeys

Keys == SimpleKeys \cup RangedKeys

NoAllocation == [key |-> "none", size |-> 0]

Contribution(bytes, allocations) == [bytes |-> bytes, allocations |-> allocations]
None == Contribution(0, 0)
Plus(c, d) == Contribution(c.bytes + d.bytes, c.allocations + d.allocations)
=============================================================================
