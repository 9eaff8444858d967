---------------------------- MODULE MCLiveSession ----------------------------
\* LiveSession for TLC: three threads, a block most of the heap is made of, one
\* that hardly counts, and one without a stack or a size.
EXTENDS LiveSession

Block(id, tid, stack, size) == [id |-> id, tid |-> tid, stack |-> stack, size |-> size]
Big == Block(1, 1, <<"f", "g", "f">>, 30)
Small == Block(2, 2, <<"h", "g">>, 1)
Empty == Block(3, 3, <<>>, 0)

MCBlocks == {Big, Small, Empty}
MCBursts == {{Big, Small}, {Empty}}

\* With live the screen is looked at, with the others the ways to fail.
MCBounds ==
    [live |-> [events |-> 4, interrupts |-> 1],
     run |-> [events |-> 0, interrupts |-> 1],
     attach |-> [events |-> 0, interrupts |-> 2]]
=============================================================================
