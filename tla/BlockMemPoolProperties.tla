----------------------- MODULE BlockMemPoolProperties -----------------------
(***************************************************************************)
(* What BlockMemPool keeps, whatever the threads that share it do.         *)
(***************************************************************************)
EXTENDS BlockMemPool

Holders(s) == {h \in Handles : handle[h] = s}

(* A thread has a slot in its hands between its bit and the first          *)
(* reference, or between the last reference and its bit.                   *)
InHand(t) == pc[t] \in {"construct", "free"}

(* The reference count of a slot is the number of handles that refer to    *)
(* it, through concurrent copies, moves and releases (retain, release).    *)
RefCountExact == \A s \in Slots : refCounts[s] = Cardinality(Holders(s))

(* A slot has its bit set exactly while a handle refers to it or a thread  *)
(* has it in its hands, and then only that thread does: nobody is given a  *)
(* slot that is in use and no slot is lost (tryAcquireSlot, releaseSlot).  *)
BitmapMatchesUse ==
    /\ \A s \in Slots :
           s \in bitmap <=> Holders(s) # {} \/ \E t \in Threads : InHand(t) /\ slot[t] = s
    /\ \A t \in Threads : InHand(t) => Holders(slot[t]) = {}
    /\ \A t, u \in Threads : InHand(t) /\ InHand(u) /\ slot[t] = slot[u] => t = u

(* usedCount, by which tryAcquireSlot() passes a full segment without      *)
(* reading its bitmap, is the number of its bits: a segment with a free    *)
(* slot is never passed.                                                   *)
UsedCountExact ==
    \A g \in Segments :
        usedCount[g] = Cardinality({i \in 1 .. Capacity : <<g, i>> \in bitmap})

(* The three counts kept of a slot agree at every step of the threads that *)
(* allocate, copy, move and release it: no use after free, no leak.        *)
SlotsAccounted == RefCountExact /\ BitmapMatchesUse /\ UsedCountExact

(* The pool grows only for want of a slot: the frees that race with a scan *)
(* never make it larger than the handles need at once.                     *)
GrowsForNeedOnly == segmentCount * Capacity <= Cardinality(Handles) - 1 + Capacity

(* Handles, and use_count(), behave as if allocation, copy, move and       *)
(* release were atomic, and an allocation never returns memory in use.     *)
Allocator == INSTANCE BlockAllocator

ImplementsBlockAllocator == Allocator!Spec

(* The bucket's lock is always let go again, and with it the allocation it *)
(* was taken for is over.                                                  *)
AllocationEnds == \A t \in Threads : pc[t] = "scan" ~> pc[t] = "idle"
=============================================================================
