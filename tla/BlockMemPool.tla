---------------------------- MODULE BlockMemPool ----------------------------
(***************************************************************************)
(* One bucket of BlockMemPool and the Block handles that refer to its      *)
(* slots: a list of segments, in each of them a bitmap of taken slots and  *)
(* a reference count per slot.                                             *)
(*                                                                         *)
(* Allocation runs under the bucket's lock; what it does to a segment, and *)
(* the return of a slot, runs under the segment's lock and is one step.    *)
(* The reference counts are atomics, each access a step of its own.        *)
(*                                                                         *)
(* The callers keep the rule of C++ objects: while a thread assigns to or  *)
(* destroys a handle no other thread uses that handle.  Two handles to one *)
(* slot are used by different threads at will.                             *)
(***************************************************************************)
EXTENDS Integers, FiniteSets

CONSTANTS Threads,       \* the threads that use the pool
          Handles,       \* the Block objects of the program
          Capacity,      \* Segment::capacity: slots of a segment
          MaxSegments,   \* segments the model has room for (a bound)
          Null, Nobody

ASSUME HandlesAssumption == IsFiniteSet(Handles)
ASSUME CapacityAssumption == Capacity \in Nat \ {0} /\ MaxSegments \in Nat
ASSUME NobodyAssumption == Nobody \notin Threads

Segments == 1 .. MaxSegments
Slots == Segments \X (1 .. Capacity)

ASSUME NullAssumption == Null \notin Slots /\ Null \notin Handles

VARIABLES segmentCount,  \* Bucket::segmentCount; the head is the newest one
          bucketLock,    \* who holds Bucket::lock
          bitmap,        \* the slots whose bit is set
          usedCount,     \* Segment::usedCount
          refCounts,     \* Segment::refCounts
          handle,        \* handle[h]: the slot of Block h, or Null
          pc, dst, src,  \* what each thread is at, and with which handles
          slot,          \* slot[t]: the slot a thread has in its hands
          moving,        \* moving[t]: its assignment moves rather than copies
          current        \* current[t]: the segment its scan has come to

segmentVars == <<bitmap, usedCount, refCounts>>
callVars == <<dst, src, moving>>
vars == <<segmentCount, bucketLock, segmentVars, handle, pc, callVars, slot, current>>

(* lock, scan, construct: inside allocate(); free, assign: after release() *)
(* took its reference off, with the slot to return, or with it returned.   *)
Labels == {"idle", "lock", "scan", "construct", "free", "assign"}

TypeOK ==
    /\ segmentCount \in 0 .. MaxSegments
    /\ bucketLock \in Threads \cup {Nobody}
    /\ bitmap \subseteq Slots
    /\ usedCount \in [Segments -> 0 .. Capacity]
    /\ refCounts \in [Slots -> Nat]
    /\ handle \in [Handles -> Slots \cup {Null}]
    /\ pc \in [Threads -> Labels]
    /\ dst \in [Threads -> Handles \cup {Null}]
    /\ src \in [Threads -> Handles \cup {Null}]
    /\ slot \in [Threads -> Slots \cup {Null}]
    /\ moving \in [Threads -> BOOLEAN]
    /\ current \in [Threads -> 0 .. MaxSegments]

Init ==
    /\ segmentCount = 0
    /\ bucketLock = Nobody
    /\ bitmap = {}
    /\ usedCount = [g \in Segments |-> 0]
    /\ refCounts = [s \in Slots |-> 0]
    /\ handle = [h \in Handles |-> Null]
    /\ pc = [t \in Threads |-> "idle"]
    /\ dst = [t \in Threads |-> Null]
    /\ src = [t \in Threads |-> Null]
    /\ slot = [t \in Threads |-> Null]
    /\ moving = [t \in Threads |-> FALSE]
    /\ current = [t \in Threads |-> 0]

GoTo(t, label) == pc' = [pc EXCEPT ![t] = label]

(* No thread is in a call that writes to h, or that uses it at all. *)
Readable(h) == \A u \in Threads : dst[u] # h /\ ~(moving[u] /\ src[u] = h)
Unused(h) == \A u \in Threads : dst[u] # h /\ src[u] # h

(* A thread begins a call that writes to h. *)
Begin(t, h, label) ==
    /\ pc[t] = "idle" /\ Unused(h)
    /\ dst' = [dst EXCEPT ![t] = h]
    /\ GoTo(t, label)

Finish(t) ==
    /\ dst' = [dst EXCEPT ![t] = Null]
    /\ src' = [src EXCEPT ![t] = Null]
    /\ moving' = [moving EXCEPT ![t] = FALSE]
    /\ slot' = [slot EXCEPT ![t] = Null]
    /\ GoTo(t, "idle")

-----------------------------------------------------------------------------
(* allocate() *)

Allocate(t, h) ==
    /\ handle[h] = Null
    /\ Begin(t, h, "lock")
    /\ UNCHANGED <<segmentCount, bucketLock, segmentVars, handle, src, moving, slot, current>>

LockBucket(t) ==
    /\ pc[t] = "lock"
    /\ bucketLock = Nobody
    /\ bucketLock' = t
    /\ current' = [current EXCEPT ![t] = segmentCount]
    /\ GoTo(t, "scan")
    /\ UNCHANGED <<segmentCount, segmentVars, handle, callVars, slot>>

(* tryAcquireSlot() looks at usedCount before it looks at the bitmap. *)
HasFreeSlot(g) == usedCount[g] < Capacity /\ \E i \in 1 .. Capacity : <<g, i>> \notin bitmap

(* Slot s is the one find_first_zero_bit() finds in its segment. *)
FirstFree(s) ==
    /\ s \notin bitmap
    /\ \A i \in 1 .. (s[2] - 1) : <<s[1], i>> \in bitmap

(* What tryAcquireSlot() does to the segment of the slot it finds. *)
MarkTaken(s) ==
    /\ bitmap' = bitmap \cup {s}
    /\ usedCount' = [usedCount EXCEPT ![s[1]] = @ + 1]
    /\ refCounts' = [refCounts EXCEPT ![s] = 0]

(* tryAcquireSlot() finds a slot, and allocate() unlocks the bucket. *)
AcquireSlot(t) ==
    /\ pc[t] = "scan" /\ current[t] > 0
    /\ HasFreeSlot(current[t])
    /\ \E i \in 1 .. Capacity :
           /\ FirstFree(<<current[t], i>>)
           /\ MarkTaken(<<current[t], i>>)
           /\ slot' = [slot EXCEPT ![t] = <<current[t], i>>]
    /\ bucketLock' = Nobody
    /\ GoTo(t, "construct")
    /\ UNCHANGED <<segmentCount, handle, callVars, current>>

(* Fault: the scan does not move on. *)
SameSegment(g) == g

(* current->next *)
NextSegment(g) == g - 1

(* tryAcquireSlot() fails: on to the next segment. *)
SkipSegment(t) ==
    /\ pc[t] = "scan" /\ current[t] > 0
    /\ ~HasFreeSlot(current[t])
    /\ current' = [current EXCEPT ![t] = NextSegment(@)]
    /\ UNCHANGED <<segmentCount, bucketLock, segmentVars, handle, pc, callVars, slot>>

(* The scan found nothing: a new segment becomes the head and gives its    *)
(* first slot.                                                             *)
Grow(t) ==
    /\ pc[t] = "scan" /\ current[t] = 0
    /\ segmentCount < MaxSegments
    /\ segmentCount' = segmentCount + 1
    /\ MarkTaken(<<segmentCount + 1, 1>>)
    /\ slot' = [slot EXCEPT ![t] = <<segmentCount + 1, 1>>]
    /\ bucketLock' = Nobody
    /\ GoTo(t, "construct")
    /\ UNCHANGED <<handle, callVars, current>>

(* The Block is built, and retains its slot. *)
Construct(t) ==
    /\ pc[t] = "construct"
    /\ handle' = [handle EXCEPT ![dst[t]] = slot[t]]
    /\ refCounts' = [refCounts EXCEPT ![slot[t]] = @ + 1]
    /\ Finish(t)
    /\ UNCHANGED <<segmentCount, bucketLock, bitmap, usedCount, current>>

-----------------------------------------------------------------------------
(* Constructors of Block *)

CopyConstruct(t, from, to) ==
    /\ pc[t] = "idle"
    /\ handle[to] = Null /\ Unused(to)
    /\ handle[from] # Null /\ Readable(from)
    /\ handle' = [handle EXCEPT ![to] = handle[from]]
    /\ refCounts' = [refCounts EXCEPT ![handle[from]] = @ + 1]
    /\ UNCHANGED <<segmentCount, bucketLock, bitmap, usedCount, pc, callVars, slot, current>>

MoveConstruct(t, from, to) ==
    /\ pc[t] = "idle"
    /\ handle[to] = Null /\ Unused(to)
    /\ handle[from] # Null /\ Unused(from)
    /\ handle' = [handle EXCEPT ![to] = handle[from], ![from] = Null]
    /\ UNCHANGED <<segmentCount, bucketLock, segmentVars, pc, callVars, slot, current>>

-----------------------------------------------------------------------------
(* release(), alone in the destructor or first in an assignment *)

(* Fault: the slot is returned while another handle is left. *)
LastReferenceEarly(s) == refCounts[s] \in {1, 2}

(* fetch_sub returned 1 *)
LastReference(s) == refCounts[s] = 1

(* The reference is taken off; the last one has the slot to return. *)
TakeOff(t, h) ==
    /\ refCounts' = [refCounts EXCEPT ![handle[h]] = @ - 1]
    /\ slot' = [slot EXCEPT ![t] = handle[h]]
    /\ handle' = [handle EXCEPT ![h] = Null]
    /\ Begin(t, h, IF LastReference(handle[h]) THEN "free" ELSE "assign")
    /\ UNCHANGED <<segmentCount, bucketLock, bitmap, usedCount, current>>

(* ~Block() *)
Destroy(t, h) ==
    /\ handle[h] # Null
    /\ TakeOff(t, h)
    /\ UNCHANGED <<src, moving>>

(* operator=(const Block&) and operator=(Block&&); to itself, and from and *)
(* to empty handles, assignment is one of the other operations.            *)
Assign(t, from, to, isMove) ==
    /\ from # to
    /\ handle[to] # Null
    /\ IF isMove THEN Unused(from) ELSE Readable(from)
    /\ TakeOff(t, to)
    /\ src' = [src EXCEPT ![t] = from]
    /\ moving' = [moving EXCEPT ![t] = isMove]

(* Fault: the count of used slots is not taken back. *)
ReleaseKeepsCount(s) ==
    /\ bitmap' = bitmap \ {s}
    /\ UNCHANGED usedCount

(* Fault: the count of used slots is taken back, the bit stays. *)
ReleaseKeepsBit(s) ==
    /\ UNCHANGED bitmap
    /\ usedCount' = [usedCount EXCEPT ![s[1]] = IF @ > 0 THEN @ - 1 ELSE @]

MarkFree(s) ==
    /\ bitmap' = bitmap \ {s}
    /\ usedCount' = [usedCount EXCEPT ![s[1]] = IF @ > 0 THEN @ - 1 ELSE @]

(* releaseSlot() *)
ReleaseSlot(t) ==
    /\ pc[t] = "free"
    /\ MarkFree(slot[t])
    /\ refCounts' = [refCounts EXCEPT ![slot[t]] = 0]
    /\ GoTo(t, "assign")
    /\ UNCHANGED <<segmentCount, bucketLock, handle, callVars, slot, current>>

(* retain() *)
Retain(s) == refCounts' = [refCounts EXCEPT ![s] = @ + 1]

(* After release(): nothing in a destructor, or when the source is empty;  *)
(* the source's slot is copied and retained, or moved, in an assignment.   *)
EndRelease(t) ==
    /\ pc[t] = "assign"
    /\ src[t] # Null => handle[src[t]] = Null
    /\ Finish(t)
    /\ UNCHANGED <<segmentCount, bucketLock, segmentVars, handle, current>>

EndCopyAssign(t) ==
    /\ pc[t] = "assign" /\ src[t] # Null /\ ~moving[t]
    /\ handle[src[t]] # Null
    /\ handle' = [handle EXCEPT ![dst[t]] = handle[src[t]]]
    /\ Retain(handle[src[t]])
    /\ Finish(t)
    /\ UNCHANGED <<segmentCount, bucketLock, bitmap, usedCount, current>>

EndMoveAssign(t) ==
    /\ pc[t] = "assign" /\ src[t] # Null /\ moving[t]
    /\ handle[src[t]] # Null
    /\ handle' = [handle EXCEPT ![dst[t]] = handle[src[t]], ![src[t]] = Null]
    /\ Finish(t)
    /\ UNCHANGED <<segmentCount, bucketLock, segmentVars, current>>

(* clear(), which callers may only do when no Block is left. *)
Clear ==
    /\ \A t \in Threads : pc[t] = "idle"
    /\ \A h \in Handles : handle[h] = Null
    /\ segmentCount' = 0
    /\ bitmap' = {}
    /\ usedCount' = [g \in Segments |-> 0]
    /\ UNCHANGED <<bucketLock, refCounts, handle, pc, callVars, slot, current>>

Next ==
    \/ \E t \in Threads :
           \/ \E h \in Handles : Allocate(t, h) \/ Destroy(t, h)
           \/ \E h, k \in Handles : CopyConstruct(t, h, k) \/ MoveConstruct(t, h, k)
           \/ \E h, k \in Handles, isMove \in BOOLEAN : Assign(t, h, k, isMove)
           \/ LockBucket(t) \/ AcquireSlot(t) \/ SkipSegment(t) \/ Grow(t) \/ Construct(t)
           \/ ReleaseSlot(t) \/ EndRelease(t) \/ EndCopyAssign(t) \/ EndMoveAssign(t)
    \/ Clear

Spec == Init /\ [][Next]_vars

(* A call that has begun goes on; nobody has to call. *)
Fairness == \A t \in Threads :
    /\ WF_vars(AcquireSlot(t) \/ SkipSegment(t) \/ Grow(t) \/ Construct(t))
    /\ WF_vars(ReleaseSlot(t) \/ EndRelease(t) \/ EndCopyAssign(t) \/ EndMoveAssign(t))

FairSpec == Spec /\ Fairness
=============================================================================
