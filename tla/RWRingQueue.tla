----------------------------- MODULE RWRingQueue -----------------------------
(***************************************************************************)
(* RWRingQueue: a ring of slots in a block of a BlockMemPool.  Each call   *)
(* is one step, as it would be if the RWSmartLock it holds kept the others *)
(* out.                                                                    *)
(***************************************************************************)
EXTENDS Integers, Sequences, FiniteSets

CONSTANTS Values,
          Capacities,   \* the arguments of the constructor and of reserve()
          SlotBytes,    \* sizeof(Slot)
          MinBlock,     \* the least block of the pool, a power of two
          MaxBytes,     \* bound: no block is larger
          GarbageFlags, \* what `occupied' may read as in memory nobody wrote
          NoObject      \* no value lives in a slot

ASSUME RingAssumption ==
    /\ Capacities \subseteq Nat /\ SlotBytes \in Nat \ {0} /\ MinBlock \in Nat \ {0}
    /\ MaxBytes \in Nat /\ GarbageFlags \subseteq BOOLEAN /\ NoObject \notin Values

VARIABLES buffer,      \* the slots: their flag, and the value that really lives there
          initialised, \* the slots that initializeSlots() went over
          head, tail, size,
          overwriteWhenFull, autoExpand,
          result,      \* what the last call returned
          undefined    \* a value was read or destroyed where none lives, or one
                       \* was constructed over another

vars == <<buffer, initialised, head, tail, size, overwriteWhenFull, autoExpand,
          result, undefined>>

Done(values) == [ok |-> TRUE, out |-> values]
Refused == [ok |-> FALSE, out |-> << >>]

Slots(n) == 0 .. (n - 1)
capacity == Cardinality(DOMAIN buffer)
Slot(flag, object) == [occupied |-> flag, object |-> object]
BlankSlot == Slot(FALSE, NoObject)

(* The first of n, 2n, 4n ... that is at least as large as asked for, in a  *)
(* set that is empty when it is beyond the bound.                          *)
Doublings(n) == {d \in n .. MaxBytes : \E i \in 0 .. d : d = n * 2 ^ i}
FirstDoubling(n, least) ==
    {d \in Doublings(n) : d >= least /\ \A e \in Doublings(n) : e >= least => d <= e}

(* The slots of the block that allocate() gives for n slots, of a power of *)
(* two of bytes: capacity() counts those that fit in it.                   *)
Granted(n) == {Slots(bytes \div SlotBytes) : bytes \in FirstDoubling(MinBlock, n * SlotBytes)}

(* A new buffer for n slots: those that fit beyond n are never initialised *)
NewBuffers(n) ==
    {b \in UNION {[slots -> {Slot(flag, NoObject) : flag \in GarbageFlags \cup {FALSE}}] :
                       slots \in Granted(n)} :
        \A i \in Slots(n) : b[i] = BlankSlot}

Init ==
    \E n \in Capacities \ {0} :
        /\ buffer \in NewBuffers(n) /\ initialised = n
        /\ head = 0 /\ tail = 0 /\ size = 0
        /\ overwriteWhenFull \in BOOLEAN /\ autoExpand \in BOOLEAN
        /\ result = Refused
        /\ undefined = FALSE

-----------------------------------------------------------------------------
nextIndex(i) == (i + 1) % capacity
At(i) == (head + i) % capacity
Oldest(count) == {At(i) : i \in Slots(count)}
Objects(count) == [i \in 1 .. count |-> buffer[At(i - 1)].object]

(* destroySlot() for each of the slots. *)
Destroyed(b, slots) ==
    [i \in DOMAIN b |-> IF i \in slots /\ b[i].occupied THEN BlankSlot ELSE b[i]]
BadDestroy(b, slots) == \E i \in slots : b[i].occupied /\ b[i].object = NoObject
BadRead(count) == \E i \in Oldest(count) : buffer[i].object = NoObject

(* Fault: the elements are moved as they lie, not from the head on. *)
MovedAsTheyLie(count) == [i \in 1 .. count |-> buffer[i - 1].object]

(* The elements in the order they are moved to the new buffer. *)
MovedObjects(count) == Objects(count)

(* ensureCapacity(): the new buffers for n slots, with the elements in.    *)
Grown(n) ==
    {[i \in DOMAIN b |-> IF i < size THEN Slot(TRUE, MovedObjects(size)[i + 1]) ELSE b[i]] :
        b \in NewBuffers(n)}

Grow(n) ==
    /\ initialised' = n
    /\ head' = 0
    /\ undefined' = (undefined \/ BadRead(size))

Full == size = capacity

(* try_push() and emplace() into a queue with room. *)
PushInRoom(v) ==
    /\ ~Full
    /\ buffer' = [buffer EXCEPT ![tail] = Slot(TRUE, v)]
    /\ undefined' = (undefined \/ buffer[tail].object # NoObject)
    /\ tail' = nextIndex(tail) /\ size' = size + 1
    /\ result' = Done(<< >>)
    /\ UNCHANGED <<initialised, head, overwriteWhenFull, autoExpand>>

PushAndGrow(v) ==
    /\ Full /\ autoExpand
    /\ \E n \in FirstDoubling(capacity, capacity + 1) :
           /\ Grow(n)
           /\ \E b \in Grown(n) :
                  /\ buffer' = [b EXCEPT ![size] = Slot(TRUE, v)]
                  /\ tail' = (size + 1) % Cardinality(DOMAIN b)
    /\ size' = size + 1
    /\ result' = Done(<< >>)
    /\ UNCHANGED <<overwriteWhenFull, autoExpand>>

PushRefused(v) ==
    /\ Full /\ ~autoExpand /\ ~overwriteWhenFull
    /\ result' = Refused
    /\ UNCHANGED <<buffer, initialised, head, tail, size, overwriteWhenFull, autoExpand, undefined>>

(* Fault: the head stays where it was. *)
HeadStays == head

HeadAfterOverwrite == nextIndex(tail)

PushOver(v) ==
    /\ Full /\ ~autoExpand /\ overwriteWhenFull
    /\ undefined' = (undefined \/ BadDestroy(buffer, {tail}))
    /\ buffer' = [Destroyed(buffer, {tail}) EXCEPT ![tail] = Slot(TRUE, v)]
    /\ tail' = nextIndex(tail) /\ head' = HeadAfterOverwrite
    /\ result' = Done(<< >>)
    /\ UNCHANGED <<initialised, size, overwriteWhenFull, autoExpand>>

(* The oldest count values leave the queue, as in try_pop() and pop_batch() *)
TakeOldest(count) ==
    /\ undefined' = (undefined \/ BadRead(count) \/ BadDestroy(buffer, Oldest(count)))
    /\ buffer' = Destroyed(buffer, Oldest(count))
    /\ head' = (head + count) % capacity /\ size' = size - count
    /\ result' = Done(Objects(count))
    /\ UNCHANGED <<initialised, tail, overwriteWhenFull, autoExpand>>

TryPop ==
    \/ size > 0 /\ TakeOldest(1)
    \/ /\ size = 0
       /\ result' = Refused
       /\ UNCHANGED <<buffer, initialised, head, tail, size, overwriteWhenFull, autoExpand, undefined>>

PopBatch(maxCount) == TakeOldest(IF maxCount < size THEN maxCount ELSE size)

(* snapshot() with count = size, front_copy() with count = 1. *)
Look(count) ==
    /\ count <= size
    /\ undefined' = (undefined \/ BadRead(count))
    /\ result' = Done(Objects(count))
    /\ UNCHANGED <<buffer, initialised, head, tail, size, overwriteWhenFull, autoExpand>>

FrontCopyRefused ==
    /\ size = 0
    /\ result' = Refused
    /\ UNCHANGED <<buffer, initialised, head, tail, size, overwriteWhenFull, autoExpand, undefined>>

Reserve(n) ==
    /\ result' = Done(<< >>)
    /\ UNCHANGED <<size, overwriteWhenFull, autoExpand>>
    /\ \/ capacity >= n /\ UNCHANGED <<buffer, initialised, head, tail, undefined>>
       \/ /\ capacity < n
          /\ \E m \in FirstDoubling(capacity, n) : Grow(m) /\ buffer' \in Grown(m)
          /\ tail' = size

SetOverwriteWhenFull(flag) ==
    /\ overwriteWhenFull' = flag /\ result' = Done(<< >>)
    /\ UNCHANGED <<buffer, initialised, head, tail, size, autoExpand, undefined>>

SetAutoExpand(flag) ==
    /\ autoExpand' = flag /\ result' = Done(<< >>)
    /\ UNCHANGED <<buffer, initialised, head, tail, size, overwriteWhenFull, undefined>>

(* clear() goes over every slot that fits in the block. *)
Clear ==
    /\ undefined' = (undefined \/ BadDestroy(buffer, Slots(capacity)))
    /\ buffer' = Destroyed(buffer, Slots(capacity))
    /\ head' = 0 /\ tail' = 0 /\ size' = 0
    /\ result' = Done(<< >>)
    /\ UNCHANGED <<initialised, overwriteWhenFull, autoExpand>>

(* After undefined behaviour the model goes on as if nothing had happened. *)
Next ==
    \/ \E v \in Values : PushInRoom(v) \/ PushAndGrow(v) \/ PushRefused(v) \/ PushOver(v)
    \/ TryPop \/ FrontCopyRefused
    \/ \E count \in 0 .. 2 : PopBatch(count)
    \/ \E count \in {1, size} : Look(count)
    \/ \E n \in Capacities : Reserve(n)
    \/ \E flag \in BOOLEAN : SetOverwriteWhenFull(flag) \/ SetAutoExpand(flag)
    \/ Clear

Spec == Init /\ [][Next]_vars

-----------------------------------------------------------------------------
(* A value lives exactly in each of the size slots from the head on, and   *)
(* its slot is marked; no other slot that was initialised is marked.  So   *)
(* no value is lost without its destructor, or destroyed twice.            *)
SlotsMatch ==
    /\ tail = At(size)
    /\ \A i \in DOMAIN buffer :
           /\ (i \in Oldest(size)) = (buffer[i].object # NoObject)
           /\ buffer[i].object # NoObject => buffer[i].occupied
           /\ i < initialised /\ buffer[i].occupied => buffer[i].object # NoObject

(* No destructor runs, and no value is read, where no value lives. *)
OnlyLiveValues == ~undefined

(* The ring is a bounded first-in first-out queue, through every wrap of   *)
(* the indices and every move to a larger block.                           *)
Fifo == INSTANCE BoundedFifo WITH
    contents <- Objects(size), bound <- capacity,
    overwrite <- overwriteWhenFull, expand <- autoExpand
ImplementsFifo == Fifo!Spec
=============================================================================
