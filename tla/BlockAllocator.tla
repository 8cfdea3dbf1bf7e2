--------------------------- MODULE BlockAllocator ---------------------------
(***************************************************************************)
(* What BlockMemPool promises the holders of Block handles: an allocation  *)
(* yields memory that no handle refers to, copies share it, and nothing    *)
(* but the holder of a handle ever changes what it refers to.              *)
(***************************************************************************)
EXTENDS Integers

CONSTANTS Handles,   \* the Block objects of the program
          Slots,     \* the places a block may be at
          Null       \* an empty handle

VARIABLES handle,    \* handle[h]: the slot h refers to, or Null
          refCounts  \* refCounts[s]: what use_count() says of the block at s

vars == <<handle, refCounts>>

Init == /\ handle = [h \in Handles |-> Null]
        /\ refCounts = [s \in Slots |-> 0]

Allocate(h) ==
    /\ handle[h] = Null
    /\ \E s \in Slots :
           /\ \A k \in Handles : handle[k] # s
           /\ handle' = [handle EXCEPT ![h] = s]
           /\ refCounts' = [refCounts EXCEPT ![s] = 1]

Copy(from, to) ==
    /\ handle[to] = Null /\ handle[from] # Null
    /\ handle' = [handle EXCEPT ![to] = handle[from]]
    /\ refCounts' = [refCounts EXCEPT ![handle[from]] = @ + 1]

Move(from, to) ==
    /\ handle[to] = Null /\ handle[from] # Null
    /\ handle' = [handle EXCEPT ![to] = handle[from], ![from] = Null]
    /\ UNCHANGED refCounts

Drop(h) ==
    /\ handle[h] # Null
    /\ handle' = [handle EXCEPT ![h] = Null]
    /\ refCounts' = [refCounts EXCEPT ![handle[h]] = @ - 1]

Next == \/ \E h \in Handles : Allocate(h) \/ Drop(h)
        \/ \E h, k \in Handles : Copy(h, k) \/ Move(h, k)

Spec == Init /\ [][Next]_vars
=============================================================================
