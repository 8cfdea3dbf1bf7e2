------------------------- MODULE BlockMemPoolProofs -------------------------
(***************************************************************************)
(* Proofs about BlockMemPool, for any number of threads, any finite set of *)
(* handles and any capacity of a segment.                                  *)
(***************************************************************************)
EXTENDS BlockMemPoolProperties, FiniteSetTheorems, FunctionTheorems, TLAPS

(* The types, without the bounds of the two counters: these follow from    *)
(* what the counters count.                                                *)
Types ==
    /\ segmentCount \in 0 .. MaxSegments
    /\ bucketLock \in Threads \cup {Nobody}
    /\ bitmap \subseteq Slots
    /\ usedCount \in [Segments -> Int]
    /\ refCounts \in [Slots -> Int]
    /\ handle \in [Handles -> Slots \cup {Null}]
    /\ pc \in [Threads -> Labels]
    /\ dst \in [Threads -> Handles \cup {Null}]
    /\ src \in [Threads -> Handles \cup {Null}]
    /\ slot \in [Threads -> Slots \cup {Null}]
    /\ moving \in [Threads -> BOOLEAN]
    /\ current \in [Threads -> 0 .. MaxSegments]

(* A call writes to a handle that is empty and that is its own.            *)
OwnCalls ==
    /\ \A t \in Threads : pc[t] # "idle" => dst[t] \in Handles /\ handle[dst[t]] = Null
    /\ \A t, u \in Threads :
           pc[t] # "idle" /\ pc[u] # "idle" /\ dst[t] = dst[u] => t = u

(* What a thread has in its hands is a slot. *)
HandsHoldSlots == \A t \in Threads : InHand(t) => slot[t] \in Slots

(* Slots are taken, and scans move, in segments that exist; the slots of   *)
(* the next segment are free.                                              *)
WithinSegments ==
    /\ \A s \in bitmap : s[1] <= segmentCount
    /\ \A t \in Threads : pc[t] = "scan" => current[t] <= segmentCount

IInv ==
    /\ Types
    /\ OwnCalls
    /\ HandsHoldSlots
    /\ WithinSegments
    /\ RefCountExact
    /\ BitmapMatchesUse

-----------------------------------------------------------------------------
(* How the holders of a slot change with a handle.                         *)

LEMMA HoldersFinite ==
    ASSUME NEW s
    PROVE  IsFiniteSet(Holders(s)) /\ Cardinality(Holders(s)) \in Nat
<1>1. IsFiniteSet(Holders(s))
  BY HandlesAssumption, FS_Subset DEF Holders
<1>2. QED
  BY <1>1, FS_CardinalityType

LEMMA NoHolders ==
    ASSUME NEW s, Holders(s) = {}
    PROVE  Cardinality(Holders(s)) = 0
BY FS_EmptySet

LEMMA SomeHolder ==
    ASSUME NEW h \in Handles
    PROVE  Cardinality(Holders(handle[h])) >= 1
<1>1. Holders(handle[h]) # {}
  BY DEF Holders
<1>2. Cardinality(Holders(handle[h])) # 0
  BY <1>1, HoldersFinite, FS_EmptySet
<1>3. QED
  BY <1>2, HoldersFinite

(* An empty handle comes to refer to s.                                    *)
LEMMA HoldersGain ==
    ASSUME Types, NEW h \in Handles, handle[h] = Null, NEW s \in Slots,
           handle' = [handle EXCEPT ![h] = s]
    PROVE  /\ Holders(s)' = Holders(s) \cup {h}
           /\ Cardinality(Holders(s)') = Cardinality(Holders(s)) + 1
           /\ \A r \in Slots : r # s => Holders(r)' = Holders(r)
<1>1. Holders(s)' = Holders(s) \cup {h} /\ h \notin Holders(s)
  BY NullAssumption DEF Holders, Types
<1>2. \A r \in Slots : r # s => Holders(r)' = Holders(r)
  BY NullAssumption DEF Holders, Types
<1>3. QED
  BY <1>1, <1>2, HoldersFinite, FS_AddElement

(* A handle is emptied.                                                    *)
LEMMA HoldersLose ==
    ASSUME Types, NEW h \in Handles, NEW s \in Slots, handle[h] = s,
           handle' = [handle EXCEPT ![h] = Null]
    PROVE  /\ Holders(s)' = Holders(s) \ {h}
           /\ Cardinality(Holders(s)') = Cardinality(Holders(s)) - 1
           /\ \A r \in Slots : r # s => Holders(r)' = Holders(r)
<1>1. Holders(s)' = Holders(s) \ {h} /\ h \in Holders(s)
  BY NullAssumption DEF Holders, Types
<1>2. \A r \in Slots : r # s => Holders(r)' = Holders(r)
  BY NullAssumption DEF Holders, Types
<1>3. QED
  BY <1>1, <1>2, HoldersFinite, FS_RemoveElement

(* A reference moves from one handle to another.                           *)
LEMMA HoldersMove ==
    ASSUME Types, NEW h \in Handles, NEW k \in Handles, handle[h] \in Slots, handle[k] = Null,
           handle' = [handle EXCEPT ![k] = handle[h], ![h] = Null]
    PROVE  \A r \in Slots : /\ Cardinality(Holders(r)') = Cardinality(Holders(r))
                            /\ Holders(r)' = {} <=> Holders(r) = {}
<1>1. h # k
  BY NullAssumption
<1>2. \A r \in Slots : r # handle[h] => Holders(r)' = Holders(r)
  BY <1>1, NullAssumption DEF Holders, Types
<1>3. Holders(handle[h]) # {} /\ k \notin Holders(handle[h]) /\ h \in Holders(handle[h])
  BY NullAssumption DEF Holders, Types
<1>4. /\ {x \in Handles : handle'[x] = handle[h]} = (Holders(handle[h]) \ {h}) \cup {k}
      /\ k \notin Holders(handle[h]) \ {h}
  BY <1>1, <1>3, NullAssumption DEF Holders, Types
<1>5. /\ IsFiniteSet(Holders(handle[h]) \ {h})
      /\ Cardinality(Holders(handle[h]) \ {h}) = Cardinality(Holders(handle[h])) - 1
  BY <1>3, HoldersFinite, FS_RemoveElement
<1>6. Cardinality((Holders(handle[h]) \ {h}) \cup {k}) = Cardinality(Holders(handle[h]) \ {h}) + 1
  BY <1>4, <1>5, FS_AddElement
<1>7. ASSUME NEW r \in Slots, r = handle[h]
      PROVE  Holders(r)' = (Holders(handle[h]) \ {h}) \cup {k}
  BY <1>4, <1>7 DEF Holders
<1>8. Cardinality((Holders(handle[h]) \ {h}) \cup {k}) = Cardinality(Holders(handle[h]))
  <2>1. Cardinality(Holders(handle[h])) \in Nat
    BY HoldersFinite
  <2>2. QED
    BY <1>5, <1>6, <2>1
<1>9. ASSUME NEW r \in Slots, r = handle[h]
      PROVE  Cardinality(Holders(r)') = Cardinality(Holders(r)) /\ Holders(r)' # {} /\ Holders(r) # {}
  BY <1>3, <1>7, <1>8, <1>9
<1>10. QED
  BY <1>2, <1>9

-----------------------------------------------------------------------------
(* How the calls keep their handles to themselves.                         *)

LEMMA CallBegins ==
    ASSUME Types, OwnCalls, NEW t \in Threads, NEW h \in Handles, NEW l \in Labels,
           l # "idle", Begin(t, h, l), handle' = [handle EXCEPT ![h] = Null]
    PROVE  OwnCalls'
BY DEF Types, OwnCalls, Begin, Unused, GoTo, Labels

LEMMA CallGoesOn ==
    ASSUME Types, OwnCalls, NEW t \in Threads, NEW l \in Labels, pc[t] # "idle",
           GoTo(t, l), UNCHANGED <<handle, dst>>
    PROVE  OwnCalls'
BY DEF Types, OwnCalls, GoTo

LEMMA CallEnds ==
    ASSUME Types, OwnCalls, NEW t \in Threads, pc[t] # "idle", Finish(t),
           \A k \in Handles : k # dst[t] /\ handle[k] = Null => handle'[k] = Null
    PROVE  OwnCalls'
BY DEF Types, OwnCalls, Finish, GoTo

LEMMA CallAtOnce ==
    ASSUME Types, OwnCalls, NEW h \in Handles, Unused(h), UNCHANGED <<pc, dst>>,
           \A k \in Handles : k # h /\ handle[k] = Null => handle'[k] = Null
    PROVE  OwnCalls'
BY DEF Types, OwnCalls, Unused

-----------------------------------------------------------------------------
(* Classes of steps, by what they do to the slots.                         *)

(* What the bitmap and the hands of the threads say of a slot.             *)
LEMMA UseFacts ==
    ASSUME IInv
    PROVE  /\ \A s \in Slots :
                  s \in bitmap <=> Holders(s) # {} \/ \E t \in Threads : InHand(t) /\ slot[t] = s
           /\ \A t \in Threads : InHand(t) => slot[t] \in Slots /\ \A h \in Handles : handle[h] # slot[t]
           /\ \A t, u \in Threads : InHand(t) /\ InHand(u) /\ slot[t] = slot[u] => t = u
BY DEF IInv, HandsHoldSlots, BitmapMatchesUse, Holders

(* No slot is taken, given back, or referred to anew.                      *)
LEMMA SlotsStay ==
    ASSUME IInv, UNCHANGED <<bitmap, refCounts, handle>>,
           \A t \in Threads : InHand(t)' <=> InHand(t),
           \A t \in Threads : InHand(t) => slot'[t] = slot[t]
    PROVE  RefCountExact' /\ BitmapMatchesUse' /\ HandsHoldSlots'
<1>1. \A s : Holders(s)' = Holders(s)
  BY DEF Holders
<1>2. RefCountExact'
  BY <1>1 DEF IInv, RefCountExact
<1>3. BitmapMatchesUse'
  BY <1>1 DEF IInv, BitmapMatchesUse
<1>4. HandsHoldSlots'
  BY DEF IInv, HandsHoldSlots
<1>5. QED
  BY <1>2, <1>3, <1>4

(* A free slot is taken into the hands of a thread.                        *)
LEMMA SlotTaken ==
    ASSUME IInv, NEW t \in Threads, NEW s \in Slots, s \notin bitmap, ~InHand(t),
           MarkTaken(s), slot' = [slot EXCEPT ![t] = s], GoTo(t, "construct"),
           handle' = handle
    PROVE  RefCountExact' /\ BitmapMatchesUse' /\ HandsHoldSlots'
<1>1. \A r : Holders(r)' = Holders(r)
  BY DEF Holders
<1>2. Holders(s) = {} /\ \A u \in Threads : InHand(u) => slot[u] # s
  BY DEF IInv, BitmapMatchesUse
<1>3. \A u \in Threads : u # t => (InHand(u)' <=> InHand(u)) /\ slot'[u] = slot[u]
  BY DEF IInv, Types, InHand, GoTo
<1>4. InHand(t)' /\ slot'[t] = s
  BY DEF IInv, Types, InHand, GoTo
<1>5. RefCountExact'
  BY <1>1, <1>2, NoHolders DEF IInv, Types, RefCountExact, MarkTaken
<1>6. bitmap' = bitmap \cup {s}
  BY DEF MarkTaken
<1>7. BitmapMatchesUse'
  <2>1. \A r \in Slots :
            r \in bitmap' <=> Holders(r)' # {} \/ \E u \in Threads : InHand(u)' /\ slot'[u] = r
    BY <1>1, <1>2, <1>3, <1>4, <1>6 DEF IInv, BitmapMatchesUse
  <2>2. \A u \in Threads : InHand(u)' => Holders(slot'[u]) = {}
    BY <1>2, <1>3, <1>4 DEF IInv, BitmapMatchesUse
  <2>3. \A u, v \in Threads : InHand(u)' /\ InHand(v)' /\ slot'[u] = slot'[v] => u = v
    BY <1>2, <1>3, <1>4 DEF IInv, BitmapMatchesUse
  <2>4. QED
    BY <1>1, <2>1, <2>2, <2>3 DEF BitmapMatchesUse
<1>8. HandsHoldSlots'
  BY <1>3, <1>4 DEF IInv, HandsHoldSlots
<1>9. QED
  BY <1>5, <1>7, <1>8

(* A slot in use gets one more handle, which was empty.                    *)
LEMMA SlotShared ==
    ASSUME IInv, NEW h \in Handles, handle[h] = Null, NEW s \in Slots, Holders(s) # {},
           handle' = [handle EXCEPT ![h] = s],
           refCounts' = [refCounts EXCEPT ![s] = @ + 1], bitmap' = bitmap,
           \A t \in Threads : InHand(t)' <=> InHand(t),
           \A t \in Threads : InHand(t) => slot'[t] = slot[t]
    PROVE  RefCountExact' /\ BitmapMatchesUse' /\ HandsHoldSlots'
<1>1. /\ Holders(s)' = Holders(s) \cup {h}
      /\ Cardinality(Holders(s)') = Cardinality(Holders(s)) + 1
      /\ \A r \in Slots : r # s => Holders(r)' = Holders(r)
  BY HoldersGain DEF IInv
<1>2. RefCountExact'
  BY <1>1 DEF IInv, Types, RefCountExact
<1>3. BitmapMatchesUse'
  <2>1. \A r \in Slots : Holders(r)' = {} <=> Holders(r) = {}
    BY <1>1
  <2>2. QED
    BY <2>1 DEF IInv, BitmapMatchesUse, HandsHoldSlots
<1>4. HandsHoldSlots'
  BY DEF IInv, HandsHoldSlots
<1>5. QED
  BY <1>2, <1>3, <1>4

(* A handle takes a slot over from another.                                *)
LEMMA SlotMoved ==
    ASSUME IInv, NEW h \in Handles, NEW k \in Handles, handle[h] # Null, handle[k] = Null,
           handle' = [handle EXCEPT ![k] = handle[h], ![h] = Null],
           UNCHANGED <<refCounts, bitmap>>,
           \A t \in Threads : InHand(t)' <=> InHand(t),
           \A t \in Threads : InHand(t) => slot'[t] = slot[t]
    PROVE  RefCountExact' /\ BitmapMatchesUse' /\ HandsHoldSlots'
<1>1. handle[h] \in Slots
  BY DEF IInv, Types
<1>2. \A r \in Slots : /\ Cardinality(Holders(r)') = Cardinality(Holders(r))
                       /\ Holders(r)' = {} <=> Holders(r) = {}
  BY <1>1, HoldersMove DEF IInv
<1>3. RefCountExact'
  BY <1>2 DEF IInv, RefCountExact
<1>4. BitmapMatchesUse'
  BY <1>2 DEF IInv, BitmapMatchesUse, HandsHoldSlots
<1>5. HandsHoldSlots'
  BY DEF IInv, HandsHoldSlots
<1>6. QED
  BY <1>3, <1>4, <1>5

(* The slot in a thread's hands gets its first handle.                     *)
LEMMA SlotHanded ==
    ASSUME IInv, NEW t \in Threads, Construct(t)
    PROVE  RefCountExact' /\ BitmapMatchesUse' /\ HandsHoldSlots'
<1>1. PICK s \in Slots : s = slot[t]
  BY DEF Construct, InHand, IInv, HandsHoldSlots
<1>2. /\ InHand(t) /\ Holders(s) = {}
      /\ \A u \in Threads : u # t /\ InHand(u) => slot[u] # s
  BY <1>1 DEF Construct, InHand, IInv, BitmapMatchesUse
<1>3. /\ dst[t] \in Handles /\ handle[dst[t]] = Null
      /\ handle' = [handle EXCEPT ![dst[t]] = s]
  BY <1>1 DEF Construct, IInv, OwnCalls
<1>4. PICK h \in Handles : h = dst[t]
  BY <1>3
<1>5. /\ Holders(s)' = Holders(s) \cup {h}
      /\ Cardinality(Holders(s)') = Cardinality(Holders(s)) + 1
      /\ \A r \in Slots : r # s => Holders(r)' = Holders(r)
  BY <1>3, <1>4, HoldersGain DEF IInv
<1>6. RefCountExact'
  BY <1>1, <1>5 DEF Construct, IInv, Types, RefCountExact
<1>7. /\ ~InHand(t)'
      /\ \A u \in Threads : u # t => (InHand(u)' <=> InHand(u)) /\ slot'[u] = slot[u]
      /\ bitmap' = bitmap
  BY DEF Construct, Finish, GoTo, InHand, IInv, Types
<1>8. BitmapMatchesUse'
  <2>1. \A r \in Slots :
            r \in bitmap' <=> Holders(r)' # {} \/ \E u \in Threads : InHand(u)' /\ slot'[u] = r
    <3>1. s \in bitmap' /\ Holders(s)' # {}
      BY <1>1, <1>2, <1>5, <1>7, UseFacts
    <3>2. ASSUME NEW r \in Slots, r # s
          PROVE  r \in bitmap' <=> Holders(r)' # {} \/ \E u \in Threads : InHand(u)' /\ slot'[u] = r
      BY <1>1, <1>5, <1>7, <3>2, UseFacts
    <3>3. QED
      BY <3>1, <3>2
  <2>2. \A u \in Threads : InHand(u)' => \A k \in Handles : handle'[k] # slot'[u]
    BY <1>1, <1>2, <1>3, <1>7, UseFacts DEF IInv, Types
  <2>3. \A u, v \in Threads : InHand(u)' /\ InHand(v)' /\ slot'[u] = slot'[v] => u = v
    BY <1>7, UseFacts, Zenon
  <2>4. QED
    BY <2>1, <2>2, <2>3 DEF BitmapMatchesUse, Holders
<1>9. HandsHoldSlots'
  BY <1>7 DEF IInv, HandsHoldSlots
<1>10. QED
  BY <1>6, <1>8, <1>9

(* A handle lets go of its slot, and the last one leaves it in the hands   *)
(* of its thread.                                                          *)
LEMMA SlotLetGo ==
    ASSUME IInv, NEW t \in Threads, NEW h \in Handles, handle[h] # Null, TakeOff(t, h)
    PROVE  RefCountExact' /\ BitmapMatchesUse' /\ HandsHoldSlots'
<1>1. PICK s \in Slots : s = handle[h]
  BY DEF IInv, Types
<1>2. /\ Holders(s)' = Holders(s) \ {h} /\ h \in Holders(s)
      /\ Cardinality(Holders(s)') = Cardinality(Holders(s)) - 1
      /\ \A r \in Slots : r # s => Holders(r)' = Holders(r)
  BY <1>1, HoldersLose DEF TakeOff, IInv, Holders
<1>3. RefCountExact'
  BY <1>1, <1>2 DEF TakeOff, IInv, Types, RefCountExact
<1>4. LastReference(s) <=> Holders(s)' = {}
  <2>1. IsFiniteSet(Holders(s)') /\ Cardinality(Holders(s)') \in Nat
    BY <1>2, HoldersFinite, FS_RemoveElement, FS_CardinalityType
  <2>2. Holders(s)' = {} <=> Cardinality(Holders(s)') = 0
    BY <2>1, FS_EmptySet
  <2>3. refCounts[s] = Cardinality(Holders(s)) /\ Cardinality(Holders(s)) \in Nat
    BY HoldersFinite DEF IInv, RefCountExact
  <2>4. QED
    BY <1>2, <2>2, <2>3 DEF LastReference
<1>5. /\ bitmap' = bitmap /\ slot'[t] = s
      /\ \A u \in Threads : u # t => (InHand(u)' <=> InHand(u)) /\ slot'[u] = slot[u]
  BY <1>1 DEF TakeOff, Begin, GoTo, InHand, IInv, Types
<1>6. ~InHand(t) /\ (InHand(t)' <=> LastReference(s))
  <2>1. pc[t] = "idle" /\ pc'[t] = IF LastReference(s) THEN "free" ELSE "assign"
    BY <1>1 DEF TakeOff, Begin, GoTo, IInv, Types
  <2>2. QED
    BY <2>1 DEF InHand
<1>7. s \in bitmap /\ \A u \in Threads : InHand(u) => slot[u] # s
  BY <1>2 DEF IInv, BitmapMatchesUse
<1>8. BitmapMatchesUse'
  <2>1. \A r \in Slots :
            r \in bitmap' <=> Holders(r)' # {} \/ \E u \in Threads : InHand(u)' /\ slot'[u] = r
    <3>1. s \in bitmap' <=> Holders(s)' # {} \/ \E u \in Threads : InHand(u)' /\ slot'[u] = s
      BY <1>4, <1>5, <1>6, <1>7
    <3>2. ASSUME NEW r \in Slots, r # s
          PROVE  r \in bitmap' <=> Holders(r)' # {} \/ \E u \in Threads : InHand(u)' /\ slot'[u] = r
      BY <1>2, <1>5, <1>6, <3>2 DEF IInv, BitmapMatchesUse
    <3>3. QED
      BY <3>1, <3>2
  <2>2. \A u \in Threads : InHand(u)' => \A k \in Handles : handle'[k] # slot'[u]
    <3>1. InHand(t)' => \A k \in Handles : handle'[k] # slot'[t]
      BY <1>4, <1>5, <1>6 DEF Holders
    <3>2. ASSUME NEW u \in Threads, u # t, InHand(u) PROVE \A k \in Handles : handle'[k] # slot'[u]
      BY <1>1, <3>2, <1>5, UseFacts, NullAssumption DEF TakeOff, IInv, Types
    <3>3. QED
      BY <1>5, <3>1, <3>2
  <2>3. \A u, v \in Threads : InHand(u)' /\ InHand(v)' /\ slot'[u] = slot'[v] => u = v
    BY <1>5, <1>6, <1>7, UseFacts
  <2>4. QED
    BY <2>1, <2>2, <2>3 DEF BitmapMatchesUse, Holders
<1>9. HandsHoldSlots'
  BY <1>5 DEF IInv, HandsHoldSlots
<1>10. QED
  BY <1>3, <1>8, <1>9

(* A thread gives back the slot in its hands.                              *)
LEMMA SlotGivenBack ==
    ASSUME IInv, NEW t \in Threads, ReleaseSlot(t)
    PROVE  RefCountExact' /\ BitmapMatchesUse' /\ HandsHoldSlots'
<1>1. PICK s \in Slots : s = slot[t]
  BY DEF ReleaseSlot, InHand, IInv, HandsHoldSlots
<1>2. /\ InHand(t) /\ Holders(s) = {}
      /\ \A u \in Threads : u # t /\ InHand(u) => slot[u] # s
  BY <1>1 DEF ReleaseSlot, InHand, IInv, BitmapMatchesUse
<1>3. \A r : Holders(r)' = Holders(r)
  BY DEF ReleaseSlot, Holders
<1>4. RefCountExact'
  BY <1>1, <1>2, <1>3, NoHolders DEF ReleaseSlot, IInv, Types, RefCountExact
<1>5. /\ ~InHand(t)' /\ slot' = slot
      /\ \A u \in Threads : u # t => (InHand(u)' <=> InHand(u))
      /\ bitmap' = bitmap \ {s}
  BY <1>1 DEF ReleaseSlot, MarkFree, GoTo, InHand, IInv, Types
<1>6. BitmapMatchesUse'
  <2>1. \A r \in Slots :
            r \in bitmap' <=> Holders(r)' # {} \/ \E u \in Threads : InHand(u)' /\ slot'[u] = r
    BY <1>1, <1>2, <1>3, <1>5 DEF IInv, BitmapMatchesUse
  <2>2. \A u \in Threads : InHand(u)' => \A k \in Handles : handle'[k] # slot'[u]
    BY <1>5, UseFacts DEF ReleaseSlot
  <2>3. \A u, v \in Threads : InHand(u)' /\ InHand(v)' /\ slot'[u] = slot'[v] => u = v
    BY <1>5, UseFacts, Zenon
  <2>4. QED
    BY <2>1, <2>2, <2>3 DEF BitmapMatchesUse, Holders
<1>7. HandsHoldSlots'
  BY <1>5 DEF IInv, HandsHoldSlots
<1>8. QED
  BY <1>4, <1>6, <1>7

-----------------------------------------------------------------------------
(* The whole invariant, step by step.                                      *)

LEMMA InitOK == Init => IInv
<1> SUFFICES ASSUME Init PROVE IInv
  OBVIOUS
<1>1. Types
  BY CapacityAssumption DEF Init, Types, Labels
<1>2. OwnCalls /\ HandsHoldSlots /\ WithinSegments
  BY DEF Init, OwnCalls, HandsHoldSlots, InHand, WithinSegments
<1>3. \A s \in Slots : Holders(s) = {}
  BY NullAssumption DEF Init, Holders
<1>4. RefCountExact
  BY <1>3, NoHolders DEF Init, RefCountExact
<1>5. BitmapMatchesUse
  BY <1>3 DEF Init, BitmapMatchesUse, InHand
<1>6. QED
  BY <1>1, <1>2, <1>4, <1>5 DEF IInv

LEMMA AllocateStep ==
    ASSUME IInv, NEW t \in Threads, NEW h \in Handles, Allocate(t, h)
    PROVE  IInv'
<1>1. Types'
  BY DEF Allocate, Begin, GoTo, segmentVars, Labels, IInv, Types
<1>2. OwnCalls'
  <2>1. handle' = [handle EXCEPT ![h] = Null]
    BY DEF Allocate, IInv, Types
  <2>2. QED
    BY <2>1, CallBegins DEF Allocate, IInv, Labels
<1>3. WithinSegments'
  BY DEF Allocate, Begin, GoTo, segmentVars, IInv, Types, WithinSegments
<1>4. \A u \in Threads : InHand(u)' <=> InHand(u)
  BY DEF Allocate, Begin, GoTo, InHand, IInv, Types
<1>5. RefCountExact' /\ BitmapMatchesUse' /\ HandsHoldSlots'
  BY <1>4, SlotsStay DEF Allocate, segmentVars
<1>6. QED
  BY <1>1, <1>2, <1>3, <1>5 DEF IInv

LEMMA LockBucketStep ==
    ASSUME IInv, NEW t \in Threads, LockBucket(t)
    PROVE  IInv'
<1>1. Types'
  BY DEF LockBucket, GoTo, segmentVars, callVars, Labels, IInv, Types
<1>2. OwnCalls'
  BY CallGoesOn DEF LockBucket, callVars, IInv, Labels
<1>3. WithinSegments'
  BY DEF LockBucket, GoTo, segmentVars, IInv, Types, WithinSegments
<1>4. \A u \in Threads : InHand(u)' <=> InHand(u)
  BY DEF LockBucket, GoTo, InHand, IInv, Types
<1>5. RefCountExact' /\ BitmapMatchesUse' /\ HandsHoldSlots'
  BY <1>4, SlotsStay DEF LockBucket, segmentVars
<1>6. QED
  BY <1>1, <1>2, <1>3, <1>5 DEF IInv

LEMMA SkipSegmentStep ==
    ASSUME IInv, NEW t \in Threads, SkipSegment(t)
    PROVE  IInv'
<1>1. Types'
  BY CapacityAssumption DEF SkipSegment, NextSegment, segmentVars, callVars, IInv, Types
<1>2. OwnCalls'
  BY DEF SkipSegment, callVars, IInv, OwnCalls
<1>3. WithinSegments'
  BY CapacityAssumption DEF SkipSegment, NextSegment, segmentVars, IInv, Types, WithinSegments
<1>4. \A u \in Threads : InHand(u)' <=> InHand(u)
  BY DEF SkipSegment, InHand
<1>5. RefCountExact' /\ BitmapMatchesUse' /\ HandsHoldSlots'
  BY <1>4, SlotsStay DEF SkipSegment, segmentVars
<1>6. QED
  BY <1>1, <1>2, <1>3, <1>5 DEF IInv

LEMMA AcquireSlotStep ==
    ASSUME IInv, NEW t \in Threads, AcquireSlot(t)
    PROVE  IInv'
<1>1. PICK i \in 1 .. Capacity :
          /\ <<current[t], i>> \notin bitmap
          /\ MarkTaken(<<current[t], i>>)
          /\ slot' = [slot EXCEPT ![t] = <<current[t], i>>]
  BY DEF AcquireSlot, FirstFree
<1>2. PICK s \in Slots : s = <<current[t], i>> /\ s[1] <= segmentCount
  <2>1. current[t] \in 1 .. MaxSegments /\ current[t] <= segmentCount
    BY CapacityAssumption DEF AcquireSlot, IInv, Types, WithinSegments
  <2>2. <<current[t], i>> \in Slots
    BY <2>1 DEF Slots, Segments
  <2>3. QED
    BY <2>1, <2>2
<1>3. s \in Slots /\ s \notin bitmap /\ MarkTaken(s) /\ slot' = [slot EXCEPT ![t] = s]
  BY <1>1, <1>2
<1>4. ~InHand(t) /\ pc[t] = "scan" /\ GoTo(t, "construct")
  BY DEF AcquireSlot, InHand
<1>5. RefCountExact' /\ BitmapMatchesUse' /\ HandsHoldSlots'
  BY <1>3, <1>4, SlotTaken DEF AcquireSlot
<1>6. Types'
  <2>1. s[1] \in Segments
    BY DEF Slots
  <2>2. usedCount' \in [Segments -> Int] /\ refCounts' \in [Slots -> Int] /\ bitmap' \subseteq Slots
    BY <1>3, <2>1 DEF MarkTaken, IInv, Types
  <2>3. QED
    BY <1>3, <2>2 DEF AcquireSlot, GoTo, callVars, Labels, IInv, Types
<1>7. OwnCalls'
  BY <1>4, CallGoesOn DEF AcquireSlot, callVars, IInv, Labels
<1>8. WithinSegments'
  BY <1>2, <1>3 DEF AcquireSlot, MarkTaken, GoTo, IInv, Types, WithinSegments
<1>9. QED
  BY <1>5, <1>6, <1>7, <1>8 DEF IInv

(* The first slot of a new segment is free: nothing is taken beyond the    *)
(* segments there are.                                                     *)
LEMMA GrowStep ==
    ASSUME IInv, NEW t \in Threads, Grow(t)
    PROVE  IInv'
<1>1. PICK s \in Slots : s = <<segmentCount + 1, 1>> /\ s[1] = segmentCount + 1
  BY CapacityAssumption DEF Grow, IInv, Types, Slots, Segments
<1>2. s \notin bitmap
  BY <1>1, CapacityAssumption DEF IInv, Types, WithinSegments
<1>3. MarkTaken(s) /\ slot' = [slot EXCEPT ![t] = s]
  BY <1>1 DEF Grow
<1>4. ~InHand(t) /\ pc[t] = "scan" /\ GoTo(t, "construct")
  BY DEF Grow, InHand
<1>5. RefCountExact' /\ BitmapMatchesUse' /\ HandsHoldSlots'
  BY <1>2, <1>3, <1>4, SlotTaken DEF Grow
<1>6. Types'
  <2>1. s[1] \in Segments /\ segmentCount' \in 0 .. MaxSegments
    BY CapacityAssumption DEF Slots, Grow, IInv, Types
  <2>2. usedCount' \in [Segments -> Int] /\ refCounts' \in [Slots -> Int] /\ bitmap' \subseteq Slots
    BY <1>3, <2>1 DEF MarkTaken, IInv, Types
  <2>3. QED
    BY <1>3, <2>1, <2>2 DEF Grow, GoTo, callVars, Labels, IInv, Types
<1>7. OwnCalls'
  BY <1>4, CallGoesOn DEF Grow, callVars, IInv, Labels
<1>8. WithinSegments'
  <2>1. \A r \in bitmap' : r[1] <= segmentCount'
    <3>1. \A r \in bitmap : r[1] \in Int /\ r[1] <= segmentCount
      BY CapacityAssumption DEF IInv, Types, WithinSegments, Slots, Segments
    <3>2. segmentCount' = segmentCount + 1 /\ segmentCount \in Int /\ bitmap' = bitmap \cup {s}
      BY <1>3, CapacityAssumption DEF Grow, MarkTaken, IInv, Types
    <3>3. QED
      BY <1>1, <3>1, <3>2
  <2>2. \A u \in Threads : pc'[u] = "scan" => current'[u] <= segmentCount'
    BY <1>4, CapacityAssumption DEF Grow, GoTo, IInv, Types, WithinSegments
  <2>3. QED
    BY <2>1, <2>2 DEF WithinSegments
<1>9. QED
  BY <1>5, <1>6, <1>7, <1>8 DEF IInv

LEMMA ConstructStep ==
    ASSUME IInv, NEW t \in Threads, Construct(t)
    PROVE  IInv'
<1>1. RefCountExact' /\ BitmapMatchesUse' /\ HandsHoldSlots'
  BY SlotHanded
<1>2. dst[t] \in Handles /\ slot[t] \in Slots
  BY DEF Construct, InHand, IInv, OwnCalls, HandsHoldSlots
<1>3. Types'
  BY <1>2 DEF Construct, Finish, GoTo, Labels, IInv, Types
<1>4. OwnCalls'
  BY <1>2, CallEnds DEF Construct, IInv, Types
<1>5. WithinSegments'
  BY DEF Construct, Finish, GoTo, IInv, Types, WithinSegments
<1>6. QED
  BY <1>1, <1>3, <1>4, <1>5 DEF IInv

LEMMA CopyConstructStep ==
    ASSUME IInv, NEW t \in Threads, NEW from \in Handles, NEW to \in Handles,
           CopyConstruct(t, from, to)
    PROVE  IInv'
<1>1. PICK s \in Slots : s = handle[from]
  BY DEF CopyConstruct, IInv, Types
<1>2. Holders(s) # {}
  BY <1>1 DEF Holders
<1>3. \A u \in Threads : (InHand(u)' <=> InHand(u)) /\ slot'[u] = slot[u]
  BY DEF CopyConstruct, InHand
<1>4. RefCountExact' /\ BitmapMatchesUse' /\ HandsHoldSlots'
  BY <1>1, <1>2, <1>3, SlotShared DEF CopyConstruct
<1>5. Types'
  BY <1>1 DEF CopyConstruct, callVars, IInv, Types
<1>6. OwnCalls'
  BY CallAtOnce DEF CopyConstruct, callVars, IInv, Types
<1>7. WithinSegments'
  BY DEF CopyConstruct, IInv, WithinSegments
<1>8. QED
  BY <1>4, <1>5, <1>6, <1>7 DEF IInv

LEMMA MoveConstructStep ==
    ASSUME IInv, NEW t \in Threads, NEW from \in Handles, NEW to \in Handles,
           MoveConstruct(t, from, to)
    PROVE  IInv'
<1>1. \A u \in Threads : (InHand(u)' <=> InHand(u)) /\ slot'[u] = slot[u]
  BY DEF MoveConstruct, InHand
<1>2. RefCountExact' /\ BitmapMatchesUse' /\ HandsHoldSlots'
  BY <1>1, SlotMoved DEF MoveConstruct, segmentVars
<1>3. Types'
  BY DEF MoveConstruct, segmentVars, callVars, IInv, Types
<1>4. OwnCalls'
  BY CallAtOnce DEF MoveConstruct, callVars, IInv, Types
<1>5. WithinSegments'
  BY DEF MoveConstruct, segmentVars, IInv, WithinSegments
<1>6. QED
  BY <1>2, <1>3, <1>4, <1>5 DEF IInv

(* Destroy() and Assign() begin alike. *)
LEMMA TakeOffStep ==
    ASSUME IInv, NEW t \in Threads, NEW h \in Handles, handle[h] # Null, TakeOff(t, h),
           src' \in [Threads -> Handles \cup {Null}], moving' \in [Threads -> BOOLEAN]
    PROVE  IInv'
<1>1. RefCountExact' /\ BitmapMatchesUse' /\ HandsHoldSlots'
  BY SlotLetGo
<1>2. handle[h] \in Slots
  BY DEF IInv, Types
<1>3. PICK l \in {"free", "assign"} : Begin(t, h, l)
  BY DEF TakeOff
<1>4. Types'
  <2>1. pc' \in [Threads -> Labels] /\ dst' \in [Threads -> Handles \cup {Null}]
    BY <1>3 DEF Begin, GoTo, Labels, IInv, Types
  <2>2. refCounts' \in [Slots -> Int]
    BY <1>2 DEF TakeOff, IInv, Types
  <2>3. handle' \in [Handles -> Slots \cup {Null}] /\ slot' \in [Threads -> Slots \cup {Null}]
    BY <1>2 DEF TakeOff, IInv, Types
  <2>4. QED
    BY <2>1, <2>2, <2>3 DEF TakeOff, IInv, Types
<1>5. OwnCalls'
  BY <1>3, CallBegins DEF TakeOff, Labels, IInv
<1>6. WithinSegments'
  BY <1>3 DEF TakeOff, Begin, GoTo, IInv, Types, WithinSegments
<1>7. QED
  BY <1>1, <1>4, <1>5, <1>6 DEF IInv

LEMMA ReleaseSlotStep ==
    ASSUME IInv, NEW t \in Threads, ReleaseSlot(t)
    PROVE  IInv'
<1>1. RefCountExact' /\ BitmapMatchesUse' /\ HandsHoldSlots'
  BY SlotGivenBack
<1>2. PICK s \in Slots : s = slot[t] /\ s[1] \in Segments
  BY DEF ReleaseSlot, InHand, IInv, HandsHoldSlots, Slots
<1>3. Types'
  BY <1>2 DEF ReleaseSlot, MarkFree, GoTo, callVars, Labels, IInv, Types
<1>4. OwnCalls'
  BY CallGoesOn DEF ReleaseSlot, callVars, Labels, IInv
<1>5. WithinSegments'
  BY DEF ReleaseSlot, MarkFree, GoTo, IInv, Types, WithinSegments
<1>6. QED
  BY <1>1, <1>3, <1>4, <1>5 DEF IInv

LEMMA EndReleaseStep ==
    ASSUME IInv, NEW t \in Threads, EndRelease(t)
    PROVE  IInv'
<1>1. \A u \in Threads : (InHand(u)' <=> InHand(u)) /\ (InHand(u) => slot'[u] = slot[u])
  BY DEF EndRelease, Finish, GoTo, InHand, IInv, Types
<1>2. RefCountExact' /\ BitmapMatchesUse' /\ HandsHoldSlots'
  BY <1>1, SlotsStay DEF EndRelease, segmentVars
<1>3. Types'
  BY DEF EndRelease, Finish, GoTo, segmentVars, Labels, IInv, Types
<1>4. OwnCalls'
  BY CallEnds DEF EndRelease, IInv
<1>5. WithinSegments'
  BY DEF EndRelease, Finish, GoTo, segmentVars, IInv, Types, WithinSegments
<1>6. QED
  BY <1>2, <1>3, <1>4, <1>5 DEF IInv

LEMMA EndCopyAssignStep ==
    ASSUME IInv, NEW t \in Threads, EndCopyAssign(t)
    PROVE  IInv'
<1>1. PICK from \in Handles, to \in Handles : from = src[t] /\ to = dst[t] /\ handle[to] = Null
  BY DEF EndCopyAssign, IInv, Types, OwnCalls
<1>2. PICK s \in Slots : s = handle[from]
  BY <1>1 DEF EndCopyAssign, IInv, Types
<1>3. Holders(s) # {}
  BY <1>2 DEF Holders
<1>4. \A u \in Threads : (InHand(u)' <=> InHand(u)) /\ (InHand(u) => slot'[u] = slot[u])
  BY DEF EndCopyAssign, Finish, GoTo, InHand, IInv, Types
<1>5. handle' = [handle EXCEPT ![to] = s] /\ refCounts' = [refCounts EXCEPT ![s] = @ + 1]
  BY <1>1, <1>2 DEF EndCopyAssign, Retain
<1>6. RefCountExact' /\ BitmapMatchesUse' /\ HandsHoldSlots'
  BY <1>1, <1>3, <1>4, <1>5, SlotShared DEF EndCopyAssign
<1>7. Types'
  <2>1. refCounts' \in [Slots -> Int] /\ handle' \in [Handles -> Slots \cup {Null}]
    BY <1>5 DEF IInv, Types
  <2>2. QED
    BY <2>1 DEF EndCopyAssign, Finish, GoTo, Labels, IInv, Types
<1>8. OwnCalls'
  BY <1>1, <1>5, CallEnds DEF EndCopyAssign, IInv, Types
<1>9. WithinSegments'
  BY DEF EndCopyAssign, Finish, GoTo, IInv, Types, WithinSegments
<1>10. QED
  BY <1>6, <1>7, <1>8, <1>9 DEF IInv

LEMMA EndMoveAssignStep ==
    ASSUME IInv, NEW t \in Threads, EndMoveAssign(t)
    PROVE  IInv'
<1>1. PICK from \in Handles, to \in Handles : from = src[t] /\ to = dst[t] /\ handle[to] = Null
  BY DEF EndMoveAssign, IInv, Types, OwnCalls
<1>2. handle[from] # Null /\ handle' = [handle EXCEPT ![to] = handle[from], ![from] = Null]
  BY <1>1 DEF EndMoveAssign
<1>3. \A u \in Threads : (InHand(u)' <=> InHand(u)) /\ (InHand(u) => slot'[u] = slot[u])
  BY DEF EndMoveAssign, Finish, GoTo, InHand, IInv, Types
<1>4. RefCountExact' /\ BitmapMatchesUse' /\ HandsHoldSlots'
  BY <1>1, <1>2, <1>3, SlotMoved DEF EndMoveAssign, segmentVars
<1>5. Types'
  BY <1>2 DEF EndMoveAssign, Finish, GoTo, segmentVars, Labels, IInv, Types
<1>6. OwnCalls'
  BY <1>1, <1>2, CallEnds DEF EndMoveAssign, IInv, Types
<1>7. WithinSegments'
  BY DEF EndMoveAssign, Finish, GoTo, segmentVars, IInv, Types, WithinSegments
<1>8. QED
  BY <1>4, <1>5, <1>6, <1>7 DEF IInv

LEMMA ClearStep ==
    ASSUME IInv, Clear
    PROVE  IInv'
<1>1. Types' /\ OwnCalls' /\ HandsHoldSlots' /\ WithinSegments'
  BY CapacityAssumption DEF Clear, callVars, IInv, Types, OwnCalls, HandsHoldSlots, InHand, WithinSegments
<1>2. \A s \in Slots : Holders(s) = {} /\ Holders(s)' = {}
  BY NullAssumption DEF Clear, Holders
<1>3. RefCountExact'
  BY <1>2 DEF Clear, IInv, RefCountExact
<1>4. BitmapMatchesUse'
  BY <1>2 DEF Clear, BitmapMatchesUse, InHand
<1>5. QED
  BY <1>1, <1>3, <1>4 DEF IInv

LEMMA StepOK == IInv /\ [Next]_vars => IInv'
<1> SUFFICES ASSUME IInv, [Next]_vars PROVE IInv'
  OBVIOUS
<1>1. ASSUME NEW t \in Threads, NEW h \in Handles, Destroy(t, h) PROVE IInv'
  BY <1>1, TakeOffStep DEF Destroy, IInv, Types
<1>2. ASSUME NEW t \in Threads, NEW from \in Handles, NEW to \in Handles, NEW isMove \in BOOLEAN,
             Assign(t, from, to, isMove)
      PROVE  IInv'
  <2>1. src' \in [Threads -> Handles \cup {Null}]
    BY <1>2 DEF Assign, IInv, Types
  <2>2. moving' \in [Threads -> BOOLEAN]
    BY <1>2 DEF Assign, IInv, Types
  <2>3. QED
    BY <1>2, <2>1, <2>2, TakeOffStep DEF Assign
<1>3. CASE UNCHANGED vars
  BY <1>3 DEF vars, segmentVars, callVars, IInv, Types, OwnCalls, HandsHoldSlots, WithinSegments,
     RefCountExact, BitmapMatchesUse, InHand, Holders
<1>4. CASE Next
  BY <1>1, <1>2, <1>4, AllocateStep, LockBucketStep, AcquireSlotStep, SkipSegmentStep, GrowStep,
     ConstructStep, CopyConstructStep, MoveConstructStep, ReleaseSlotStep, EndReleaseStep,
     EndCopyAssignStep, EndMoveAssignStep, ClearStep DEF Next
<1>5. QED
  BY <1>3, <1>4

LEMMA Invariant == Spec => []IInv
BY InitOK, StepOK, PTL DEF Spec

(* The reference count of every slot is the number of Block handles that   *)
(* refer to it (retain, release), for any number of threads and handles.   *)
THEOREM RefCountExactHolds == Spec => []RefCountExact
<1>1. IInv => RefCountExact
  BY DEF IInv
<1>2. QED
  BY <1>1, Invariant, PTL

(* A slot's bit is set exactly while the slot is used: none is handed out  *)
(* twice and none is lost (tryAcquireSlot, releaseSlot).                   *)
THEOREM BitmapMatchesUseHolds == Spec => []BitmapMatchesUse
<1>1. IInv => BitmapMatchesUse
  BY DEF IInv
<1>2. QED
  BY <1>1, Invariant, PTL

-----------------------------------------------------------------------------
(* Every step is a step of the abstract allocator on the handles, or none. *)

(* As long as the handles stay, so do the counts.                          *)
LEMMA CountsFollowHandles ==
    ASSUME IInv, IInv', handle' = handle
    PROVE  refCounts' = refCounts
<1>1. \A s \in Slots : refCounts'[s] = refCounts[s]
  <2>1. \A s \in Slots : Holders(s)' = Holders(s)
    BY DEF Holders
  <2>2. QED
    BY <2>1 DEF IInv, RefCountExact
<1>2. refCounts \in [Slots -> Int] /\ refCounts' \in [Slots -> Int]
  BY DEF IInv, Types
<1>3. QED
  BY <1>1, <1>2

(* allocate() hands out a slot no handle refers to.                        *)
LEMMA ConstructAllocates ==
    ASSUME IInv, NEW t \in Threads, Construct(t)
    PROVE  Allocator!Next
<1>1. /\ dst[t] \in Handles /\ handle[dst[t]] = Null
      /\ handle' = [handle EXCEPT ![dst[t]] = slot[t]]
  BY DEF Construct, IInv, OwnCalls
<1>2. slot[t] \in Slots /\ \A k \in Handles : handle[k] # slot[t]
  BY UseFacts DEF Construct, InHand
<1>3. Holders(slot[t]) = {}
  BY <1>2 DEF Holders
<1>4. refCounts[slot[t]] = 0
  BY <1>2, <1>3, FS_EmptySet DEF IInv, RefCountExact
<1>5. refCounts' = [refCounts EXCEPT ![slot[t]] = 1]
  BY <1>4 DEF Construct
<1>6. Allocator!Allocate(dst[t])
  BY <1>1, <1>2, <1>5 DEF Allocator!Allocate
<1>7. QED
  BY <1>1, <1>6 DEF Allocator!Next

(* Handles and use_count() behave as if every allocation, copy, move and   *)
(* release were atomic: concurrent users never share a slot they did not   *)
(* copy.                                                                   *)
THEOREM AllocationIsAtomic == Spec => ImplementsBlockAllocator
<1>1. Init => Allocator!Init
  BY DEF Init, Allocator!Init
<1>2. IInv /\ IInv' /\ [Next]_vars => [Allocator!Next]_Allocator!vars
  <2> SUFFICES ASSUME IInv, IInv', [Next]_vars, <<handle, refCounts>>' # <<handle, refCounts>>
               PROVE  Allocator!Next
    BY DEF Allocator!vars
  <2>1. Next /\ handle' # handle
    <3>1. handle' # handle
      BY CountsFollowHandles
    <3>2. QED
      BY <3>1 DEF vars
  <2>2. ASSUME NEW t \in Threads, NEW from \in Handles, NEW to \in Handles,
               CopyConstruct(t, from, to)
        PROVE  Allocator!Next
    BY <2>2 DEF CopyConstruct, Allocator!Next, Allocator!Copy
  <2>3. ASSUME NEW t \in Threads, NEW from \in Handles, NEW to \in Handles,
               MoveConstruct(t, from, to)
        PROVE  Allocator!Next
    BY <2>3 DEF MoveConstruct, segmentVars, Allocator!Next, Allocator!Move
  <2>4. ASSUME NEW t \in Threads, NEW h \in Handles, handle[h] # Null, TakeOff(t, h)
        PROVE  Allocator!Next
    BY <2>4 DEF TakeOff, Allocator!Next, Allocator!Drop
  <2>5. ASSUME NEW t \in Threads, EndCopyAssign(t) \/ EndMoveAssign(t)
        PROVE  Allocator!Next
    <3>1. PICK from \in Handles, to \in Handles :
              from = src[t] /\ to = dst[t] /\ handle[from] # Null /\ handle[to] = Null
      BY <2>5 DEF EndCopyAssign, EndMoveAssign, IInv, Types, OwnCalls
    <3>2. Allocator!Copy(from, to) \/ Allocator!Move(from, to)
      BY <2>5, <3>1 DEF EndCopyAssign, EndMoveAssign, Retain, segmentVars,
         Allocator!Copy, Allocator!Move
    <3>3. QED
      BY <3>2 DEF Allocator!Next
  <2>6. ASSUME NEW t \in Threads, Construct(t) PROVE Allocator!Next
    BY <2>6, ConstructAllocates
  <2>7. QED
    BY <2>1, <2>2, <2>3, <2>4, <2>5, <2>6 DEF Next, Allocate, Destroy, Assign, LockBucket,
       AcquireSlot, SkipSegment, Grow, ReleaseSlot, EndRelease, Clear, segmentVars
<1>3. QED
  BY <1>1, <1>2, StepOK, Invariant, PTL DEF Spec, ImplementsBlockAllocator, Allocator!Spec

-----------------------------------------------------------------------------
(* The count of used slots, on top of the invariant.                       *)

Bits(g) == {i \in 1 .. Capacity : <<g, i>> \in bitmap}

LEMMA BitsFinite ==
    ASSUME NEW g
    PROVE  IsFiniteSet(Bits(g)) /\ Cardinality(Bits(g)) \in 0 .. Capacity
<1>1. IsFiniteSet(1 .. Capacity) /\ Cardinality(1 .. Capacity) = Capacity
  BY CapacityAssumption, FS_Interval
<1>2. Bits(g) \subseteq 1 .. Capacity
  BY DEF Bits
<1>3. IsFiniteSet(Bits(g)) /\ Cardinality(Bits(g)) <= Capacity
  BY <1>1, <1>2, FS_Subset
<1>4. Cardinality(Bits(g)) \in Nat
  BY <1>3, FS_CardinalityType
<1>5. QED
  BY <1>3, <1>4, CapacityAssumption

LEMMA TakenIsCounted ==
    ASSUME Types, UsedCountExact, NEW s \in Slots, s \notin bitmap, MarkTaken(s)
    PROVE  UsedCountExact'
<1>1. PICK g \in Segments, i \in 1 .. Capacity : s = <<g, i>>
  BY DEF Slots
<1>2. /\ bitmap' = bitmap \cup {<<g, i>>} /\ <<g, i>> \notin bitmap
      /\ usedCount' = [usedCount EXCEPT ![g] = @ + 1]
  BY <1>1 DEF MarkTaken
<1>3. Bits(g)' = Bits(g) \cup {i} /\ i \notin Bits(g)
  BY <1>2 DEF Bits
<1>4. Cardinality(Bits(g)') = Cardinality(Bits(g)) + 1
  BY <1>3, BitsFinite, FS_AddElement
<1>5. \A k \in Segments : k # g => Bits(k)' = Bits(k)
  BY <1>2 DEF Bits
<1>6. \A k \in Segments : usedCount[k] = Cardinality(Bits(k))
  BY DEF UsedCountExact, Bits
<1>7. \A k \in Segments : usedCount'[k] = Cardinality(Bits(k)')
  BY <1>2, <1>4, <1>5, <1>6 DEF Types
<1>8. QED
  BY <1>7 DEF UsedCountExact, Bits

LEMMA FreedIsUncounted ==
    ASSUME Types, UsedCountExact, NEW s \in Slots, s \in bitmap, MarkFree(s)
    PROVE  UsedCountExact'
<1>1. PICK g \in Segments, i \in 1 .. Capacity : s = <<g, i>>
  BY DEF Slots
<1>2. i \in Bits(g)
  BY <1>1 DEF Bits
<1>3. Bits(g)' = Bits(g) \ {i}
  BY <1>1 DEF MarkFree, Bits
<1>4. Cardinality(Bits(g)') = Cardinality(Bits(g)) - 1
  BY <1>2, <1>3, BitsFinite, FS_RemoveElement
<1>5. \A k \in Segments : k # g => Bits(k)' = Bits(k)
  BY <1>1 DEF MarkFree, Bits
<1>6. \A k \in Segments : usedCount[k] = Cardinality(Bits(k))
  BY DEF UsedCountExact, Bits
<1>7. usedCount[g] > 0
  <2>1. Cardinality(Bits(g)) # 0 /\ Cardinality(Bits(g)) \in Nat
    BY <1>2, BitsFinite, FS_EmptySet
  <2>2. QED
    BY <1>6, <2>1
<1>8. usedCount' = [usedCount EXCEPT ![g] = @ - 1]
  BY <1>1, <1>7 DEF MarkFree
<1>9. \A k \in Segments : usedCount'[k] = Cardinality(Bits(k)')
  BY <1>4, <1>5, <1>6, <1>8 DEF Types
<1>10. QED
  BY <1>9 DEF UsedCountExact, Bits

LEMMA CountStep == IInv /\ UsedCountExact /\ [Next]_vars => UsedCountExact'
<1> SUFFICES ASSUME IInv, UsedCountExact, [Next]_vars PROVE UsedCountExact'
  OBVIOUS
<1>1. ASSUME UNCHANGED <<bitmap, usedCount>> PROVE UsedCountExact'
  BY <1>1 DEF UsedCountExact
<1>2. ASSUME NEW t \in Threads, AcquireSlot(t) PROVE UsedCountExact'
  <2>1. PICK i \in 1 .. Capacity :
            <<current[t], i>> \notin bitmap /\ MarkTaken(<<current[t], i>>)
    BY <1>2 DEF AcquireSlot, FirstFree
  <2>2. current[t] \in 1 .. MaxSegments
    BY <1>2, CapacityAssumption DEF AcquireSlot, IInv, Types
  <2>3. <<current[t], i>> \in Slots
    BY <2>2 DEF Slots, Segments
  <2>4. QED
    BY <2>1, <2>3, TakenIsCounted DEF IInv
<1>3. ASSUME NEW t \in Threads, Grow(t) PROVE UsedCountExact'
  <2>1. PICK s \in Slots : s = <<segmentCount + 1, 1>> /\ s[1] = segmentCount + 1
    BY <1>3, CapacityAssumption DEF Grow, IInv, Types, Slots, Segments
  <2>2. s \notin bitmap
    BY <2>1, CapacityAssumption DEF IInv, Types, WithinSegments
  <2>3. QED
    BY <1>3, <2>1, <2>2, TakenIsCounted DEF Grow, IInv
<1>4. ASSUME NEW t \in Threads, ReleaseSlot(t) PROVE UsedCountExact'
  <2>1. slot[t] \in Slots /\ slot[t] \in bitmap
    BY <1>4, UseFacts DEF ReleaseSlot, InHand
  <2>2. QED
    BY <1>4, <2>1, FreedIsUncounted DEF ReleaseSlot, IInv
<1>5. ASSUME Clear PROVE UsedCountExact'
  <2>1. \A g \in Segments : Bits(g)' = {} /\ usedCount'[g] = 0
    BY <1>5 DEF Clear, Bits
  <2>2. QED
    BY <2>1, FS_EmptySet DEF UsedCountExact, Bits
<1>6. CASE UNCHANGED vars
  BY <1>1, <1>6 DEF vars, segmentVars
<1>7. CASE Next
  BY <1>1, <1>2, <1>3, <1>4, <1>5, <1>7 DEF Next, Allocate, Destroy, CopyConstruct, MoveConstruct,
     Assign, TakeOff, LockBucket, SkipSegment, Construct, EndRelease, EndCopyAssign, EndMoveAssign,
     segmentVars
<1>8. QED
  BY <1>6, <1>7

(* usedCount is the number of bits of its segment: tryAcquireSlot() never  *)
(* passes over a segment that has a free slot.                             *)
THEOREM UsedCountExactHolds == Spec => []UsedCountExact
<1>1. Init => UsedCountExact
  <2> SUFFICES ASSUME Init PROVE UsedCountExact
    OBVIOUS
  <2>1. \A g \in Segments : Bits(g) = {} /\ usedCount[g] = 0
    BY DEF Init, Bits
  <2>2. QED
    BY <2>1, FS_EmptySet DEF UsedCountExact, Bits
<1>2. QED
  BY <1>1, CountStep, Invariant, PTL DEF Spec

(* Every variable keeps its type, and usedCount stays within the capacity. *)
THEOREM TypeCorrect == Spec => []TypeOK
<1>1. IInv /\ UsedCountExact => TypeOK
  <2> SUFFICES ASSUME IInv, UsedCountExact PROVE TypeOK
    OBVIOUS
  <2>1. \A g \in Segments : usedCount[g] \in 0 .. Capacity
    BY BitsFinite DEF UsedCountExact, Bits
  <2>2. \A s \in Slots : refCounts[s] \in Nat
    BY HoldersFinite DEF IInv, RefCountExact
  <2>3. usedCount \in [Segments -> 0 .. Capacity] /\ refCounts \in [Slots -> Nat]
    BY <2>1, <2>2 DEF IInv, Types
  <2>4. QED
    BY <2>3 DEF IInv, Types, TypeOK
<1>2. QED
  BY <1>1, Invariant, UsedCountExactHolds, PTL

(* Reference counts, bitmap and usedCount agree, for any number of threads *)
(* and handles.                                                            *)
THEOREM SlotsAccountedHolds == Spec => []SlotsAccounted
<1>1. RefCountExact /\ BitmapMatchesUse /\ UsedCountExact => SlotsAccounted
  BY DEF SlotsAccounted
<1>2. QED
  BY <1>1, RefCountExactHolds, BitmapMatchesUseHolds, UsedCountExactHolds, PTL

-----------------------------------------------------------------------------
(* The size of the pool.                                                   *)

Scanning(t) == pc[t] = "scan"
BitsUpTo(g) == {s \in bitmap : s[1] <= g}

(* A scan keeps the bucket's lock.  The segments it has passed were full   *)
(* when it passed them, and with the slots that are still taken in those   *)
(* ahead of it they needed a handle each: all but the one it allocates     *)
(* for.  (Frees only make the sum smaller, and nobody else allocates.)     *)
ScanInv ==
    /\ \A t \in Threads : Scanning(t) => bucketLock = t
    /\ \A t \in Threads : Scanning(t) =>
           (segmentCount - current[t]) * Capacity + Cardinality(BitsUpTo(current[t]))
               <= Cardinality(Handles) - 1

LEMMA BitmapFinite ==
    ASSUME bitmap \subseteq Slots
    PROVE  /\ IsFiniteSet(bitmap)
           /\ \A g : IsFiniteSet(BitsUpTo(g)) /\ Cardinality(BitsUpTo(g)) \in Nat
<1>1. IsFiniteSet(Segments) /\ IsFiniteSet(1 .. Capacity)
  BY CapacityAssumption, FS_Interval DEF Segments
<1>2. IsFiniteSet(Slots)
  BY <1>1, FS_Product DEF Slots
<1>3. IsFiniteSet(bitmap)
  BY <1>2, FS_Subset
<1>4. ASSUME NEW g PROVE IsFiniteSet(BitsUpTo(g)) /\ Cardinality(BitsUpTo(g)) \in Nat
  <2>1. BitsUpTo(g) \in SUBSET bitmap
    BY DEF BitsUpTo
  <2>2. QED
    BY <1>3, <2>1, FS_Subset, FS_CardinalityType
<1>5. QED
  BY <1>3, <1>4

(* Every taken slot needs a handle of its own: one that refers to it, or   *)
(* the one that the thread which has it in its hands works for.  A thread  *)
(* that waits for the bucket has a handle no slot needs.                   *)
LEMMA SlotsNeedHandles ==
    ASSUME IInv, NEW t \in Threads, pc[t] = "lock"
    PROVE  Cardinality(bitmap) <= Cardinality(Handles) - 1
<1> DEFINE Others == Handles \ {dst[t]}
           Needs(s, h) == handle[h] = s \/ \E u \in Threads : InHand(u) /\ slot[u] = s /\ dst[u] = h
           f == [s \in bitmap |-> CHOOSE h \in Others : Needs(s, h)]
<1>1. dst[t] \in Handles /\ handle[dst[t]] = Null
  BY DEF IInv, OwnCalls
<1>2. \A u \in Threads : InHand(u) =>
          u # t /\ dst[u] \in Handles /\ handle[dst[u]] = Null /\ dst[u] # dst[t]
  BY DEF IInv, OwnCalls, InHand
<1>3. bitmap \subseteq Slots
  BY DEF IInv, Types
<1>4. \A s \in bitmap : \E h \in Others : Needs(s, h)
  <2> SUFFICES ASSUME NEW s \in bitmap PROVE \E h \in Others : Needs(s, h)
    OBVIOUS
  <2>1. s # Null
    BY <1>3, NullAssumption
  <2>2. Holders(s) # {} \/ \E u \in Threads : InHand(u) /\ slot[u] = s
    BY <1>3, UseFacts
  <2>3. CASE Holders(s) # {}
    <3>1. PICK h \in Handles : handle[h] = s
      BY <2>3 DEF Holders
    <3>2. QED
      BY <1>1, <2>1, <3>1
  <2>4. CASE \E u \in Threads : InHand(u) /\ slot[u] = s
    BY <1>2, <2>4
  <2>5. QED
    BY <2>2, <2>3, <2>4
<1>5. \A s \in bitmap : f[s] \in Others /\ Needs(s, f[s])
  BY <1>4
<1>6. ASSUME NEW r \in bitmap, NEW s \in bitmap, NEW h \in Others, Needs(r, h), Needs(s, h)
      PROVE  r = s
  <2>1. r # Null /\ s # Null
    BY <1>3, NullAssumption
  <2>2. CASE handle[h] = Null
    <3>1. PICK u \in Threads : InHand(u) /\ slot[u] = r /\ dst[u] = h
      BY <1>6, <2>1, <2>2
    <3>2. PICK v \in Threads : InHand(v) /\ slot[v] = s /\ dst[v] = h
      BY <1>6, <2>1, <2>2
    <3>3. u = v
      BY <3>1, <3>2 DEF IInv, OwnCalls, InHand
    <3>4. QED
      BY <3>1, <3>2, <3>3
  <2>3. CASE handle[h] # Null
    BY <1>2, <1>6, <2>3
  <2>4. QED
    BY <2>2, <2>3
<1>7. f \in [bitmap -> Others]
  BY <1>5
<1>8. \A r, s \in bitmap : f[r] = f[s] => r = s
  BY <1>5, <1>6
<1>9. f \in Injection(bitmap, Others)
  <2> HIDE DEF f, Others
  <2>1. QED
    BY <1>7, <1>8, Fun_IsInj
<1>10. IsFiniteSet(Others) /\ Cardinality(Others) = Cardinality(Handles) - 1
  BY <1>1, HandlesAssumption, FS_RemoveElement
<1>11. QED
  <2> HIDE DEF f, Others
  <2>1. Cardinality(bitmap) <= Cardinality(Others)
    BY <1>9, <1>10, FS_Injection
  <2>2. QED
    BY <1>10, <2>1

(* A segment that tryAcquireSlot() gives up on is full.                    *)
LEMMA PassedIsFull ==
    ASSUME IInv, UsedCountExact, NEW g \in Segments, ~HasFreeSlot(g)
    PROVE  Cardinality(BitsUpTo(g)) = Cardinality(BitsUpTo(g - 1)) + Capacity
<1>1. bitmap \subseteq Slots /\ g \in Nat /\ Capacity \in Nat
  BY CapacityAssumption DEF IInv, Types, Segments
<1>2. Cardinality(Bits(g)) = Capacity
  <2>1. CASE usedCount[g] < Capacity
    <3>1. Bits(g) = 1 .. Capacity
      BY <2>1 DEF HasFreeSlot, Bits
    <3>2. QED
      BY <3>1, <1>1, FS_Interval, CapacityAssumption
  <2>2. CASE ~(usedCount[g] < Capacity)
    <3>1. usedCount[g] = Cardinality(Bits(g)) /\ usedCount[g] \in Int
      BY DEF UsedCountExact, Bits, IInv, Types
    <3>2. QED
      BY <2>2, <3>1, <1>1, BitsFinite
  <2>3. QED
    BY <2>1, <2>2
<1> DEFINE Here == {g} \X Bits(g)
<1>3. IsFiniteSet(Here) /\ Cardinality(Here) = Capacity
  <2>1. IsFiniteSet({g}) /\ Cardinality({g}) = 1
    BY FS_Singleton
  <2>2. IsFiniteSet(Here) /\ Cardinality(Here) = 1 * Cardinality(Bits(g))
    BY <2>1, BitsFinite, FS_Product
  <2>3. QED
    BY <1>1, <1>2, <2>2
<1>4. BitsUpTo(g) = BitsUpTo(g - 1) \cup Here
  BY <1>1 DEF BitsUpTo, Bits, Slots, Segments
<1>5. BitsUpTo(g - 1) \cap Here = {}
  BY <1>1 DEF BitsUpTo
<1>6. IsFiniteSet(BitsUpTo(g - 1)) /\ Cardinality(BitsUpTo(g - 1)) \in Nat
  BY <1>1, BitmapFinite
<1> HIDE DEF Here
<1>7. Cardinality(BitsUpTo(g)) = Cardinality(BitsUpTo(g - 1)) + Cardinality(Here) - Cardinality({})
  BY <1>3, <1>4, <1>5, <1>6, FS_Union
<1>8. QED
  BY <1>1, <1>3, <1>6, <1>7, FS_EmptySet

(* A step that takes no slot, does not begin a scan and moves none.        *)
LEMMA ScanGoesOn ==
    ASSUME IInv, ScanInv, bitmap' \subseteq bitmap, UNCHANGED <<segmentCount, bucketLock, current>>,
           \A t \in Threads : Scanning(t)' => Scanning(t)
    PROVE  ScanInv'
<1> SUFFICES ASSUME NEW t \in Threads, Scanning(t)'
             PROVE  /\ bucketLock' = t
                    /\ (segmentCount' - current'[t]) * Capacity + Cardinality(BitsUpTo(current[t])')
                           <= Cardinality(Handles) - 1
  BY DEF ScanInv
<1>1. /\ bucketLock = t
      /\ (segmentCount - current[t]) * Capacity + Cardinality(BitsUpTo(current[t])) <= Cardinality(Handles) - 1
  BY DEF ScanInv
<1>2. BitsUpTo(current[t])' \subseteq BitsUpTo(current[t])
  BY DEF BitsUpTo
<1>3. IsFiniteSet(BitsUpTo(current[t])) /\ Cardinality(BitsUpTo(current[t])) \in Nat
  BY BitmapFinite DEF IInv, Types
<1>4. /\ Cardinality(BitsUpTo(current[t])') <= Cardinality(BitsUpTo(current[t]))
      /\ Cardinality(BitsUpTo(current[t])') \in Nat
  BY <1>2, <1>3, FS_Subset, FS_CardinalityType
<1>5. PICK p \in Int : p = (segmentCount - current[t]) * Capacity
  <2>1. segmentCount - current[t] \in Int /\ Capacity \in Int
    BY CapacityAssumption DEF IInv, Types
  <2>2. QED
    BY <2>1
<1>6. Cardinality(Handles) \in Nat
  BY HandlesAssumption, FS_CardinalityType
<1>7. /\ p + Cardinality(BitsUpTo(current[t])) <= Cardinality(Handles) - 1
      /\ (segmentCount' - current'[t]) * Capacity = p
  BY <1>1, <1>5
<1>8. p + Cardinality(BitsUpTo(current[t])') <= Cardinality(Handles) - 1
  BY <1>3, <1>4, <1>6, <1>7
<1>9. QED
  BY <1>1, <1>7, <1>8

LEMMA ScanBegins ==
    ASSUME IInv, ScanInv, NEW t \in Threads, LockBucket(t)
    PROVE  ScanInv'
<1>1. /\ pc[t] = "lock" /\ bucketLock' = t /\ current' = [current EXCEPT ![t] = segmentCount]
      /\ UNCHANGED <<segmentCount, bitmap>> /\ pc' = [pc EXCEPT ![t] = "scan"]
  BY DEF LockBucket, GoTo, segmentVars
<1>2. \A u \in Threads : ~Scanning(u)
  BY NobodyAssumption DEF LockBucket, ScanInv
<1>3. \A u \in Threads : Scanning(u)' => u = t
  BY <1>1, <1>2 DEF Scanning, IInv, Types
<1>4. current'[t] = segmentCount /\ segmentCount \in Nat
  BY <1>1, CapacityAssumption DEF IInv, Types
<1>5. Cardinality(BitsUpTo(segmentCount)) <= Cardinality(Handles) - 1
  <2>1. BitsUpTo(segmentCount) = bitmap
    BY DEF BitsUpTo, IInv, WithinSegments
  <2>2. QED
    BY <1>1, <2>1, SlotsNeedHandles
<1>6. BitsUpTo(current[t])' = BitsUpTo(segmentCount)
  BY <1>1, <1>4 DEF BitsUpTo
<1>7. Cardinality(BitsUpTo(segmentCount)) \in Nat
  BY BitmapFinite DEF IInv, Types
<1>8. (segmentCount' - current'[t]) * Capacity = 0
  BY <1>1, <1>4, CapacityAssumption
<1>9. (segmentCount' - current'[t]) * Capacity + Cardinality(BitsUpTo(current[t])')
          <= Cardinality(Handles) - 1
  BY <1>5, <1>6, <1>7, <1>8
<1>10. QED
  BY <1>1, <1>3, <1>9 DEF ScanInv

LEMMA ScanMoves ==
    ASSUME IInv, UsedCountExact, ScanInv, NEW t \in Threads, SkipSegment(t)
    PROVE  ScanInv'
<1>1. PICK g \in Segments : g = current[t] /\ ~HasFreeSlot(g)
  BY CapacityAssumption DEF SkipSegment, IInv, Types, Segments
<1>2. current' = [current EXCEPT ![t] = g - 1] /\ UNCHANGED <<segmentCount, bitmap, pc, bucketLock>>
  BY <1>1 DEF SkipSegment, NextSegment, segmentVars
<1>3. Scanning(t) /\ bucketLock = t /\ \A u \in Threads : Scanning(u) => u = t
  BY DEF SkipSegment, Scanning, ScanInv
<1>4. /\ g \in Nat /\ Capacity \in Nat /\ segmentCount \in Nat
      /\ Cardinality(BitsUpTo(g)) \in Nat /\ Cardinality(BitsUpTo(g - 1)) \in Nat
  BY CapacityAssumption, BitmapFinite DEF IInv, Types, Segments
<1>5. (segmentCount - g) * Capacity + Cardinality(BitsUpTo(g)) <= Cardinality(Handles) - 1
  BY <1>1, <1>3 DEF ScanInv
<1>6. Cardinality(BitsUpTo(g)) = Cardinality(BitsUpTo(g - 1)) + Capacity
  BY <1>1, PassedIsFull
<1>7. (segmentCount - (g - 1)) * Capacity = (segmentCount - g) * Capacity + Capacity
  BY <1>4
<1>8. (segmentCount - (g - 1)) * Capacity + Cardinality(BitsUpTo(g - 1)) <= Cardinality(Handles) - 1
  <2>1. PICK p \in Int : p = (segmentCount - g) * Capacity
    <3>1. segmentCount - g \in Int
      BY <1>4
    <3>2. QED
      BY <1>4, <3>1
  <2>2. Cardinality(Handles) \in Nat
    BY HandlesAssumption, FS_CardinalityType
  <2>3. p + Cardinality(BitsUpTo(g)) <= Cardinality(Handles) - 1
    BY <1>5, <2>1
  <2>4. p + Capacity + Cardinality(BitsUpTo(g - 1)) <= Cardinality(Handles) - 1
    BY <1>4, <1>6, <2>2, <2>3
  <2>5. QED
    BY <1>7, <2>1, <2>4
<1>9. current'[t] = g - 1 /\ BitsUpTo(g - 1)' = BitsUpTo(g - 1)
  BY <1>2 DEF IInv, Types, BitsUpTo
<1>10. Cardinality(BitsUpTo(current[t])') = Cardinality(BitsUpTo(g - 1))
  BY <1>2, <1>9 DEF BitsUpTo
<1>11. (segmentCount' - current'[t]) * Capacity + Cardinality(BitsUpTo(current[t])')
           <= Cardinality(Handles) - 1
  BY <1>2, <1>8, <1>9, <1>10
<1>12. QED
  BY <1>2, <1>3, <1>11 DEF ScanInv, Scanning

(* A scan that ends leaves nobody scanning.                                *)
LEMMA ScanEnds ==
    ASSUME IInv, ScanInv, NEW t \in Threads, AcquireSlot(t) \/ Grow(t)
    PROVE  ScanInv'
<1>1. Scanning(t) /\ \A u \in Threads : Scanning(u) => u = t
  BY DEF AcquireSlot, Grow, Scanning, ScanInv
<1>2. \A u \in Threads : ~Scanning(u)'
  BY <1>1 DEF AcquireSlot, Grow, GoTo, Scanning, IInv, Types
<1>3. QED
  BY <1>2 DEF ScanInv

LEMMA ScanStep == IInv /\ UsedCountExact /\ ScanInv /\ [Next]_vars => ScanInv'
<1> SUFFICES ASSUME IInv, UsedCountExact, ScanInv, [Next]_vars PROVE ScanInv'
  OBVIOUS
<1>1. ASSUME NEW t \in Threads, NEW h \in Handles, NEW l \in {"lock", "free", "assign"}, Begin(t, h, l),
             UNCHANGED <<bitmap, segmentCount, bucketLock, current>>
      PROVE  ScanInv'
  <2>1. \A u \in Threads : Scanning(u)' => Scanning(u)
    BY <1>1 DEF Begin, GoTo, Scanning, IInv, Types
  <2>2. QED
    BY <1>1, <2>1, ScanGoesOn
<1>2. ASSUME NEW t \in Threads, NEW l \in {"idle", "assign"}, GoTo(t, l), bitmap' \subseteq bitmap,
             UNCHANGED <<segmentCount, bucketLock, current>>
      PROVE  ScanInv'
  <2>1. \A u \in Threads : Scanning(u)' => Scanning(u)
    BY <1>2 DEF GoTo, Scanning, IInv, Types
  <2>2. QED
    BY <1>2, <2>1, ScanGoesOn
<1>3. ASSUME UNCHANGED <<bitmap, pc, segmentCount, bucketLock, current>> PROVE ScanInv'
  BY <1>3, ScanGoesOn DEF Scanning
<1>4. ASSUME NEW t \in Threads, NEW h \in Handles, Allocate(t, h) \/ Destroy(t, h) PROVE ScanInv'
  <2>1. CASE Allocate(t, h)
    BY <1>1, <2>1 DEF Allocate, segmentVars
  <2>2. CASE Destroy(t, h)
    <3>1. PICK l \in {"free", "assign"} : Begin(t, h, l)
      BY <2>2 DEF Destroy, TakeOff
    <3>2. QED
      BY <1>1, <2>2, <3>1 DEF Destroy, TakeOff
  <2>3. QED
    BY <1>4, <2>1, <2>2
<1>5. ASSUME NEW t \in Threads, NEW h \in Handles, NEW k \in Handles, NEW isMove \in BOOLEAN,
             Assign(t, h, k, isMove)
      PROVE  ScanInv'
  <2>1. PICK l \in {"free", "assign"} : Begin(t, k, l)
    BY <1>5 DEF Assign, TakeOff
  <2>2. QED
    BY <1>1, <1>5, <2>1 DEF Assign, TakeOff
<1>6. ASSUME NEW t \in Threads, NEW h \in Handles, NEW k \in Handles,
             CopyConstruct(t, h, k) \/ MoveConstruct(t, h, k)
      PROVE  ScanInv'
  BY <1>3, <1>6 DEF CopyConstruct, MoveConstruct, segmentVars
<1>7. ASSUME NEW t \in Threads, Construct(t) \/ EndRelease(t) \/ EndCopyAssign(t) \/ EndMoveAssign(t)
      PROVE  ScanInv'
  BY <1>2, <1>7 DEF Construct, EndRelease, EndCopyAssign, EndMoveAssign, Finish, segmentVars
<1>8. ASSUME NEW t \in Threads, ReleaseSlot(t) PROVE ScanInv'
  BY <1>2, <1>8 DEF ReleaseSlot, MarkFree
<1>9. ASSUME Clear PROVE ScanInv'
  BY <1>9 DEF Clear, ScanInv, Scanning
<1>10. CASE UNCHANGED vars
  BY <1>3, <1>10 DEF vars, segmentVars
<1>11. QED
  BY <1>4, <1>5, <1>6, <1>7, <1>8, <1>9, <1>10, ScanBegins, ScanMoves, ScanEnds DEF Next

LEMMA GrowthStep == IInv /\ ScanInv /\ GrowsForNeedOnly /\ [Next]_vars => GrowsForNeedOnly'
<1> SUFFICES ASSUME IInv, ScanInv, GrowsForNeedOnly, [Next]_vars PROVE GrowsForNeedOnly'
  OBVIOUS
<1>1. Cardinality(Handles) \in Nat /\ Capacity \in Nat \ {0} /\ segmentCount \in Nat
  BY CapacityAssumption, HandlesAssumption, FS_CardinalityType DEF IInv, Types
<1>2. ASSUME NEW t \in Threads, Grow(t) PROVE GrowsForNeedOnly'
  <2>1. current[t] = 0 /\ Scanning(t) /\ segmentCount' = segmentCount + 1
    BY <1>2 DEF Grow, Scanning
  <2>2. Cardinality(BitsUpTo(0)) \in Nat
    BY BitmapFinite DEF IInv, Types
  <2>3. segmentCount * Capacity + Cardinality(BitsUpTo(0)) <= Cardinality(Handles) - 1
    BY <1>1, <2>1 DEF ScanInv
  <2>4. (segmentCount + 1) * Capacity = segmentCount * Capacity + Capacity
    BY <1>1
  <2>5. PICK p \in Int : p = segmentCount * Capacity
    BY <1>1
  <2>6. p + Capacity <= Cardinality(Handles) - 1 + Capacity
    BY <1>1, <2>2, <2>3, <2>5
  <2>7. QED
    BY <2>1, <2>4, <2>5, <2>6 DEF GrowsForNeedOnly
<1>3. ASSUME Clear PROVE GrowsForNeedOnly'
  BY <1>1, <1>3 DEF Clear, GrowsForNeedOnly
<1>4. ASSUME UNCHANGED segmentCount PROVE GrowsForNeedOnly'
  BY <1>4 DEF GrowsForNeedOnly
<1>5. CASE UNCHANGED vars
  BY <1>4, <1>5 DEF vars
<1>6. CASE Next
  <2>1. ASSUME NEW t \in Threads, NEW h \in Handles, NEW k \in Handles, NEW isMove \in BOOLEAN,
               \/ Allocate(t, h) \/ Destroy(t, h) \/ CopyConstruct(t, h, k) \/ MoveConstruct(t, h, k)
               \/ Assign(t, h, k, isMove)
        PROVE  UNCHANGED segmentCount
    BY <2>1 DEF Allocate, Destroy, CopyConstruct, MoveConstruct, Assign, TakeOff
  <2>2. ASSUME NEW t \in Threads,
               \/ LockBucket(t) \/ AcquireSlot(t) \/ SkipSegment(t) \/ Construct(t) \/ ReleaseSlot(t)
               \/ EndRelease(t) \/ EndCopyAssign(t) \/ EndMoveAssign(t)
        PROVE  UNCHANGED segmentCount
    BY <2>2 DEF LockBucket, AcquireSlot, SkipSegment, Construct, ReleaseSlot, EndRelease, EndCopyAssign,
       EndMoveAssign
  <2>3. QED
    BY <1>2, <1>3, <1>4, <1>6, <2>1, <2>2 DEF Next
<1>7. QED
  BY <1>5, <1>6

(* The pool grows only when every slot it has was needed at once, by the   *)
(* handles and the allocation that grows it: frees that race with the scan *)
(* never make it larger, for any number of threads, handles and slots.     *)
THEOREM GrowsForNeedOnlyHolds == Spec => []GrowsForNeedOnly
<1>1. Init => ScanInv /\ GrowsForNeedOnly
  <2> SUFFICES ASSUME Init PROVE ScanInv /\ GrowsForNeedOnly
    OBVIOUS
  <2>1. ScanInv
    BY DEF Init, ScanInv, Scanning
  <2>2. Cardinality(Handles) \in Nat /\ Capacity \in Nat \ {0} /\ segmentCount = 0
    BY CapacityAssumption, HandlesAssumption, FS_CardinalityType DEF Init
  <2>3. QED
    BY <2>1, <2>2 DEF GrowsForNeedOnly
<1>2. QED
  BY <1>1, ScanStep, GrowthStep, Invariant, UsedCountExactHolds, PTL DEF Spec
=============================================================================
