------------------------- MODULE RWRingQueueProofs -------------------------
(***************************************************************************)
(* Proofs about RWRingQueue, for every capacity, every block size and      *)
(* whatever the memory of a block reads as before it is written.           *)
(***************************************************************************)
EXTENDS RWRingQueue, FiniteSetTheorems, SequenceTheorems, TLAPS

Objs == Values \cup {NoObject}

Types ==
    /\ capacity \in Nat \ {0}
    /\ buffer \in [Slots(capacity) -> [occupied : BOOLEAN, object : Objs]]
    /\ initialised \in Nat
    /\ head \in Slots(capacity) /\ tail \in Slots(capacity)
    /\ size \in 0 .. capacity
    /\ overwriteWhenFull \in BOOLEAN /\ autoExpand \in BOOLEAN

IInv == Types /\ SlotsMatch

-----------------------------------------------------------------------------
(* Arithmetic of the ring: the slot i places after h, of n, and how many   *)
(* places slot j comes after h.                                            *)
Wrap(n, k) == IF k < n THEN k ELSE k - n
Offset(n, h, j) == IF j >= h THEN j - h ELSE j - h + n

LEMMA WrapIsMod ==
    ASSUME NEW n \in Nat \ {0}, NEW k \in 0 .. (2 * n - 1)
    PROVE  k % n = Wrap(n, k) /\ Wrap(n, k) \in Slots(n)
BY DEF Wrap, Slots

LEMMA OffsetInverse ==
    ASSUME NEW n \in Nat \ {0}, NEW h \in Slots(n)
    PROVE  /\ \A i \in Slots(n) : Wrap(n, h + i) \in Slots(n) /\ Offset(n, h, Wrap(n, h + i)) = i
           /\ \A j \in Slots(n) : Offset(n, h, j) \in Slots(n) /\ Wrap(n, h + Offset(n, h, j)) = j
BY DEF Wrap, Offset, Slots

LEMMA CardinalityOfSlots ==
    ASSUME NEW n \in Nat PROVE Cardinality(Slots(n)) = n
<1>1. Cardinality(0 .. (n - 1)) = n
  BY FS_Interval
<1>2. QED
  BY <1>1 DEF Slots

LEMMA AtIsWrap ==
    ASSUME NEW i \in 0 .. capacity, capacity \in Nat \ {0}, head \in Slots(capacity)
    PROVE  At(i) = Wrap(capacity, head + i) /\ At(i) \in Slots(capacity)
<1>1. head + i \in 0 .. (2 * capacity - 1)
  BY DEF Slots
<1>2. QED
  BY <1>1, WrapIsMod DEF At

(* The count slots from the head on.                                       *)
LEMMA OldestIs ==
    ASSUME NEW count \in 0 .. capacity, capacity \in Nat \ {0}, head \in Slots(capacity)
    PROVE  /\ Oldest(count) = {j \in Slots(capacity) : Offset(capacity, head, j) < count}
<1> DEFINE Near == {j \in Slots(capacity) : Offset(capacity, head, j) < count}
<1>1. ASSUME NEW i \in Slots(count) PROVE At(i) \in Near
  <2>1. i \in Slots(capacity)
    BY DEF Slots
  <2>2. At(i) = Wrap(capacity, head + i)
    BY <2>1, AtIsWrap DEF Slots
  <2>3. At(i) \in Slots(capacity) /\ Offset(capacity, head, At(i)) = i
    BY <2>1, <2>2, OffsetInverse
  <2>4. QED
    BY <2>3 DEF Slots
<1>2. ASSUME NEW j \in Near PROVE \E i \in Slots(count) : At(i) = j
  <2>1. Offset(capacity, head, j) \in Slots(count)
    BY OffsetInverse DEF Slots
  <2>2. At(Offset(capacity, head, j)) = j
    BY <2>1, AtIsWrap, OffsetInverse DEF Slots
  <2>3. QED
    BY <2>1, <2>2
<1>3. QED
  BY <1>1, <1>2 DEF Oldest

(* SlotsMatch, with the slots told by their distance from the head.        *)
RingMatches ==
    /\ tail = Wrap(capacity, head + size)
    /\ \A i \in Slots(capacity) :
           /\ Offset(capacity, head, i) < size <=> buffer[i].object # NoObject
           /\ buffer[i].object # NoObject => buffer[i].occupied
           /\ i < initialised /\ buffer[i].occupied => buffer[i].object # NoObject

LEMMA SlotsMatchIs == Types => (SlotsMatch <=> RingMatches)
<1> SUFFICES ASSUME Types PROVE SlotsMatch <=> RingMatches
  OBVIOUS
<1>1. At(size) = Wrap(capacity, head + size)
  BY AtIsWrap DEF Types
<1>2. \A i \in Slots(capacity) : i \in Oldest(size) <=> Offset(capacity, head, i) < size
  BY OldestIs DEF Types
<1>3. DOMAIN buffer = Slots(capacity)
  BY DEF Types
<1>4. QED
  BY <1>1, <1>2, <1>3 DEF SlotsMatch, RingMatches

LEMMA SlotsMatchNext == Types' => (SlotsMatch' <=> RingMatches')
BY SlotsMatchIs, PTL

LEMMA DivisionIsEnough ==
    ASSUME NEW n \in Nat, NEW s \in Nat \ {0}, NEW b \in Nat, b >= n * s
    PROVE  b \div s \in Nat /\ b \div s >= n
OBVIOUS

(* A buffer for n slots has them blank, and no value in the others.        *)
LEMMA NewBufferHas ==
    ASSUME NEW n \in Nat, NEW b \in NewBuffers(n)
    PROVE  \E m \in Nat :
               /\ m >= n /\ DOMAIN b = Slots(m) /\ Cardinality(DOMAIN b) = m
               /\ b \in [Slots(m) -> [occupied : BOOLEAN, object : {NoObject}]]
               /\ \A i \in Slots(n) : ~b[i].occupied
<1> DEFINE Flagged == {Slot(flag, NoObject) : flag \in GarbageFlags \cup {FALSE}}
<1>1. PICK slots \in Granted(n) : b \in [slots -> Flagged] /\ \A i \in Slots(n) : b[i] = BlankSlot
  BY DEF NewBuffers
<1>2. PICK bytes \in FirstDoubling(MinBlock, n * SlotBytes) : slots = Slots(bytes \div SlotBytes)
  BY <1>1 DEF Granted
<1>3. n * SlotBytes \in Nat /\ bytes \in Nat /\ bytes >= n * SlotBytes /\ SlotBytes \in Nat \ {0}
  BY RingAssumption DEF FirstDoubling, Doublings
<1>4. PICK m \in Nat : m = bytes \div SlotBytes /\ m >= n
  BY <1>3, DivisionIsEnough
<1>5. Flagged \subseteq [occupied : BOOLEAN, object : {NoObject}]
  <2> SUFFICES ASSUME NEW flag \in GarbageFlags \cup {FALSE}
               PROVE  Slot(flag, NoObject) \in [occupied : BOOLEAN, object : {NoObject}]
    OBVIOUS
  <2>1. flag \in BOOLEAN
    BY RingAssumption
  <2>2. QED
    BY <2>1 DEF Slot
<1>6. DOMAIN b = Slots(m) /\ b \in [Slots(m) -> [occupied : BOOLEAN, object : {NoObject}]]
  BY <1>1, <1>2, <1>4, <1>5
<1>7. \A i \in Slots(n) : ~b[i].occupied
  BY <1>1 DEF BlankSlot, Slot
<1>8. QED
  BY <1>4, <1>6, <1>7, CardinalityOfSlots

LEMMA InvInit == Init => IInv
<1> SUFFICES ASSUME Init PROVE IInv
  OBVIOUS
<1>1. PICK n \in Capacities \ {0} : buffer \in NewBuffers(n) /\ initialised = n
  BY DEF Init
<1>2. n \in Nat \ {0}
  BY RingAssumption
<1>3. PICK m \in Nat :
          /\ m >= n /\ DOMAIN buffer = Slots(m) /\ Cardinality(DOMAIN buffer) = m
          /\ buffer \in [Slots(m) -> [occupied : BOOLEAN, object : {NoObject}]]
          /\ \A i \in Slots(n) : ~buffer[i].occupied
  BY <1>1, <1>2, NewBufferHas
<1>4. capacity = m /\ m > 0
  BY <1>2, <1>3 DEF capacity
<1>5. Types
  BY <1>1, <1>2, <1>3, <1>4 DEF Init, Types, Slots, Objs
<1>6. SlotsMatch
  <2>1. Wrap(capacity, head + size) = tail
    BY <1>4 DEF Init, Wrap
  <2>2. \A i \in Slots(capacity) : ~(Offset(capacity, head, i) < size) /\ buffer[i].object = NoObject
    BY <1>3, <1>4 DEF Init, Offset, Slots
  <2>3. \A i \in Slots(capacity) : i < initialised => ~buffer[i].occupied
    BY <1>1, <1>2, <1>3, <1>4 DEF Slots
  <2>4. QED
    BY <1>5, <2>1, <2>2, <2>3, SlotsMatchIs DEF RingMatches
<1>7. QED
  BY <1>5, <1>6 DEF IInv

-----------------------------------------------------------------------------
(* The steps.                                                              *)

(* What the queue holds.                                                   *)
LEMMA ObjectsAre ==
    ASSUME IInv, NEW count \in 0 .. size
    PROVE  /\ Objects(count) \in Seq(Values) /\ Len(Objects(count)) = count
           /\ \A i \in 1 .. count : Objects(count)[i] = buffer[Wrap(capacity, head + (i - 1))].object
<1>1. \A i \in 1 .. count :
          At(i - 1) = Wrap(capacity, head + (i - 1)) /\ buffer[At(i - 1)].object \in Values
  <2> SUFFICES ASSUME NEW i \in 1 .. count
               PROVE  /\ At(i - 1) = Wrap(capacity, head + (i - 1))
                      /\ buffer[At(i - 1)].object \in Values
    OBVIOUS
  <2>1. i - 1 \in Slots(capacity) /\ i - 1 \in 0 .. capacity
    BY DEF IInv, Types, Slots
  <2>2. At(i - 1) = Wrap(capacity, head + (i - 1)) /\ At(i - 1) \in Slots(capacity)
    BY <2>1, AtIsWrap DEF IInv, Types
  <2>3. Offset(capacity, head, At(i - 1)) = i - 1
    BY <2>1, <2>2, OffsetInverse DEF IInv, Types
  <2>4. Offset(capacity, head, At(i - 1)) < size
    BY <2>3 DEF IInv, Types
  <2>5. buffer[At(i - 1)].object # NoObject
    BY <2>2, <2>4, SlotsMatchIs DEF IInv, RingMatches
  <2>6. QED
    BY <2>2, <2>5 DEF IInv, Types, Objs
<1>2. count \in Nat
  BY DEF IInv, Types
<1>3. Objects(count) \in Seq(Values) /\ Len(Objects(count)) = count
  BY <1>1, <1>2 DEF Objects
<1>4. QED
  BY <1>1, <1>3 DEF Objects

(* The buffer of m slots of a ring that has moved to slots for n: its      *)
(* elements from slot 0 on.                                                *)
MovedInto(b, n, m) ==
    /\ m >= n /\ DOMAIN b = Slots(m) /\ Cardinality(DOMAIN b) = m
    /\ b \in [Slots(m) -> [occupied : BOOLEAN, object : Objs]]
    /\ \A i \in Slots(size) : b[i] = Slot(TRUE, Objects(size)[i + 1])
    /\ \A i \in Slots(size) : b[i].occupied /\ b[i].object # NoObject
    /\ \A i \in Slots(m) \ Slots(size) : b[i].object = NoObject /\ (i < n => ~b[i].occupied)

LEMMA GrownHas ==
    ASSUME IInv, NEW n \in Nat, size <= n, NEW b \in Grown(n)
    PROVE  \E m \in Nat : MovedInto(b, n, m)
<1>1. PICK c \in NewBuffers(n) :
          b = [i \in DOMAIN c |-> IF i < size THEN Slot(TRUE, Objects(size)[i + 1]) ELSE c[i]]
  BY DEF Grown, MovedObjects
<1>2. PICK m \in Nat :
          /\ m >= n /\ DOMAIN c = Slots(m) /\ Cardinality(DOMAIN c) = m
          /\ c \in [Slots(m) -> [occupied : BOOLEAN, object : {NoObject}]]
          /\ \A i \in Slots(n) : ~c[i].occupied
  BY NewBufferHas
<1>3. size \in Nat
  BY DEF IInv, Types
<1>4. \A i \in Slots(size) : Objects(size)[i + 1] \in Values
  BY <1>3, ObjectsAre, ElementOfSeq DEF Slots
<1>5. \A i \in Slots(size) : Slot(TRUE, Objects(size)[i + 1]) \in [occupied : BOOLEAN, object : Objs]
  BY <1>4 DEF Slot, Objs
<1>6. DOMAIN b = Slots(m) /\ Slots(size) \subseteq Slots(m)
  BY <1>1, <1>2, <1>3 DEF Slots
<1>7. \A i \in Slots(m) : i < size <=> i \in Slots(size)
  BY <1>2, <1>3 DEF Slots
<1>8. /\ \A i \in Slots(size) : b[i] = Slot(TRUE, Objects(size)[i + 1])
      /\ \A i \in Slots(m) \ Slots(size) : b[i] = c[i]
  BY <1>1, <1>2, <1>6, <1>7
<1>9. \A i \in Slots(m) : c[i] \in [occupied : BOOLEAN, object : Objs] /\ c[i].object = NoObject
  BY <1>2 DEF Objs
<1>10. \A i \in Slots(m) : b[i] \in [occupied : BOOLEAN, object : Objs]
  BY <1>5, <1>8, <1>9
<1>11. b \in [Slots(m) -> [occupied : BOOLEAN, object : Objs]]
  BY <1>1, <1>2, <1>10
<1>12. \A i \in Slots(m) : i < n => i \in Slots(n)
  BY <1>2 DEF Slots
<1>13. \A i \in Slots(m) \ Slots(size) : b[i].object = NoObject /\ (i < n => ~b[i].occupied)
  BY <1>2, <1>8, <1>9, <1>12
<1>14. \A i \in Slots(size) : b[i].occupied /\ b[i].object # NoObject
  <2> SUFFICES ASSUME NEW i \in Slots(size) PROVE b[i].occupied /\ b[i].object # NoObject
    OBVIOUS
  <2>1. Objects(size)[i + 1] # NoObject
    BY <1>4, RingAssumption
  <2>2. b[i].occupied /\ b[i].object = Objects(size)[i + 1]
    <3>1. b[i] = [occupied |-> TRUE, object |-> Objects(size)[i + 1]]
      BY <1>8 DEF Slot
    <3>2. QED
      BY <3>1
  <2>3. QED
    BY <2>1, <2>2
<1>15. QED
  BY <1>2, <1>6, <1>8, <1>11, <1>13, <1>14 DEF MovedInto

LEMMA DoubledIsEnough ==
    ASSUME capacity \in Nat, NEW n \in Int, NEW m \in FirstDoubling(capacity, n)
    PROVE  m \in Nat /\ m >= n /\ m >= capacity
BY RingAssumption DEF FirstDoubling, Doublings

LEMMA SameDomain == DOMAIN buffer' = DOMAIN buffer => capacity' = capacity
BY DEF capacity

LEMMA PushInRoomKeeps ==
    ASSUME IInv, NEW v \in Values, PushInRoom(v) PROVE IInv'
<1>1. /\ size < capacity /\ size' = size + 1 /\ head' = head /\ initialised' = initialised
      /\ tail' = nextIndex(tail) /\ buffer' = [buffer EXCEPT ![tail] = Slot(TRUE, v)]
  BY DEF PushInRoom, Full, IInv, Types
<1>2. capacity' = capacity
  BY <1>1, SameDomain
<1>3. RingMatches
  BY SlotsMatchIs DEF IInv
<1>4. tail' = Wrap(capacity, tail + 1) /\ tail' \in Slots(capacity)
  <2>1. tail + 1 \in 0 .. (2 * capacity - 1) /\ capacity \in Nat \ {0}
    BY DEF IInv, Types, Slots
  <2>2. QED
    BY <1>1, <2>1, WrapIsMod DEF nextIndex
<1>5. v \in Objs /\ v # NoObject
  BY RingAssumption DEF Objs
<1>6. Slot(TRUE, v) \in [occupied : BOOLEAN, object : Objs]
  BY <1>5 DEF Slot
<1>7. Types'
  <2>1. buffer' \in [Slots(capacity) -> [occupied : BOOLEAN, object : Objs]]
    BY <1>1, <1>6 DEF IInv, Types
  <2>2. size' \in 0 .. capacity
    BY <1>1 DEF IInv, Types
  <2>3. QED
    BY <1>1, <1>2, <1>4, <2>1, <2>2 DEF IInv, Types, PushInRoom
<1>8. RingMatches'
  <2>1. tail = Wrap(capacity, head + size)
    BY <1>3 DEF RingMatches
  <2>2. tail' = Wrap(capacity, head + size')
    BY <1>1, <1>4, <2>1 DEF Wrap, Slots, IInv, Types
  <2>3. Offset(capacity, head, tail) = size
    BY <1>1, <2>1 DEF Wrap, Offset, Slots, IInv, Types
  <2>4. ASSUME NEW i \in Slots(capacity)
        PROVE  /\ Offset(capacity, head, i) < size' <=> buffer'[i].object # NoObject
               /\ buffer'[i].object # NoObject => buffer'[i].occupied
               /\ i < initialised /\ buffer'[i].occupied => buffer'[i].object # NoObject
    <3>1. CASE i = tail
      <4>1. buffer'[i].occupied /\ buffer'[i].object = v
        BY <1>1, <3>1 DEF IInv, Types, Slot
      <4>2. Offset(capacity, head, i) < size'
        BY <1>1, <2>3, <3>1 DEF IInv, Types
      <4>3. QED
        BY <1>5, <4>1, <4>2
    <3>2. CASE i # tail
      <4>1. buffer'[i] = buffer[i]
        BY <1>1, <3>2 DEF IInv, Types
      <4>2. Offset(capacity, head, i) # size
        BY <2>1, <3>2, OffsetInverse DEF IInv, Types
      <4>3. Offset(capacity, head, i) < size' <=> Offset(capacity, head, i) < size
        <5>1. Offset(capacity, head, i) \in Int
          BY OffsetInverse DEF IInv, Types, Slots
        <5>2. QED
          BY <1>1, <4>2, <5>1 DEF IInv, Types
      <4>4. QED
        BY <1>3, <4>1, <4>3 DEF RingMatches
    <3>3. QED
      BY <3>1, <3>2
  <2>5. QED
    BY <1>1, <1>2, <2>2, <2>4 DEF RingMatches
<1>9. QED
  BY <1>7, <1>8, SlotsMatchNext DEF IInv

(* A ring that has moved to slots for n matches, with its tail behind the  *)
(* elements.                                                               *)
LEMMA MovedMatches ==
    ASSUME IInv, NEW n \in Nat, size <= n, n > 0, NEW b \in Grown(n),
           buffer' = b, initialised' = n, head' = 0, size' = size,
           tail' = size % Cardinality(DOMAIN b),
           UNCHANGED <<overwriteWhenFull, autoExpand>>
    PROVE  IInv'
<1> PICK m \in Nat : MovedInto(b, n, m)
  BY GrownHas
<1>1. /\ m >= n /\ DOMAIN b = Slots(m) /\ Cardinality(DOMAIN b) = m
      /\ b \in [Slots(m) -> [occupied : BOOLEAN, object : Objs]]
      /\ \A i \in Slots(size) : b[i].occupied /\ b[i].object # NoObject
      /\ \A i \in Slots(m) \ Slots(size) : b[i].object = NoObject /\ (i < n => ~b[i].occupied)
  BY DEF MovedInto
<1>2. capacity' = m /\ m > 0 /\ size \in 0 .. m
  BY <1>1 DEF capacity, IInv, Types
<1>3. tail' = Wrap(m, size) /\ tail' \in Slots(m)
  BY <1>1, <1>2, WrapIsMod
<1>4. Types'
  BY <1>1, <1>2, <1>3 DEF IInv, Types, Slots
<1>5. \A i \in Slots(m) : Offset(m, 0, i) = i /\ (i \in Slots(size) <=> i < size)
  BY <1>2 DEF Offset, Slots
<1>6. RingMatches'
  <2>1. tail' = Wrap(m, head' + size')
    BY <1>2, <1>3
  <2>2. ASSUME NEW i \in Slots(m)
        PROVE  /\ Offset(m, 0, i) < size <=> b[i].object # NoObject
               /\ b[i].object # NoObject => b[i].occupied
               /\ i < n /\ b[i].occupied => b[i].object # NoObject
    BY <1>1, <1>5
  <2>3. QED
    BY <1>2, <2>1, <2>2 DEF RingMatches
<1>7. QED
  BY <1>4, <1>6, SlotsMatchNext DEF IInv

LEMMA ReserveKeeps ==
    ASSUME IInv, NEW n \in Capacities, Reserve(n) PROVE IInv'
<1>1. CASE UNCHANGED <<buffer, initialised, head, tail, size, overwriteWhenFull, autoExpand>>
  <2>1. capacity' = capacity
    BY <1>1, SameDomain
  <2>2. QED
    BY <1>1, <2>1 DEF IInv, Types, SlotsMatch, Oldest, At
<1>2. ASSUME capacity < n, NEW m \in FirstDoubling(capacity, n), Grow(m), buffer' \in Grown(m), tail' = size,
             UNCHANGED <<size, overwriteWhenFull, autoExpand>>
      PROVE  IInv'
  <2>1. n \in Int
    BY RingAssumption
  <2>2. m \in Nat /\ m > 0 /\ m > size
    BY <1>2, <2>1, DoubledIsEnough DEF IInv, Types
  <2>3. PICK b \in Grown(m) : buffer' = b
    BY <1>2
  <2>4. size <= m
    BY <2>2 DEF IInv, Types
  <2>5. PICK p \in Nat : p >= m /\ Cardinality(DOMAIN b) = p
    <3>1. PICK p \in Nat : MovedInto(b, m, p)
      BY <2>2, <2>4, GrownHas
    <3>2. QED
      BY <3>1 DEF MovedInto
  <2>6. size = size % p
    BY <2>2, <2>5 DEF IInv, Types
  <2>7. initialised' = m /\ head' = 0 /\ size' = size /\ tail' = size % Cardinality(DOMAIN b)
    BY <1>2, <2>5, <2>6 DEF Grow
  <2>8. QED
    BY <1>2, <2>2, <2>3, <2>4, <2>7, MovedMatches
<1>3. QED
  BY <1>1, <1>2 DEF Reserve

(* After the move the value goes into slot size, and one is not free.      *)
LEMMA PushAndGrowKeeps ==
    ASSUME IInv, NEW v \in Values, PushAndGrow(v) PROVE IInv'
<1>1. PICK n \in FirstDoubling(capacity, capacity + 1) : 
          /\ Grow(n)
          /\ \E b \in Grown(n) :
                 /\ buffer' = [b EXCEPT ![size] = Slot(TRUE, v)]
                 /\ tail' = (size + 1) % Cardinality(DOMAIN b)
  BY DEF PushAndGrow
<1>2. n \in Nat /\ n > size /\ n > 0 /\ size <= n
  BY DoubledIsEnough DEF IInv, Types
<1>3. PICK b \in Grown(n) :
          /\ buffer' = [b EXCEPT ![size] = Slot(TRUE, v)]
          /\ tail' = (size + 1) % Cardinality(DOMAIN b)
  BY <1>1
<1> PICK m \in Nat : MovedInto(b, n, m)
  BY <1>2, GrownHas
<1>4. /\ m >= n /\ DOMAIN b = Slots(m) /\ Cardinality(DOMAIN b) = m
      /\ b \in [Slots(m) -> [occupied : BOOLEAN, object : Objs]]
      /\ \A i \in Slots(size) : b[i].occupied /\ b[i].object # NoObject
      /\ \A i \in Slots(m) \ Slots(size) : b[i].object = NoObject /\ (i < n => ~b[i].occupied)
  BY DEF MovedInto
<1>5. v \in Objs /\ v # NoObject /\ Slot(TRUE, v) \in [occupied : BOOLEAN, object : Objs]
  BY RingAssumption DEF Objs, Slot
<1>6. capacity' = m /\ m > size /\ size \in Nat /\ head' = 0 /\ initialised' = n /\ size' = size + 1
  BY <1>1, <1>2, <1>3, <1>4 DEF capacity, Grow, PushAndGrow, IInv, Types
<1>7. buffer' \in [Slots(m) -> [occupied : BOOLEAN, object : Objs]] /\ size \in Slots(m)
  <2>1. size \in Slots(m)
    BY <1>6 DEF Slots
  <2>2. QED
    BY <1>3, <1>4, <1>5, <2>1
<1>8. tail' = Wrap(m, size + 1) /\ tail' \in Slots(m)
  <2>1. size + 1 \in 0 .. (2 * m - 1) /\ m \in Nat \ {0}
    BY <1>4, <1>6
  <2>2. QED
    BY <1>3, <1>4, <2>1, WrapIsMod
<1>9. Types'
  <2>1. m \in Nat \ {0} /\ 0 \in Slots(m) /\ size + 1 \in 0 .. m
    BY <1>4, <1>6 DEF Slots
  <2>2. QED
    BY <1>2, <1>6, <1>7, <1>8, <2>1 DEF IInv, Types, PushAndGrow
<1>10. \A i \in Slots(m) :
           Offset(m, 0, i) = i /\ (i \in Slots(size) <=> i < size) /\ (i < size + 1 <=> i < size \/ i = size)
  BY <1>6 DEF Offset, Slots
<1>11. RingMatches'
  <2>1. tail' = Wrap(m, head' + size')
    BY <1>6, <1>8
  <2>2. ASSUME NEW i \in Slots(m)
        PROVE  /\ Offset(m, 0, i) < size + 1 <=> buffer'[i].object # NoObject
               /\ buffer'[i].object # NoObject => buffer'[i].occupied
               /\ i < n /\ buffer'[i].occupied => buffer'[i].object # NoObject
    <3>1. CASE i = size
      <4>1. buffer'[i].occupied /\ buffer'[i].object = v
        BY <1>3, <1>4, <1>7, <3>1 DEF Slot
      <4>2. QED
        BY <1>5, <1>10, <3>1, <4>1
    <3>2. CASE i # size
      <4>1. buffer'[i] = b[i]
        BY <1>3, <1>4, <3>2
      <4>2. QED
        BY <1>4, <1>10, <3>2, <4>1
    <3>3. QED
      BY <3>1, <3>2
  <2>3. QED
    BY <1>6, <2>1, <2>2 DEF RingMatches
<1>12. QED
  BY <1>9, <1>11, SlotsMatchNext DEF IInv

LEMMA PushOverKeeps ==
    ASSUME IInv, NEW v \in Values, PushOver(v) PROVE IInv'
<1> DEFINE b == Destroyed(buffer, {tail})
<1>1. /\ size = capacity /\ size' = size /\ initialised' = initialised
      /\ tail' = nextIndex(tail) /\ head' = nextIndex(tail) /\ buffer' = [b EXCEPT ![tail] = Slot(TRUE, v)]
      /\ UNCHANGED <<overwriteWhenFull, autoExpand>>
  BY DEF PushOver, Full, HeadAfterOverwrite
<1>2. v \in Objs /\ v # NoObject /\ Slot(TRUE, v) \in [occupied : BOOLEAN, object : Objs]
  BY RingAssumption DEF Objs, Slot
<1>3. /\ DOMAIN b = Slots(capacity)
      /\ \A i \in Slots(capacity) \ {tail} : b[i] = buffer[i]
  BY DEF Destroyed, IInv, Types
<1>4. DOMAIN buffer' = Slots(capacity) /\ tail \in Slots(capacity)
  BY <1>1, <1>3 DEF IInv, Types
<1> HIDE DEF b
<1>5. /\ buffer'[tail] = Slot(TRUE, v)
      /\ \A i \in Slots(capacity) \ {tail} : buffer'[i] = buffer[i]
  BY <1>1, <1>3, <1>4
<1>6. capacity' = capacity
  BY <1>4, SameDomain DEF IInv, Types
<1>7. buffer' \in [Slots(capacity) -> [occupied : BOOLEAN, object : Objs]]
  <2>1. \A i \in Slots(capacity) : buffer'[i] \in [occupied : BOOLEAN, object : Objs]
    BY <1>2, <1>5 DEF IInv, Types
  <2>2. buffer' = [i \in Slots(capacity) |-> buffer'[i]]
    BY <1>1, <1>4
  <2>3. QED
    BY <2>1, <2>2
<1>8. tail' = Wrap(capacity, tail + 1) /\ tail' \in Slots(capacity)
  <2>1. tail + 1 \in 0 .. (2 * capacity - 1) /\ capacity \in Nat \ {0}
    BY DEF IInv, Types, Slots
  <2>2. QED
    BY <1>1, <2>1, WrapIsMod DEF nextIndex
<1>9. Types'
  BY <1>1, <1>6, <1>7, <1>8 DEF IInv, Types
<1>10. RingMatches'
  <2>1. RingMatches
    BY SlotsMatchIs DEF IInv
  <2>2. tail' = Wrap(capacity, head' + size')
    BY <1>1, <1>8 DEF Wrap, Slots, IInv, Types
  <2>3. \A i \in Slots(capacity) : Offset(capacity, head, i) < size /\ Offset(capacity, head', i) < size
    <3>1. \A i \in Slots(capacity) :
              Offset(capacity, head, i) \in Slots(capacity) /\ Offset(capacity, head', i) \in Slots(capacity)
      BY <1>1, <1>8, OffsetInverse DEF IInv, Types
    <3>2. QED
      <4>1. \A x \in Slots(capacity) : x < size
        BY <1>1 DEF Slots, IInv, Types
      <4>2. QED
        BY <3>1, <4>1
  <2>4. buffer'[tail].occupied /\ buffer'[tail].object = v
    BY <1>5 DEF Slot
  <2>5. ASSUME NEW i \in Slots(capacity)
        PROVE  /\ Offset(capacity, head', i) < size <=> buffer'[i].object # NoObject
               /\ buffer'[i].object # NoObject => buffer'[i].occupied
               /\ i < initialised /\ buffer'[i].occupied => buffer'[i].object # NoObject
    <3>1. CASE i = tail
      BY <1>2, <2>3, <2>4, <3>1
    <3>2. CASE i # tail
      <4>1. buffer'[i] = buffer[i]
        BY <1>5, <3>2
      <4>2. QED
        BY <2>1, <2>3, <4>1 DEF RingMatches
    <3>3. QED
      BY <3>1, <3>2
  <2>6. QED
    BY <1>1, <1>6, <2>2, <2>5 DEF RingMatches
<1>11. QED
  BY <1>9, <1>10, SlotsMatchNext DEF IInv

(* What is left of the queue after its first count values: the slots keep  *)
(* their distance from the head, less count.                               *)
LEMMA OffsetAfter ==
    ASSUME NEW n \in Nat \ {0}, NEW h \in Slots(n), NEW k \in 0 .. n, NEW count \in 0 .. k,
           NEW j \in Slots(n)
    PROVE  /\ Offset(n, Wrap(n, h + count), j) < k - count
                  <=> count <= Offset(n, h, j) /\ Offset(n, h, j) < k
           /\ Wrap(n, Wrap(n, h + count) + (k - count)) = Wrap(n, h + k)
BY DEF Offset, Wrap, Slots

LEMMA TakeOldestKeeps ==
    ASSUME IInv, NEW count \in 0 .. size, TakeOldest(count) PROVE IInv'
<1>1. /\ buffer' = Destroyed(buffer, Oldest(count)) /\ head' = (head + count) % capacity
      /\ size' = size - count /\ UNCHANGED <<initialised, tail, overwriteWhenFull, autoExpand>>
  BY DEF TakeOldest
<1>2. RingMatches
  BY SlotsMatchIs DEF IInv
<1>3. count \in Nat /\ count \in 0 .. capacity /\ capacity \in Nat \ {0} /\ head \in Slots(capacity)
  BY DEF IInv, Types
<1>4. DOMAIN buffer' = Slots(capacity) /\ capacity' = capacity
  BY <1>1, SameDomain DEF Destroyed, IInv, Types
<1>5. \A i \in Slots(capacity) :
          buffer'[i] = IF Offset(capacity, head, i) < count /\ buffer[i].occupied THEN BlankSlot ELSE buffer[i]
  BY <1>1, <1>3, OldestIs DEF Destroyed, IInv, Types
<1>6. BlankSlot \in [occupied : BOOLEAN, object : Objs] /\ BlankSlot.object = NoObject /\ ~BlankSlot.occupied
  BY DEF BlankSlot, Slot, Objs
<1>7. buffer' \in [Slots(capacity) -> [occupied : BOOLEAN, object : Objs]]
  <2>1. \A i \in Slots(capacity) : buffer'[i] \in [occupied : BOOLEAN, object : Objs]
    BY <1>5, <1>6 DEF IInv, Types
  <2>2. buffer' = [i \in Slots(capacity) |-> buffer'[i]]
    BY <1>1, <1>4 DEF Destroyed
  <2>3. QED
    BY <2>1, <2>2
<1>8. head' = Wrap(capacity, head + count) /\ head' \in Slots(capacity)
  <2>1. head + count \in 0 .. (2 * capacity - 1)
    BY <1>3 DEF Slots
  <2>2. QED
    BY <1>1, <1>3, <2>1, WrapIsMod
<1>9. Types'
  <2>1. size' \in 0 .. capacity
    BY <1>1 DEF IInv, Types
  <2>2. QED
    BY <1>1, <1>4, <1>7, <1>8, <2>1 DEF IInv, Types
<1>10. RingMatches'
  <2>1. size \in 0 .. capacity
    BY DEF IInv, Types
  <2>2. tail' = Wrap(capacity, head' + size')
    BY <1>1, <1>2, <1>3, <1>8, <2>1, OffsetAfter DEF RingMatches
  <2>3. ASSUME NEW i \in Slots(capacity)
        PROVE  /\ Offset(capacity, head', i) < size' <=> buffer'[i].object # NoObject
               /\ buffer'[i].object # NoObject => buffer'[i].occupied
               /\ i < initialised /\ buffer'[i].occupied => buffer'[i].object # NoObject
    <3>1. Offset(capacity, head', i) < size'
              <=> count <= Offset(capacity, head, i) /\ Offset(capacity, head, i) < size
      BY <1>1, <1>3, <1>8, <2>1, OffsetAfter
    <3>2. Offset(capacity, head, i) \in Int /\ count <= size /\ size \in Int
      BY <1>3, OffsetInverse DEF Slots, IInv, Types
    <3>3. /\ Offset(capacity, head, i) < size <=> buffer[i].object # NoObject
          /\ buffer[i].object # NoObject => buffer[i].occupied
          /\ i < initialised /\ buffer[i].occupied => buffer[i].object # NoObject
      BY <1>2 DEF RingMatches
    <3>4. CASE Offset(capacity, head, i) < count
      <4>1. buffer[i].occupied
        BY <1>3, <3>2, <3>3, <3>4
      <4>2. buffer'[i] = BlankSlot
        BY <1>5, <3>4, <4>1
      <4>3. ~(Offset(capacity, head', i) < size')
        BY <1>3, <3>1, <3>2, <3>4
      <4>4. QED
        BY <1>6, <4>2, <4>3
    <3>5. CASE ~(Offset(capacity, head, i) < count)
      <4>1. buffer'[i] = buffer[i]
        BY <1>5, <3>5
      <4>2. count <= Offset(capacity, head, i)
        BY <1>3, <3>2, <3>5
      <4>3. QED
        BY <3>1, <3>3, <4>1, <4>2
    <3>6. QED
      BY <3>4, <3>5
  <2>4. QED
    BY <1>1, <1>4, <2>2, <2>3 DEF RingMatches
<1>11. QED
  BY <1>9, <1>10, SlotsMatchNext DEF IInv

LEMMA ClearKeeps ==
    ASSUME IInv, Clear PROVE IInv'
<1>1. /\ buffer' = Destroyed(buffer, Slots(capacity)) /\ head' = 0 /\ tail' = 0 /\ size' = 0
      /\ UNCHANGED <<initialised, overwriteWhenFull, autoExpand>>
  BY DEF Clear
<1>2. RingMatches
  BY SlotsMatchIs DEF IInv
<1>3. DOMAIN buffer' = Slots(capacity) /\ capacity' = capacity
  BY <1>1, SameDomain DEF Destroyed, IInv, Types
<1>4. BlankSlot \in [occupied : BOOLEAN, object : Objs] /\ BlankSlot.object = NoObject /\ ~BlankSlot.occupied
  BY DEF BlankSlot, Slot, Objs
<1>5. \A i \in Slots(capacity) : buffer'[i] = IF buffer[i].occupied THEN BlankSlot ELSE buffer[i]
  BY <1>1 DEF Destroyed, IInv, Types
<1>6. \A i \in Slots(capacity) : buffer'[i] \in [occupied : BOOLEAN, object : Objs] /\ buffer'[i].object = NoObject
                                     /\ ~buffer'[i].occupied
  BY <1>2, <1>4, <1>5 DEF IInv, Types, RingMatches
<1>7. buffer' \in [Slots(capacity) -> [occupied : BOOLEAN, object : Objs]]
  <2>1. buffer' = [i \in Slots(capacity) |-> buffer'[i]]
    BY <1>1, <1>3 DEF Destroyed
  <2>2. QED
    BY <1>6, <2>1
<1>8. 0 \in Slots(capacity) /\ 0 \in 0 .. capacity
  BY DEF Slots, IInv, Types
<1>9. Types'
  BY <1>1, <1>3, <1>7, <1>8 DEF IInv, Types
<1>10. RingMatches'
  <2>1. Wrap(capacity, 0 + 0) = 0 /\ \A i \in Slots(capacity) : ~(Offset(capacity, 0, i) < 0)
    BY <1>8 DEF Wrap, Offset, Slots, IInv, Types
  <2>2. QED
    BY <1>1, <1>3, <1>6, <2>1 DEF RingMatches
<1>11. QED
  BY <1>9, <1>10, SlotsMatchNext DEF IInv

RingUnchanged == UNCHANGED <<buffer, initialised, head, tail, size>>

LEMMA UnchangedKeeps ==
    ASSUME IInv, RingUnchanged, overwriteWhenFull' \in BOOLEAN, autoExpand' \in BOOLEAN PROVE IInv'
<1>1. capacity' = capacity
  BY SameDomain DEF RingUnchanged
<1>2. QED
  BY <1>1 DEF RingUnchanged, IInv, Types, SlotsMatch, Oldest, At

LEMMA InvStep == IInv /\ [Next]_vars => IInv'
<1> SUFFICES ASSUME IInv, [Next]_vars PROVE IInv'
  OBVIOUS
<1>1. overwriteWhenFull \in BOOLEAN /\ autoExpand \in BOOLEAN /\ size \in Nat
  BY DEF IInv, Types
<1>2. ASSUME NEW v \in Values, PushInRoom(v) \/ PushAndGrow(v) \/ PushRefused(v) \/ PushOver(v)
      PROVE  IInv'
  BY <1>1, <1>2, PushInRoomKeeps, PushAndGrowKeeps, PushOverKeeps, UnchangedKeeps
     DEF PushRefused, RingUnchanged
<1>3. CASE TryPop
  <2>1. CASE size > 0 /\ TakeOldest(1)
    BY <1>1, <2>1, TakeOldestKeeps
  <2>2. CASE ~(size > 0 /\ TakeOldest(1))
    BY <1>1, <1>3, <2>2, UnchangedKeeps DEF TryPop, RingUnchanged
  <2>3. QED
    BY <2>1, <2>2
<1>4. ASSUME NEW count \in 0 .. 2, PopBatch(count) PROVE IInv'
  <2>1. PICK k \in 0 .. size : TakeOldest(k)
    BY <1>1, <1>4 DEF PopBatch
  <2>2. QED
    BY <2>1, TakeOldestKeeps
<1>5. ASSUME NEW count \in {1, size}, Look(count) PROVE IInv'
  BY <1>1, <1>5, UnchangedKeeps DEF Look, RingUnchanged
<1>6. ASSUME NEW flag \in BOOLEAN, SetOverwriteWhenFull(flag) \/ SetAutoExpand(flag) PROVE IInv'
  BY <1>1, <1>6, UnchangedKeeps DEF SetOverwriteWhenFull, SetAutoExpand, RingUnchanged
<1>7. CASE FrontCopyRefused \/ UNCHANGED vars
  BY <1>1, <1>7, UnchangedKeeps DEF FrontCopyRefused, vars, RingUnchanged
<1>8. QED
  BY <1>2, <1>3, <1>4, <1>5, <1>6, <1>7, ReserveKeeps, ClearKeeps DEF Next

(* The inductive invariant, in every state.                                *)
THEOREM Invariant == Spec => []IInv
BY InvInit, InvStep, PTL DEF Spec

(* The indices, the marks and the values that live in the slots agree in   *)
(* every state, for any capacity and block size: through wrapping,         *)
(* overwriting, growing and clearing, with slots that were never           *)
(* initialised reading as anything.                                        *)
THEOREM SlotsMatchHolds == Spec => []SlotsMatch
BY Invariant, PTL DEF IInv

-----------------------------------------------------------------------------
(* The refinement.                                                         *)

ContentsAreSlots ==
    /\ Objects(size) \in Seq(Values) /\ Len(Objects(size)) = size
    /\ \A i \in 1 .. size : Objects(size)[i] = buffer[Wrap(capacity, head + (i - 1))].object

LEMMA ContentsAre == IInv => ContentsAreSlots
<1>1. IInv => size \in 0 .. size
  BY DEF IInv, Types
<1>2. QED
  BY <1>1, ObjectsAre DEF ContentsAreSlots

LEMMA ContentsNext == IInv' => ContentsAreSlots'
BY ContentsAre, PTL

(* What the queue holds after a step, told by its slots.                   *)
LEMMA ContentsBecome ==
    ASSUME IInv', NEW s \in Seq(Values), Len(s) = size',
           \A i \in 1 .. Len(s) : s[i] = buffer'[Wrap(capacity', head' + (i - 1))].object
    PROVE  Objects(size)' = s
<1>1. Objects(size)' \in Seq(Values) /\ Len(Objects(size)') = size'
  BY ContentsNext DEF ContentsAreSlots
<1>2. \A i \in 1 .. size' : Objects(size)'[i] = buffer'[Wrap(capacity', head' + (i - 1))].object
  BY ContentsNext DEF ContentsAreSlots
<1>3. \A i \in 1 .. Len(s) : Objects(size)'[i] = s[i]
  BY <1>2
<1> DEFINE c == Objects(size)'
<1> HIDE DEF c
<1>4. c = s
  BY <1>1, <1>3, SeqEqual DEF c
<1>5. QED
  BY <1>4 DEF c

LEMMA EmptyContents == IInv /\ size = 0 => Objects(size) = << >>
<1> SUFFICES ASSUME IInv, size = 0 PROVE Objects(size) = << >>
  OBVIOUS
<1>1. Objects(size) \in Seq(Values) /\ Len(Objects(size)) = 0
  BY ContentsAre DEF ContentsAreSlots
<1>2. QED
  BY <1>1, EmptySeq

LEMMA EmptyNext == IInv' /\ (size = 0)' => (Objects(size) = << >>)'
BY EmptyContents, PTL

LEMMA UnchangedContents ==
    ASSUME RingUnchanged PROVE Objects(size)' = Objects(size) /\ capacity' = capacity
<1>1. capacity' = capacity
  BY SameDomain DEF RingUnchanged
<1>2. QED
  BY <1>1 DEF RingUnchanged, Objects, At

(* A push that finds the slot of the tail free appends.                    *)
LEMMA PushAppends ==
    ASSUME IInv, IInv', NEW v \in Values, PushInRoom(v)
    PROVE  Objects(size)' = Append(Objects(size), v) /\ capacity' = capacity
<1>1. /\ size < capacity /\ size' = size + 1 /\ head' = head
      /\ buffer' = [buffer EXCEPT ![tail] = Slot(TRUE, v)]
  BY DEF PushInRoom, Full, IInv, Types
<1>2. capacity' = capacity
  BY <1>1, SameDomain
<1>3. /\ Objects(size) \in Seq(Values) /\ Len(Objects(size)) = size
      /\ \A i \in 1 .. size : Objects(size)[i] = buffer[Wrap(capacity, head + (i - 1))].object
  BY ContentsAre DEF ContentsAreSlots
<1> DEFINE s == Append(Objects(size), v)
<1>4. /\ s \in Seq(Values) /\ Len(s) = size + 1 /\ s[size + 1] = v
      /\ \A i \in 1 .. size : s[i] = Objects(size)[i]
  BY <1>3, AppendProperties
<1> HIDE DEF s
<1>5. tail = Wrap(capacity, head + size) /\ tail \in Slots(capacity)
  BY SlotsMatchIs DEF IInv, Types, RingMatches
<1>6. buffer'[tail].object = v
  BY <1>1, <1>5 DEF IInv, Types, Slot
<1>7. ASSUME NEW i \in 1 .. size
      PROVE  buffer'[Wrap(capacity, head + (i - 1))] = buffer[Wrap(capacity, head + (i - 1))]
  <2>1. i - 1 \in Slots(capacity) /\ size \in Slots(capacity) /\ i - 1 # size
    BY <1>1 DEF Slots, IInv, Types
  <2>2. /\ Wrap(capacity, head + (i - 1)) \in Slots(capacity)
        /\ Offset(capacity, head, Wrap(capacity, head + (i - 1))) = i - 1
        /\ Offset(capacity, head, Wrap(capacity, head + size)) = size
    BY <2>1, OffsetInverse DEF IInv, Types
  <2>3. Wrap(capacity, head + (i - 1)) # tail
    BY <1>5, <2>1, <2>2
  <2>4. QED
    BY <1>1, <2>2, <2>3 DEF IInv, Types
<1>8. ASSUME NEW i \in 1 .. Len(s) PROVE s[i] = buffer'[Wrap(capacity', head' + (i - 1))].object
  <2>1. size \in Nat
    BY DEF IInv, Types
  <2>2. CASE i = size + 1
    <3>1. i - 1 = size
      BY <2>1, <2>2
    <3>2. QED
      BY <1>1, <1>2, <1>4, <1>5, <1>6, <2>2, <3>1
  <2>3. CASE i # size + 1
    <3>1. i \in 1 .. size
      BY <1>4, <2>1, <2>3
    <3>2. QED
      BY <1>1, <1>2, <1>3, <1>4, <1>7, <3>1
  <2>4. QED
    BY <2>2, <2>3
<1>9. Objects(size)' = s
  BY <1>1, <1>4, <1>8, ContentsBecome
<1>10. QED
  BY <1>2, <1>9 DEF s

(* The move to a larger block keeps the order.                             *)
LEMMA GrowthAppends ==
    ASSUME IInv, IInv', NEW v \in Values, PushAndGrow(v)
    PROVE  Objects(size)' = Append(Objects(size), v) /\ capacity' > capacity
<1>1. PICK n \in FirstDoubling(capacity, capacity + 1) :
          /\ Grow(n)
          /\ \E b \in Grown(n) :
                 /\ buffer' = [b EXCEPT ![size] = Slot(TRUE, v)]
                 /\ tail' = (size + 1) % Cardinality(DOMAIN b)
  BY DEF PushAndGrow
<1>2. n \in Nat /\ n > size /\ size <= n /\ n > capacity /\ size \in Nat /\ capacity \in Nat
  BY DoubledIsEnough DEF IInv, Types
<1>3. PICK b \in Grown(n) : buffer' = [b EXCEPT ![size] = Slot(TRUE, v)]
  BY <1>1
<1> PICK m \in Nat : MovedInto(b, n, m)
  BY <1>2, GrownHas
<1>4. /\ m >= n /\ DOMAIN b = Slots(m) /\ Cardinality(DOMAIN b) = m
      /\ \A i \in Slots(size) : b[i] = Slot(TRUE, Objects(size)[i + 1])
  BY DEF MovedInto
<1>5. capacity' = m /\ head' = 0 /\ size' = size + 1
  BY <1>1, <1>3, <1>4 DEF capacity, Grow, PushAndGrow
<1>6. Objects(size) \in Seq(Values) /\ Len(Objects(size)) = size
  BY ContentsAre DEF ContentsAreSlots
<1> DEFINE s == Append(Objects(size), v)
<1>7. /\ s \in Seq(Values) /\ Len(s) = size + 1 /\ s[size + 1] = v
      /\ \A i \in 1 .. size : s[i] = Objects(size)[i]
  BY <1>6, AppendProperties
<1> HIDE DEF s
<1>8. ASSUME NEW i \in 1 .. Len(s) PROVE s[i] = buffer'[Wrap(capacity', head' + (i - 1))].object
  <2>1. Wrap(capacity', head' + (i - 1)) = i - 1 /\ i - 1 \in Slots(m)
    BY <1>2, <1>4, <1>5, <1>7 DEF Wrap, Slots
  <2>2. CASE i = size + 1
    <3>1. i - 1 = size /\ size \in DOMAIN b
      BY <1>2, <1>4, <2>1, <2>2
    <3>2. buffer'[i - 1] = Slot(TRUE, v)
      BY <1>3, <3>1
    <3>3. QED
      BY <1>7, <2>1, <2>2, <3>2 DEF Slot
  <2>3. CASE i # size + 1
    <3>1. i \in 1 .. size /\ i - 1 \in Slots(size) /\ i - 1 # size /\ (i - 1) + 1 = i
      BY <1>2, <1>7, <2>3 DEF Slots
    <3>2. buffer'[i - 1] = b[i - 1]
      BY <1>3, <1>4, <2>1, <3>1
    <3>3. b[i - 1] = Slot(TRUE, Objects(size)[i])
      BY <1>4, <3>1
    <3>4. QED
      BY <1>7, <2>1, <3>1, <3>2, <3>3 DEF Slot
  <2>4. QED
    BY <2>2, <2>3
<1>9. Objects(size)' = s
  BY <1>5, <1>7, <1>8, ContentsBecome
<1>10. QED
  BY <1>2, <1>4, <1>5, <1>9 DEF s

LEMMA ReserveKeepsContents ==
    ASSUME IInv, IInv', NEW n \in Capacities, Reserve(n)
    PROVE  Objects(size)' = Objects(size) /\ capacity' >= capacity
<1>1. n \in Int /\ capacity \in Nat /\ size \in Nat /\ size <= capacity
  BY RingAssumption DEF IInv, Types
<1>2. CASE capacity >= n
  <2>1. RingUnchanged
    BY <1>1, <1>2 DEF Reserve, RingUnchanged
  <2>2. QED
    BY <1>1, <2>1, UnchangedContents
<1>3. CASE capacity < n
  <2>1. PICK k \in FirstDoubling(capacity, n) : Grow(k) /\ buffer' \in Grown(k) /\ size' = size
    BY <1>1, <1>3 DEF Reserve
  <2>2. k \in Nat /\ k >= capacity /\ size <= k
    BY <1>1, <2>1, DoubledIsEnough
  <2>3. PICK b \in Grown(k) : buffer' = b
    BY <2>1
  <2> PICK m \in Nat : MovedInto(b, k, m)
    BY <2>2, GrownHas
  <2>4. /\ m >= k /\ DOMAIN b = Slots(m) /\ Cardinality(DOMAIN b) = m
        /\ \A i \in Slots(size) : b[i] = Slot(TRUE, Objects(size)[i + 1])
    BY DEF MovedInto
  <2>5. capacity' = m /\ head' = 0
    BY <2>1, <2>3, <2>4 DEF capacity, Grow
  <2>6. Objects(size) \in Seq(Values) /\ Len(Objects(size)) = size
    BY ContentsAre DEF ContentsAreSlots
  <2>7. ASSUME NEW i \in 1 .. size PROVE Objects(size)[i] = buffer'[Wrap(capacity', head' + (i - 1))].object
    <3>1. Wrap(capacity', head' + (i - 1)) = i - 1 /\ i - 1 \in Slots(size) /\ (i - 1) + 1 = i
      BY <1>1, <2>2, <2>4, <2>5 DEF Wrap, Slots
    <3>2. b[i - 1] = Slot(TRUE, Objects(size)[i])
      BY <2>4, <3>1
    <3>3. QED
      BY <2>3, <3>1, <3>2 DEF Slot
  <2> DEFINE s == Objects(size)
  <2>8. s \in Seq(Values) /\ Len(s) = size' /\ \A i \in 1 .. Len(s) : s[i] = buffer'[Wrap(capacity', head' + (i - 1))].object
    BY <2>1, <2>6, <2>7
  <2> HIDE DEF s
  <2>9. Objects(size)' = s
    BY <2>8, ContentsBecome
  <2>10. capacity' >= capacity
    BY <1>1, <2>2, <2>4, <2>5
  <2>11. QED
    BY <2>9, <2>10 DEF s
<1>4. QED
  BY <1>1, <1>2, <1>3

(* A push over the oldest drops it.                                        *)
LEMMA PushOverDrops ==
    ASSUME IInv, IInv', NEW v \in Values, PushOver(v)
    PROVE  /\ Objects(size)' = Append(Tail(Objects(size)), v) /\ capacity' = capacity
           /\ Len(Objects(size)) = capacity
<1>1. /\ size = capacity /\ size' = size /\ head' = nextIndex(tail)
      /\ buffer' = [Destroyed(buffer, {tail}) EXCEPT ![tail] = Slot(TRUE, v)]
  BY DEF PushOver, Full, HeadAfterOverwrite
<1>2. capacity \in Nat \ {0} /\ head \in Slots(capacity)
  BY DEF IInv, Types
<1>3. tail = head
  BY <1>1, <1>2, SlotsMatchIs DEF IInv, RingMatches, Wrap, Slots
<1>4. DOMAIN buffer' = Slots(capacity) /\ capacity' = capacity
  BY <1>1, SameDomain DEF Destroyed, IInv, Types
<1>5. /\ \A j \in Slots(capacity) \ {tail} : buffer'[j] = buffer[j]
      /\ buffer'[tail] = Slot(TRUE, v)
  BY <1>1, <1>2, <1>3 DEF Destroyed, IInv, Types
<1>6. head' = Wrap(capacity, head + 1)
  <2>1. head + 1 \in 0 .. (2 * capacity - 1)
    BY <1>2 DEF Slots
  <2>2. QED
    BY <1>1, <1>2, <1>3, <2>1, WrapIsMod DEF nextIndex
<1> DEFINE c == Objects(size)
           s == Append(Tail(c), v)
<1>7. /\ c \in Seq(Values) /\ Len(c) = size
      /\ \A i \in 1 .. size : c[i] = buffer[Wrap(capacity, head + (i - 1))].object
  BY ContentsAre DEF ContentsAreSlots
<1> HIDE DEF c
<1>8. c # << >>
  BY <1>1, <1>2, <1>7, EmptySeq
<1>9. /\ Tail(c) \in Seq(Values) /\ Len(Tail(c)) = size - 1
      /\ \A i \in 1 .. (size - 1) : Tail(c)[i] = c[i + 1]
  BY <1>7, <1>8, HeadTailProperties
<1>10. /\ s \in Seq(Values) /\ Len(s) = size /\ s[size] = v
       /\ \A i \in 1 .. (size - 1) : s[i] = c[i + 1]
  BY <1>1, <1>2, <1>9, AppendProperties
<1> HIDE DEF s
<1>11. ASSUME NEW i \in 1 .. Len(s) PROVE s[i] = buffer'[Wrap(capacity', head' + (i - 1))].object
  <2>1. CASE i = size
    <3>1. Wrap(capacity, head' + (i - 1)) = tail
      BY <1>1, <1>2, <1>3, <1>6, <2>1 DEF Wrap, Slots
    <3>2. QED
      BY <1>4, <1>5, <1>10, <2>1, <3>1 DEF Slot
  <2>2. CASE i # size
    <3>1. i \in 1 .. (size - 1) /\ i + 1 \in 1 .. size /\ i \in Slots(capacity) /\ i # 0 /\ (i + 1) - 1 = i
      BY <1>1, <1>2, <1>10, <2>2 DEF Slots
    <3>2. Wrap(capacity, head' + (i - 1)) = Wrap(capacity, head + i)
      BY <1>1, <1>2, <1>6, <3>1 DEF Wrap, Slots
    <3>3. Wrap(capacity, head + i) \in Slots(capacity) /\ Offset(capacity, head, Wrap(capacity, head + i)) = i
      BY <1>2, <3>1, OffsetInverse
    <3>4. Offset(capacity, head, tail) = 0
      BY <1>2, <1>3 DEF Offset, Slots
    <3>5. buffer'[Wrap(capacity, head + i)] = buffer[Wrap(capacity, head + i)]
      BY <1>5, <3>1, <3>3, <3>4
    <3>6. s[i] = buffer[Wrap(capacity, head + i)].object
      BY <1>7, <1>10, <3>1
    <3>7. QED
      BY <1>4, <3>2, <3>5, <3>6
  <2>3. QED
    BY <2>1, <2>2
<1>12. Objects(size)' = s
  BY <1>1, <1>10, <1>11, ContentsBecome
<1>13. QED
  BY <1>1, <1>4, <1>7, <1>12 DEF s, c

(* The first values are returned, and the others stay.                     *)
LEMMA TakeOldestTakes ==
    ASSUME IInv, IInv', NEW count \in 0 .. size, TakeOldest(count)
    PROVE  /\ Objects(size)' = SubSeq(Objects(size), count + 1, Len(Objects(size)))
           /\ capacity' = capacity
<1>1. /\ buffer' = Destroyed(buffer, Oldest(count)) /\ head' = (head + count) % capacity
      /\ size' = size - count
  BY DEF TakeOldest
<1>2. /\ count \in Nat /\ count \in 0 .. capacity /\ capacity \in Nat \ {0} /\ head \in Slots(capacity)
      /\ size \in Nat /\ size <= capacity
  BY DEF IInv, Types
<1>3. capacity' = capacity
  BY <1>1, SameDomain DEF Destroyed
<1>4. \A j \in Slots(capacity) : ~(Offset(capacity, head, j) < count) => buffer'[j] = buffer[j]
  BY <1>1, <1>2, OldestIs DEF Destroyed, IInv, Types
<1>5. head' = Wrap(capacity, head + count)
  <2>1. head + count \in 0 .. (2 * capacity - 1)
    BY <1>2 DEF Slots
  <2>2. QED
    BY <1>1, <1>2, <2>1, WrapIsMod
<1> DEFINE c == Objects(size)
           s == SubSeq(c, count + 1, size)
<1>6. /\ c \in Seq(Values) /\ Len(c) = size
      /\ \A i \in 1 .. size : c[i] = buffer[Wrap(capacity, head + (i - 1))].object
  BY ContentsAre DEF ContentsAreSlots
<1> HIDE DEF c
<1>7. /\ s \in Seq(Values) /\ Len(s) = size - count
      /\ \A i \in 1 .. (size - count) : s[i] = c[i + count]
  <2>1. \A i \in (count + 1) .. size : c[i] \in Values
    BY <1>2, <1>6, ElementOfSeq
  <2>2. /\ s \in Seq(Values)
        /\ Len(s) = IF count + 1 <= size THEN size - (count + 1) + 1 ELSE 0
        /\ \A i \in 1 .. (size - (count + 1) + 1) : s[i] = c[count + 1 + i - 1]
    BY <1>2, <2>1, SubSeqProperties
  <2>3. size - (count + 1) + 1 = size - count /\ \A i \in Int : count + 1 + i - 1 = i + count
    BY <1>2
  <2>4. Len(s) = size - count
    BY <1>1, <1>2, <2>2
  <2>5. QED
    BY <2>2, <2>3, <2>4
<1> HIDE DEF s
<1>8. ASSUME NEW i \in 1 .. Len(s) PROVE s[i] = buffer'[Wrap(capacity', head' + (i - 1))].object
  <2>1. /\ i \in 1 .. (size - count) /\ i + count \in 1 .. size /\ (i + count) - 1 \in Slots(capacity)
        /\ ~((i + count) - 1 < count)
    BY <1>2, <1>7 DEF Slots
  <2>2. Wrap(capacity, head' + (i - 1)) = Wrap(capacity, head + ((i + count) - 1))
    BY <1>2, <1>5, <2>1 DEF Wrap, Slots
  <2>3. buffer'[Wrap(capacity, head + ((i + count) - 1))] = buffer[Wrap(capacity, head + ((i + count) - 1))]
    BY <1>2, <1>4, <2>1, OffsetInverse
  <2>4. s[i] = buffer[Wrap(capacity, head + ((i + count) - 1))].object
    BY <1>6, <1>7, <2>1
  <2>5. QED
    BY <1>3, <2>2, <2>3, <2>4
<1>9. Objects(size)' = s
  BY <1>1, <1>7, <1>8, ContentsBecome
<1>10. QED
  BY <1>3, <1>6, <1>9 DEF s, c

(* What TakeOldest and Look return.                                        *)
LEMMA ObjectsAreFirst ==
    ASSUME IInv, NEW count \in 0 .. size
    PROVE  Objects(count) = SubSeq(Objects(size), 1, count)
<1>1. /\ Objects(count) \in Seq(Values) /\ Len(Objects(count)) = count
      /\ \A i \in 1 .. count : Objects(count)[i] = buffer[Wrap(capacity, head + (i - 1))].object
  BY ObjectsAre
<1>2. /\ Objects(size) \in Seq(Values) /\ Len(Objects(size)) = size
      /\ \A i \in 1 .. size : Objects(size)[i] = buffer[Wrap(capacity, head + (i - 1))].object
  BY ContentsAre DEF ContentsAreSlots
<1>3. size \in Nat /\ count \in Nat
  BY DEF IInv, Types
<1> DEFINE s == SubSeq(Objects(size), 1, count)
<1>4. /\ s \in Seq(Values) /\ Len(s) = count
      /\ \A i \in 1 .. count : s[i] = Objects(size)[i]
  <2>1. \A i \in 1 .. count : Objects(size)[i] \in Values
    BY <1>2, <1>3, ElementOfSeq
  <2>2. /\ s \in Seq(Values)
        /\ Len(s) = IF 1 <= count THEN count - 1 + 1 ELSE 0
        /\ \A i \in 1 .. (count - 1 + 1) : s[i] = Objects(size)[1 + i - 1]
    BY <1>3, <2>1, SubSeqProperties
  <2>3. QED
    BY <1>3, <2>2
<1> HIDE DEF s
<1>5. ASSUME NEW i \in 1 .. count PROVE Objects(count)[i] = s[i]
  <2>1. i \in 1 .. size
    BY <1>3
  <2>2. Objects(size)[i] = buffer[Wrap(capacity, head + (i - 1))].object
    BY <1>2, <2>1
  <2>3. Objects(count)[i] = buffer[Wrap(capacity, head + (i - 1))].object /\ s[i] = Objects(size)[i]
    BY <1>1, <1>4
  <2>4. QED
    BY <2>2, <2>3
<1>6. Objects(count) = s
  BY <1>1, <1>4, <1>5, SeqEqual
<1>7. QED
  BY <1>6 DEF s

LEMMA FirstOne ==
    ASSUME IInv, size > 0
    PROVE  /\ Objects(size) # << >>
           /\ SubSeq(Objects(size), 1, 1) = <<Head(Objects(size))>>
           /\ SubSeq(Objects(size), 2, Len(Objects(size))) = Tail(Objects(size))
<1>1. Objects(size) \in Seq(Values) /\ Len(Objects(size)) = size /\ size \in Nat
  BY ContentsAre DEF ContentsAreSlots, IInv, Types
<1> DEFINE c == Objects(size)
<1> HIDE DEF c
<1>2. c \in Seq(Values) /\ Len(c) >= 1 /\ Len(c) \in Nat /\ c # << >>
  BY <1>1, EmptySeq DEF c
<1>3. Tail(c) = SubSeq(c, 2, Len(c))
  BY <1>2, TailIsSubSeq
<1>4. SubSeq(c, 1, 1) = <<Head(c)>>
  <2>1. SubSeq(c, 1, 1) = <<c[1]>> \o SubSeq(c, 2, 1)
    BY <1>2, SubSeqRecursiveFirst
  <2>2. SubSeq(c, 2, 1) = << >>
    BY SubSeqEmpty
  <2>3. c[1] \in Values /\ <<c[1]>> \in Seq(Values) /\ Head(c) = c[1]
    BY <1>2, ElementOfSeq
  <2>4. QED
    BY <2>1, <2>2, <2>3, ConcatEmptySeq
<1>5. QED
  BY <1>2, <1>3, <1>4 DEF c

LEMMA RefinesInit == Init => Fifo!Init
<1> SUFFICES ASSUME Init PROVE Fifo!Init
  OBVIOUS
<1>1. IInv
  BY InvInit
<1>2. Objects(size) = << >> /\ capacity \in Nat \ {0}
  BY <1>1, EmptyContents DEF Init, IInv, Types
<1>3. QED
  BY <1>2 DEF Init, Fifo!Init, Refused, Fifo!Refused

LEMMA RefinesPush ==
    ASSUME IInv, IInv', NEW v \in Values, PushInRoom(v) \/ PushAndGrow(v) \/ PushRefused(v) \/ PushOver(v)
    PROVE  Fifo!Push(v)
<1>1. Len(Objects(size)) = size
  BY ContentsAre DEF ContentsAreSlots
<1>2. Full <=> Fifo!Full
  BY <1>1 DEF Full, Fifo!Full
<1>3. CASE PushInRoom(v)
  <2>1. Objects(size)' = Append(Objects(size), v) /\ capacity' = capacity
    BY <1>3, PushAppends
  <2>2. QED
    BY <1>2, <1>3, <2>1 DEF PushInRoom, Fifo!Push, Done, Fifo!Done
<1>4. CASE PushAndGrow(v)
  <2>1. Objects(size)' = Append(Objects(size), v) /\ capacity' > capacity
    BY <1>4, GrowthAppends
  <2>2. QED
    BY <1>2, <1>4, <2>1 DEF PushAndGrow, Fifo!Push, Done, Fifo!Done
<1>5. CASE PushRefused(v)
  <2>1. Objects(size)' = Objects(size) /\ capacity' = capacity
    BY <1>5, UnchangedContents DEF PushRefused, RingUnchanged
  <2>2. QED
    BY <1>2, <1>5, <2>1 DEF PushRefused, Fifo!Push, Refused, Fifo!Refused
<1>6. CASE PushOver(v)
  <2>1. Objects(size)' = Append(Tail(Objects(size)), v) /\ capacity' = capacity
    BY <1>6, PushOverDrops
  <2>2. QED
    BY <1>2, <1>6, <2>1 DEF PushOver, Fifo!Push, Done, Fifo!Done
<1>7. QED
  BY <1>3, <1>4, <1>5, <1>6

LEMMA RefinesPop ==
    ASSUME IInv, IInv', TryPop
    PROVE  Fifo!Pop
<1>1. CASE size > 0 /\ TakeOldest(1)
  <2>1. 1 \in 0 .. size
    BY <1>1 DEF IInv, Types
  <2>2. /\ Objects(size)' = SubSeq(Objects(size), 1 + 1, Len(Objects(size))) /\ capacity' = capacity
        /\ Objects(1) = SubSeq(Objects(size), 1, 1)
    BY <1>1, <2>1, TakeOldestTakes, ObjectsAreFirst
  <2>3. Objects(size) # << >> /\ Objects(size)' = Tail(Objects(size)) /\ Objects(1) = <<Head(Objects(size))>>
    BY <1>1, <2>2, FirstOne
  <2>4. result' = Done(Objects(1)) /\ UNCHANGED <<overwriteWhenFull, autoExpand>>
    BY <1>1 DEF TakeOldest
  <2>5. QED
    BY <2>2, <2>3, <2>4 DEF Fifo!Pop, Done, Fifo!Done
<1>2. CASE size = 0 /\ RingUnchanged /\ result' = Refused /\ UNCHANGED <<overwriteWhenFull, autoExpand>>
  <2>1. Objects(size) = << >> /\ Objects(size)' = Objects(size) /\ capacity' = capacity
    BY <1>2, EmptyContents, UnchangedContents
  <2>2. QED
    BY <1>2, <2>1 DEF Fifo!Pop, Refused, Fifo!Refused
<1>3. QED
  BY <1>1, <1>2 DEF TryPop, RingUnchanged

LEMMA RefinesPopBatch ==
    ASSUME IInv, IInv', NEW count \in 0 .. size, TakeOldest(count)
    PROVE  \E k \in 0 .. Len(Objects(size)) : Fifo!PopBatch(k)
<1>1. Len(Objects(size)) = size
  BY ContentsAre DEF ContentsAreSlots
<1>2. /\ Objects(size)' = SubSeq(Objects(size), count + 1, Len(Objects(size))) /\ capacity' = capacity
      /\ Objects(count) = SubSeq(Objects(size), 1, count)
  BY TakeOldestTakes, ObjectsAreFirst
<1>3. Fifo!PopBatch(count)
  BY <1>2 DEF TakeOldest, Fifo!PopBatch, Done, Fifo!Done
<1>4. QED
  BY <1>1, <1>3

LEMMA RefinesLook ==
    ASSUME IInv, IInv', NEW count \in {1, size}, Look(count)
    PROVE  Fifo!Look
<1>1. /\ Objects(size)' = Objects(size) /\ capacity' = capacity /\ result' = Done(Objects(count))
      /\ UNCHANGED <<overwriteWhenFull, autoExpand>> /\ count <= size
  BY UnchangedContents DEF Look, RingUnchanged
<1>2. CASE count = size
  BY <1>1, <1>2 DEF Fifo!Look, Done, Fifo!Done
<1>3. CASE count = 1
  <2>1. size > 0 /\ 1 \in 0 .. size
    BY <1>1, <1>3 DEF IInv, Types
  <2>2. Objects(1) = SubSeq(Objects(size), 1, 1)
    BY <2>1, ObjectsAreFirst
  <2>3. Objects(size) # << >> /\ Objects(1) = <<Head(Objects(size))>>
    BY <2>1, <2>2, FirstOne
  <2>4. QED
    BY <1>1, <1>3, <2>3 DEF Fifo!Look, Done, Fifo!Done
<1>4. QED
  BY <1>2, <1>3

LEMMA RefinesStep == IInv /\ IInv' /\ [Next]_vars => [Fifo!Next]_(Fifo!vars)
<1> SUFFICES ASSUME IInv, IInv', [Next]_vars PROVE [Fifo!Next]_(Fifo!vars)
  OBVIOUS
<1>1. ASSUME NEW v \in Values, PushInRoom(v) \/ PushAndGrow(v) \/ PushRefused(v) \/ PushOver(v)
      PROVE  Fifo!Next
  BY <1>1, RefinesPush DEF Fifo!Next
<1>2. CASE TryPop
  BY <1>2, RefinesPop DEF Fifo!Next
<1>3. ASSUME NEW count \in 0 .. 2, PopBatch(count) PROVE Fifo!Next
  <2>1. PICK k \in 0 .. size : TakeOldest(k)
    BY <1>3 DEF PopBatch, IInv, Types
  <2>2. QED
    BY <2>1, RefinesPopBatch DEF Fifo!Next
<1>4. ASSUME NEW count \in {1, size}, Look(count) PROVE Fifo!Next
  BY <1>4, RefinesLook DEF Fifo!Next
<1>5. CASE FrontCopyRefused
  <2>1. Objects(size) = << >> /\ Objects(size)' = Objects(size) /\ capacity' = capacity
    BY <1>5, EmptyContents, UnchangedContents DEF FrontCopyRefused, RingUnchanged
  <2>2. Fifo!Look
    BY <1>5, <2>1 DEF FrontCopyRefused, Fifo!Look, Refused, Fifo!Refused
  <2>3. QED
    BY <2>2 DEF Fifo!Next
<1>6. ASSUME NEW n \in Capacities, Reserve(n) PROVE Fifo!Next
  <2>1. Objects(size)' = Objects(size) /\ capacity' >= capacity
    BY <1>6, ReserveKeepsContents
  <2>2. Fifo!Reserve
    BY <1>6, <2>1 DEF Reserve, Fifo!Reserve, Done, Fifo!Done
  <2>3. QED
    BY <2>2 DEF Fifo!Next
<1>7. ASSUME NEW flag \in BOOLEAN, SetOverwriteWhenFull(flag) \/ SetAutoExpand(flag) PROVE Fifo!Next
  <2>1. Objects(size)' = Objects(size) /\ capacity' = capacity
    BY <1>7, UnchangedContents DEF SetOverwriteWhenFull, SetAutoExpand, RingUnchanged
  <2>2. Fifo!Set
    BY <1>7, <2>1 DEF SetOverwriteWhenFull, SetAutoExpand, Fifo!Set, Done, Fifo!Done, IInv, Types
  <2>3. QED
    BY <2>2 DEF Fifo!Next
<1>8. CASE Clear
  <2>1. (Objects(size) = << >>)'
    BY <1>8, EmptyNext DEF Clear
  <2>2. capacity' = capacity
    BY <1>8, SameDomain DEF Clear, Destroyed
  <2>3. Fifo!Clear
    BY <1>8, <2>1, <2>2 DEF Clear, Fifo!Clear, Done, Fifo!Done
  <2>4. QED
    BY <2>3 DEF Fifo!Next
<1>9. CASE UNCHANGED vars
  <2>1. Objects(size)' = Objects(size) /\ capacity' = capacity
    BY <1>9, UnchangedContents DEF vars, RingUnchanged
  <2>2. QED
    BY <1>9, <2>1 DEF vars, Fifo!vars
<1>10. QED
  BY <1>1, <1>2, <1>3, <1>4, <1>5, <1>6, <1>7, <1>8, <1>9 DEF Next

(* The ring behaves as a bounded first-in first-out queue, for any         *)
(* capacity and block size: what is pushed is popped in order, through     *)
(* every wrap of the indices and every move to a larger block.             *)
THEOREM ImplementsFifoHolds == Spec => ImplementsFifo
<1>1. Init => Fifo!Init
  BY RefinesInit
<1>2. IInv /\ IInv' /\ [Next]_vars => [Fifo!Next]_(Fifo!vars)
  BY RefinesStep
<1>3. Spec => Fifo!Spec
  BY <1>1, <1>2, Invariant, PTL DEF Spec, Fifo!Spec
<1>4. QED
  BY <1>3 DEF ImplementsFifo
=============================================================================
