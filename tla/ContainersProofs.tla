-------------------------- MODULE ContainersProofs --------------------------
(***************************************************************************)
(* Proofs about the sequential containers, in the specification            *)
(* MCContainers puts them in.                                              *)
(***************************************************************************)
EXTENDS MCContainers, PooledNodesProofs

-----------------------------------------------------------------------------
(* PooledVector                                                            *)

VectorValues == Elements \cup {Default}
Cells == VectorValues \cup {Vector!Raw}
VectorBlocks == {p \in [size : Nat, cells : Seq(Cells)] : p.size <= Len(p.cells)}

(* The cells of p hold the elements of s, and nothing else. *)
HoldsElements(p, s) ==
    /\ p \in VectorBlocks /\ s \in Seq(VectorValues)
    /\ Len(s) = p.size
    /\ \A i \in 1 .. p.size : p.cells[i] = s[i]
    /\ \A i \in (p.size + 1) .. Len(p.cells) : p.cells[i] = Vector!Raw

VectorInv ==
    /\ broken = FALSE
    /\ vec \in [Lists -> VectorBlocks] /\ vseqs \in [Lists -> Seq(VectorValues)]
    /\ \A v \in Lists : HoldsElements(vec[v], vseqs[v])

LEMMA BlockFields ==
    ASSUME NEW n \in Nat, NEW c \in Seq(Cells), n <= Len(c)
    PROVE  [size |-> n, cells |-> c] \in VectorBlocks
BY DEF VectorBlocks

LEMMA FieldsOfBlock ==
    ASSUME NEW p \in VectorBlocks
    PROVE  /\ p = [size |-> p.size, cells |-> p.cells]
           /\ p.size \in Nat /\ p.cells \in Seq(Cells) /\ p.size <= Len(p.cells)
           /\ Vector!Capacity(p) = Len(p.cells) /\ Len(p.cells) \in Nat
           /\ DOMAIN p.cells = 1 .. Len(p.cells)
BY DEF VectorBlocks, Vector!Capacity

(* A function on 1 .. n whose values are cells. *)
LEMMA CellsMade ==
    ASSUME NEW n \in Nat, NEW c \in [1 .. n -> Cells]
    PROVE  c \in Seq(Cells) /\ Len(c) = n
OBVIOUS

LEMMA InBlockHolds ==
    ASSUME NEW p, NEW s, HoldsElements(p, s), NEW n \in Nat, n >= p.size
    PROVE  /\ HoldsElements(Vector!InBlock(p, n), s)
           /\ Vector!Capacity(Vector!InBlock(p, n)) = n
           /\ Vector!InBlock(p, n).size = p.size
<1> DEFINE live == SubSeq(p.cells, 1, p.size)
           raw == Vector!RawCells(n - p.size)
<1>1. p \in VectorBlocks /\ n - p.size \in Nat
    BY FieldsOfBlock DEF HoldsElements
<1>2. /\ live \in Seq(Cells) /\ Len(live) = p.size
      /\ \A i \in 1 .. p.size : live[i] = p.cells[i]
    <2>1. p.size \in Nat /\ p.size <= Len(p.cells) /\ p.cells \in Seq(Cells)
        BY <1>1, FieldsOfBlock
    <2>2. \A i \in 1 .. p.size : p.cells[i] \in Cells
        BY <2>1
    <2> QED
        BY <2>1, <2>2, SubSeqProperties
<1>3. /\ raw \in Seq(Cells) /\ Len(raw) = n - p.size
      /\ \A i \in 1 .. (n - p.size) : raw[i] = Vector!Raw
    <2>1. raw \in [1 .. (n - p.size) -> Cells]
        BY DEF Vector!RawCells, Cells
    <2> QED
        BY <1>1, <2>1, CellsMade DEF Vector!RawCells
<1> DEFINE c == live \o raw
<1>4. /\ c \in Seq(Cells) /\ Len(c) = n
      /\ \A i \in 1 .. n : c[i] = IF i <= p.size THEN p.cells[i] ELSE Vector!Raw
    <2>1. p.size \in Nat
        BY <1>1, FieldsOfBlock
    <2> HIDE DEF live, raw
    <2>2. /\ live \o raw \in Seq(Cells) /\ Len(live \o raw) = Len(live) + Len(raw)
          /\ \A i \in 1 .. Len(live) + Len(raw) : (live \o raw)[i] =
                 IF i <= Len(live) THEN live[i] ELSE raw[i - Len(live)]
        BY <1>2, <1>3, ConcatProperties
    <2>3. c = live \o raw
        OBVIOUS
    <2> HIDE DEF c
    <2>4. \A i \in 1 .. n : i > p.size => i - p.size \in 1 .. (n - p.size)
        BY <2>1
    <2> QED
        BY <1>1, <1>2, <1>3, <2>1, <2>2, <2>3, <2>4, SMTT(30)
<1>5. Vector!InBlock(p, n) = [size |-> p.size, cells |-> c]
    <2>1. p = [size |-> p.size, cells |-> p.cells]
        BY <1>1, FieldsOfBlock
    <2>2. Vector!InBlock(p, n) = [p EXCEPT !.cells = c]
        BY DEF Vector!InBlock
    <2> HIDE DEF c
    <2> QED
        BY <2>1, <2>2
<1> HIDE DEF c
<1>6. [size |-> p.size, cells |-> c] \in VectorBlocks
    BY <1>1, <1>4, FieldsOfBlock, BlockFields
<1>7. p.size \in Nat
    BY <1>1, FieldsOfBlock
<1> QED
    BY <1>4, <1>5, <1>6, <1>7 DEF HoldsElements, Vector!Capacity

LEMMA ReservedHolds ==
    ASSUME NEW p, NEW s, HoldsElements(p, s), NEW n \in Nat
    PROVE  /\ HoldsElements(Vector!Reserved(p, n), s)
           /\ Vector!Capacity(Vector!Reserved(p, n)) >= n
           /\ Vector!Reserved(p, n).size = p.size
<1>1. /\ p \in VectorBlocks /\ Vector!Capacity(p) \in Nat
      /\ p.size \in Nat /\ p.size <= Vector!Capacity(p)
    BY FieldsOfBlock DEF HoldsElements
<1>2. EvenBlock(n) \in Nat /\ EvenBlock(n) >= n
    BY DEF EvenBlock
<1>3. CASE n <= Vector!Capacity(p)
    BY <1>1, <1>3 DEF Vector!Reserved
<1>4. CASE n > Vector!Capacity(p)
    <2>1. EvenBlock(n) >= p.size
        BY <1>1, <1>2, <1>4
    <2>2. Vector!Reserved(p, n) = Vector!InBlock(p, EvenBlock(n))
        BY <1>1, <1>4 DEF Vector!Reserved
    <2> QED
        BY <1>2, <2>1, <2>2, InBlockHolds
<1> QED
    BY <1>1, <1>3, <1>4

LEMMA WithRoomHolds ==
    ASSUME NEW p, NEW s, HoldsElements(p, s)
    PROVE  /\ HoldsElements(Vector!WithRoom(p), s)
           /\ Vector!WithRoom(p).size < Vector!Capacity(Vector!WithRoom(p))
           /\ Vector!WithRoom(p).size = p.size
<1>1. /\ p \in VectorBlocks /\ Vector!Capacity(p) \in Nat
      /\ p.size \in Nat /\ p.size <= Vector!Capacity(p)
    BY FieldsOfBlock DEF HoldsElements
<1> DEFINE n == IF Vector!Capacity(p) = 0 THEN 1 ELSE 2 * Vector!Capacity(p)
<1>2. n \in Nat /\ n > Vector!Capacity(p)
    BY <1>1
<1>3. CASE p.size < Vector!Capacity(p)
    BY <1>3 DEF Vector!WithRoom
<1>4. CASE p.size = Vector!Capacity(p)
    <2>1. Vector!WithRoom(p) = Vector!Reserved(p, n)
        BY <1>1, <1>4 DEF Vector!WithRoom
    <2>2. \A q : HoldsElements(q, s) => Vector!Capacity(q) \in Nat
        BY FieldsOfBlock DEF HoldsElements
    <2>3. /\ HoldsElements(Vector!Reserved(p, n), s)
          /\ Vector!Capacity(Vector!Reserved(p, n)) >= n
          /\ Vector!Reserved(p, n).size = p.size
        <3> HIDE DEF n
        <3> QED
            BY <1>2, ReservedHolds
    <2> HIDE DEF n
    <2> QED
        BY <1>1, <1>2, <1>4, <2>1, <2>2, <2>3
<1> QED
    BY <1>1, <1>3, <1>4
(* The cells below the size are alive: each may be destroyed once. *)
LEMMA NoneMissing ==
    ASSUME NEW p, NEW s, HoldsElements(p, s), NEW m \in Nat
    PROVE  ~Vector!Missing(p, m, p.size)
<1> SUFFICES ASSUME NEW i \in (m + 1) .. p.size PROVE p.cells[i] # Vector!Raw
    BY DEF Vector!Missing
<1>1. p.size \in Nat /\ i \in 1 .. p.size
    BY FieldsOfBlock DEF HoldsElements
<1>2. p.cells[i] = s[i] /\ s[i] \in VectorValues
    BY <1>1 DEF HoldsElements
<1> QED
    BY <1>2, VectorAssumption DEF VectorValues

(* What pop_back(), resize() and clear() leave. *)
LEMMA ShrunkHolds ==
    ASSUME NEW p, NEW s, HoldsElements(p, s), NEW n \in 0 .. p.size
    PROVE  HoldsElements([Vector!Destroyed(p, n, p.size) EXCEPT !.size = n], SubSeq(s, 1, n))
<1> DEFINE c == [i \in DOMAIN p.cells |->
                    IF i \in (n + 1) .. p.size THEN Vector!Raw ELSE p.cells[i]]
<1>1. /\ p = [size |-> p.size, cells |-> p.cells]
      /\ p.size \in Nat /\ p.cells \in Seq(Cells) /\ p.size <= Len(p.cells)
      /\ Len(p.cells) \in Nat /\ DOMAIN p.cells = 1 .. Len(p.cells) /\ n \in Nat
    BY FieldsOfBlock DEF HoldsElements
<1>2. [Vector!Destroyed(p, n, p.size) EXCEPT !.size = n] = [size |-> n, cells |-> c]
    <2>1. Vector!Destroyed(p, n, p.size) = [p EXCEPT !.cells = c]
        BY DEF Vector!Destroyed
    <2> HIDE DEF c
    <2>2. [p EXCEPT !.cells = c] = [size |-> p.size, cells |-> c]
        BY <1>1
    <2>3. [[size |-> p.size, cells |-> c] EXCEPT !.size = n] = [size |-> n, cells |-> c]
        OBVIOUS
    <2> QED
        BY <2>1, <2>2, <2>3
<1>3. c \in [1 .. Len(p.cells) -> Cells]
    BY <1>1 DEF Cells
<1>4. c \in Seq(Cells) /\ Len(c) = Len(p.cells)
    <2> HIDE DEF c
    <2> QED
        BY <1>1, <1>3, CellsMade
<1>5. [size |-> n, cells |-> c] \in VectorBlocks
    <2> HIDE DEF c
    <2> QED
        BY <1>1, <1>4, BlockFields
<1>6. /\ SubSeq(s, 1, n) \in Seq(VectorValues) /\ Len(SubSeq(s, 1, n)) = n
      /\ \A i \in 1 .. n : SubSeq(s, 1, n)[i] = s[i]
    <2>1. \A i \in 1 .. n : s[i] \in VectorValues
        BY <1>1 DEF HoldsElements
    <2> QED
        BY <1>1, <2>1, SubSeqProperties
<1>7. \A i \in 1 .. n : c[i] = s[i]
    BY <1>1 DEF HoldsElements
<1>8. \A i \in (n + 1) .. Len(p.cells) : c[i] = Vector!Raw
    BY <1>1 DEF HoldsElements
<1> HIDE DEF c
<1> QED
    BY <1>1, <1>2, <1>4, <1>5, <1>6, <1>7, <1>8 DEF HoldsElements

-----------------------------------------------------------------------------
(* An element is constructed at the end. *)
Added(p, x) ==
    LET q == Vector!WithRoom(p)
    IN  [q EXCEPT !.cells[q.size + 1] = x, !.size = @ + 1]

LEMMA AddedHolds ==
    ASSUME NEW p, NEW s, HoldsElements(p, s), NEW x \in VectorValues
    PROVE  HoldsElements(Added(p, x), Append(s, x))
<1> DEFINE q == Vector!WithRoom(p)
           n == q.size
           c == [q.cells EXCEPT ![n + 1] = x]
<1>1. HoldsElements(q, s) /\ n < Vector!Capacity(q)
    BY WithRoomHolds
<1>2. /\ q = [size |-> n, cells |-> q.cells]
      /\ n \in Nat /\ q.cells \in Seq(Cells)
      /\ Vector!Capacity(q) = Len(q.cells) /\ Len(q.cells) \in Nat
    <2> HIDE DEF q
    <2> QED
        BY <1>1, FieldsOfBlock DEF HoldsElements
<1>3. Added(p, x) = [size |-> n + 1, cells |-> c]
    <2>1. Added(p, x) = [[q EXCEPT !.cells = c] EXCEPT !.size = n + 1]
        BY DEF Added
    <2> HIDE DEF q, c
    <2>2. [q EXCEPT !.cells = c] = [size |-> n, cells |-> c]
        BY <1>2
    <2> HIDE DEF n
    <2> QED
        BY <2>1, <2>2
<1> HIDE DEF q
<1>4. /\ c \in Seq(Cells) /\ Len(c) = Len(q.cells)
      /\ \A i \in 1 .. Len(q.cells) : c[i] = IF i = n + 1 THEN x ELSE q.cells[i]
    BY <1>1, <1>2, ExceptSeq DEF Cells
<1> HIDE DEF c
<1>5. [size |-> n + 1, cells |-> c] \in VectorBlocks
    BY <1>1, <1>2, <1>4, BlockFields, SMTT(30)
<1>6. /\ Append(s, x) \in Seq(VectorValues) /\ Len(Append(s, x)) = n + 1
      /\ \A i \in 1 .. n : Append(s, x)[i] = s[i]
      /\ Append(s, x)[n + 1] = x
    BY <1>1, <1>2, AppendProperties DEF HoldsElements
<1>7. \A i \in 1 .. (n + 1) : c[i] = Append(s, x)[i]
    BY <1>1, <1>2, <1>4, <1>6 DEF HoldsElements
<1>8. \A i \in (n + 2) .. Len(c) : c[i] = Vector!Raw
    BY <1>1, <1>2, <1>4 DEF HoldsElements
<1> HIDE DEF n
<1> QED
    BY <1>2, <1>3, <1>5, <1>6, <1>7, <1>8 DEF HoldsElements

(* The loop that constructs several. *)
LEMMA AppendAllHolds ==
    ASSUME NEW p, NEW s, HoldsElements(p, s), NEW t \in Seq(VectorValues)
    PROVE  HoldsElements(Vector!AppendAll(p, t), s \o t)
<1> DEFINE D(g, n) == IF n = 0 THEN p ELSE Added(g[n - 1], t[n])
           Loop(g) == g = [n \in 0 .. Len(t) |-> D(g, n)]
           after == CHOOSE g : Loop(g)
           S == {q \in VectorBlocks : \E u : HoldsElements(q, u)}
           Step == [i \in 1 .. Len(t) |-> [q \in S |-> Added(q, t[i])]]
<1>1. Vector!AppendAll(p, t) = after[Len(t)]
    BY DEF Vector!AppendAll, Added
<1>2. Len(t) \in Nat /\ p \in S
    BY DEF HoldsElements
<1>3. ASSUME NEW i \in 1 .. Len(t), NEW q \in S
      PROVE  Step[i][q] = Added(q, t[i]) /\ Added(q, t[i]) \in S
    <2>1. PICK u : HoldsElements(q, u)
        OBVIOUS
    <2>2. t[i] \in VectorValues
        BY <1>2
    <2>3. HoldsElements(Added(q, t[i]), Append(u, t[i]))
        BY <2>1, <2>2, AddedHolds
    <2>4. Added(q, t[i]) \in VectorBlocks
        BY <2>3 DEF HoldsElements
    <2> QED
        BY <2>3, <2>4
<1>4. Loop(after)
    <2>1. StaysIn(Len(t), S, Step)
        BY <1>3 DEF StaysIn
    <2>2. PICK g : RunOf(g, Len(t), S, p, Step)
        <3> HIDE DEF S, Step
        <3> QED
            BY <1>2, <2>1, Recursion
    <2>3. ASSUME NEW i \in 0 .. Len(t) PROVE g[i] = D(g, i)
        <3>1. CASE i = 0
            BY <2>2, <3>1 DEF RunOf
        <3>2. CASE i # 0
            <4>1. i \in 1 .. Len(t) /\ i - 1 \in 0 .. Len(t)
                BY <1>2, <3>2
            <4>2. g[i - 1] \in S /\ g[i] = Step[i][g[i - 1]]
                BY <2>2, <4>1 DEF RunOf
            <4> HIDE DEF S, Step
            <4> QED
                BY <1>3, <3>2, <4>1, <4>2
        <3> QED
            BY <3>1, <3>2
    <2>4. Loop(g)
        <3> HIDE DEF D
        <3> QED
            BY <2>2, <2>3 DEF RunOf
    <2> HIDE DEF Loop
    <2> QED
        BY <2>4
<1> DEFINE T == {i \in 0 .. Len(t) : HoldsElements(after[i], s \o SubSeq(t, 1, i))}
<1> HIDE DEF after
<1>5. \A i \in 0 .. Len(t) : after[i] = D(after, i)
    <2> HIDE DEF D
    <2> QED
        BY <1>4
<1>6. s \in Seq(VectorValues)
    BY DEF HoldsElements
<1>7. 0 \in T
    <2>1. s \o SubSeq(t, 1, 0) = s
        <3>1. SubSeq(t, 1, 0) = << >>
            BY SubSeqEmpty
        <3> QED
            BY <1>6, <3>1, ConcatEmptySeq
    <2>2. after[0] = p
        BY <1>2, <1>5
    <2>3. HoldsElements(after[0], s \o SubSeq(t, 1, 0))
        BY <2>1, <2>2
    <2> QED
        BY <1>2, <2>3
<1>8. ASSUME NEW i \in 1 .. Len(t), i - 1 \in T PROVE i \in T
    <2>1. i \in 0 .. Len(t) /\ after[i] = Added(after[i - 1], t[i]) /\ t[i] \in VectorValues
        BY <1>2, <1>5
    <2>2. HoldsElements(after[i], Append(s \o SubSeq(t, 1, i - 1), t[i]))
        BY <1>8, <2>1, AddedHolds
    <2>3. Append(s \o SubSeq(t, 1, i - 1), t[i]) = s \o SubSeq(t, 1, i)
        <3> DEFINE a == SubSeq(t, 1, i - 1)
                   b == SubSeq(t, 1, i)
        <3>1. \A j \in 1 .. Len(t) : t[j] \in VectorValues
            OBVIOUS
        <3>2. /\ a \in Seq(VectorValues) /\ Len(a) = i - 1
              /\ \A j \in 1 .. (i - 1) : a[j] = t[j]
            <4>1. \A j \in 1 .. (i - 1) : t[j] \in VectorValues
                BY <1>2
            <4> QED
                BY <1>2, <4>1, SubSeqProperties
        <3>3. /\ b \in Seq(VectorValues) /\ Len(b) = i
              /\ \A j \in 1 .. i : b[j] = t[j]
            <4>1. \A j \in 1 .. i : t[j] \in VectorValues
                BY <1>2
            <4> QED
                BY <1>2, <4>1, SubSeqProperties
        <3> HIDE DEF a, b
        <3>4. b = Append(a, t[i])
            <4>1. /\ Append(a, t[i]) \in Seq(VectorValues) /\ Len(Append(a, t[i])) = i
                  /\ \A j \in 1 .. (i - 1) : Append(a, t[i])[j] = t[j]
                  /\ Append(a, t[i])[i] = t[i]
                BY <2>1, <3>2, AppendProperties
            <4>2. \A j \in 1 .. i : Append(a, t[i])[j] = b[j]
                BY <1>2, <3>3, <4>1
            <4> QED
                BY <3>3, <4>1, <4>2, SameSequence
        <3>5. Append(s \o a, t[i]) = s \o Append(a, t[i])
            <4>1. a \in Seq(VectorValues) /\ t[i] \in VectorValues
                BY <2>1, <3>2
            <4>2. AppendsAfter(s, a, t[i])
                BY <1>6, <4>1, AppendAfter
            <4> QED
                BY <4>2, Zenon DEF AppendsAfter
        <3> QED
            BY <3>4, <3>5 DEF a, b
    <2> QED
        BY <2>1, <2>2, <2>3
<1>9. Len(t) \in T
    <2> HIDE DEF T
    <2>1. Len(t) \in 0 .. Len(t)
        BY <1>2
    <2> QED
        BY <1>2, <1>7, <1>8, <2>1, Induction
<1> QED
    BY <1>1, <1>9, SubSeqFull
-----------------------------------------------------------------------------
(* One vector becomes p, the others are left alone. *)
LEMMA PutHolds ==
    ASSUME VectorInv, NEW v \in Lists, NEW p, NEW s, HoldsElements(p, s),
           NEW m, ~m, Vector!Put(v, p, m), Vector!Becomes(v, s)
    PROVE  VectorInv'
<1>1. p \in VectorBlocks /\ s \in Seq(VectorValues)
    BY DEF HoldsElements
<1>2. /\ vec' = [vec EXCEPT ![v] = p] /\ vseqs' = [vseqs EXCEPT ![v] = s]
      /\ broken' = FALSE
    BY DEF VectorInv, Vector!Put, Vector!Becomes
<1>3. /\ vec' \in [Lists -> VectorBlocks] /\ vseqs' \in [Lists -> Seq(VectorValues)]
      /\ \A w \in Lists : /\ vec'[w] = IF w = v THEN p ELSE vec[w]
                          /\ vseqs'[w] = IF w = v THEN s ELSE vseqs[w]
    BY <1>1, <1>2 DEF VectorInv
<1>4. ASSUME NEW w \in Lists PROVE HoldsElements(vec'[w], vseqs'[w])
    BY <1>3 DEF VectorInv
<1> QED
    BY <1>2, <1>3, <1>4 DEF VectorInv

LEMMA InVector ==
    ASSUME VectorInv, NEW v \in Lists
    PROVE  /\ HoldsElements(vec[v], vseqs[v])
           /\ vec[v].size \in Nat /\ Vector!Capacity(vec[v]) \in Nat
           /\ vec[v].size <= Vector!Capacity(vec[v])
           /\ vseqs[v] \in Seq(VectorValues) /\ Len(vseqs[v]) = vec[v].size
           /\ vec[v] = [size |-> vec[v].size, cells |-> vec[v].cells]
<1>1. HoldsElements(vec[v], vseqs[v])
    BY DEF VectorInv
<1> QED
    BY <1>1, FieldsOfBlock DEF HoldsElements

(* What changes the capacity only. *)
LEMMA CapacityChanges ==
    ASSUME VectorInv, NEW v \in Lists, NEW p, HoldsElements(p, vseqs[v]),
           Vector!Put(v, p, FALSE), UNCHANGED vseqs
    PROVE  VectorInv'
<1>1. Vector!Becomes(v, vseqs[v])
    BY DEF VectorInv, Vector!Becomes
<1> QED
    BY <1>1, PutHolds

LEMMA VectorCapacitySteps ==
    ASSUME VectorInv, NEW v \in Lists
    PROVE  /\ \A n \in Nat : Vector!Reserve(v, n) => VectorInv'
           /\ Vector!ShrinkToFit(v) => VectorInv'
<1>1. ASSUME NEW n \in Nat, Vector!Reserve(v, n) PROVE VectorInv'
    BY <1>1, InVector, ReservedHolds, CapacityChanges DEF Vector!Reserve
<1>2. ASSUME Vector!ShrinkToFit(v) PROVE VectorInv'
    <2>1. HoldsElements(vec[v], vseqs[v]) /\ vec[v].size \in Nat
        BY InVector
    <2>2. HoldsElements(Vector!InBlock(vec[v], vec[v].size), vseqs[v])
        BY <2>1, InBlockHolds
    <2> QED
        BY <1>2, <2>2, CapacityChanges DEF Vector!ShrinkToFit
<1> QED
    BY <1>1, <1>2

LEMMA VectorPushBack ==
    ASSUME VectorInv, NEW v \in Lists, NEW x \in VectorValues, Vector!PushBack(v, x)
    PROVE  VectorInv'
<1>1. HoldsElements(vec[v], vseqs[v]) /\ vseqs[v] \in Seq(VectorValues)
    BY InVector
<1>2. CASE Vector!Put(v, Vector!AppendAll(vec[v], <<x>>), FALSE) /\ Vector!Becomes(v, Append(vseqs[v], x))
    <2>1. <<x>> \in Seq(VectorValues)
        OBVIOUS
    <2>2. HoldsElements(Vector!AppendAll(vec[v], <<x>>), vseqs[v] \o <<x>>)
        BY <1>1, <2>1, AppendAllHolds
    <2>3. Append(vseqs[v], x) = vseqs[v] \o <<x>>
        BY <1>1, AppendIsConcat
    <2> QED
        BY <1>2, <2>2, <2>3, PutHolds
<1>3. CASE Vector!Put(v, Vector!WithRoom(vec[v]), FALSE) /\ UNCHANGED vseqs
    BY <1>1, <1>3, WithRoomHolds, CapacityChanges
<1> QED
    BY <1>2, <1>3 DEF Vector!PushBack

LEMMA VectorShrinkSteps ==
    ASSUME VectorInv, NEW v \in Lists
    PROVE  /\ Vector!PopBack(v) => VectorInv'
           /\ Vector!Clear(v) => VectorInv'
<1>1. /\ HoldsElements(vec[v], vseqs[v]) /\ vec[v].size \in Nat
      /\ vseqs[v] \in Seq(VectorValues) /\ Len(vseqs[v]) = vec[v].size
    BY InVector
<1>2. ASSUME Vector!PopBack(v) PROVE VectorInv'
    <2> DEFINE n == vec[v].size
    <2>1. n - 1 \in 0 .. n /\ n - 1 \in Nat
        BY <1>1, <1>2 DEF Vector!PopBack
    <2>2. /\ HoldsElements([Vector!Destroyed(vec[v], n - 1, n) EXCEPT !.size = n - 1],
                           SubSeq(vseqs[v], 1, n - 1))
          /\ ~Vector!Missing(vec[v], n - 1, n)
        BY <1>1, <2>1, ShrunkHolds, NoneMissing
    <2>3. Vector!Front(vseqs[v]) = SubSeq(vseqs[v], 1, n - 1)
        BY <1>1 DEF Vector!Front
    <2>4. /\ Vector!Put(v, [Vector!Destroyed(vec[v], n - 1, n) EXCEPT !.size = n - 1],
                        Vector!Missing(vec[v], n - 1, n))
          /\ Vector!Becomes(v, Vector!Front(vseqs[v]))
        BY <1>2 DEF Vector!PopBack
    <2> QED
        BY <2>2, <2>3, <2>4, PutHolds
<1>3. ASSUME Vector!Clear(v) PROVE VectorInv'
    <2>1. 0 \in 0 .. vec[v].size /\ SubSeq(vseqs[v], 1, 0) = << >>
        BY <1>1, SubSeqEmpty
    <2>2. HoldsElements([Vector!Destroyed(vec[v], 0, vec[v].size) EXCEPT !.size = 0],
                        << >>)
        BY <1>1, <2>1, ShrunkHolds
    <2>3. ~Vector!Missing(vec[v], 0, vec[v].size)
        BY <1>1, NoneMissing
    <2>4. /\ Vector!Put(v, [Vector!Destroyed(vec[v], 0, vec[v].size) EXCEPT !.size = 0],
                        Vector!Missing(vec[v], 0, vec[v].size))
          /\ Vector!Becomes(v, << >>)
        BY <1>3 DEF Vector!Clear
    <2> QED
        BY <2>2, <2>3, <2>4, PutHolds
<1> QED
    BY <1>2, <1>3

LEMMA VectorResize ==
    ASSUME VectorInv, NEW v \in Lists, NEW n \in Nat, NEW x \in VectorValues,
           Vector!Resize(v, n, x)
    PROVE  VectorInv'
<1> DEFINE p == vec[v]
<1>1. HoldsElements(p, vseqs[v]) /\ p.size \in Nat
    BY InVector
<1>2. CASE n < p.size
    <2>1. n \in 0 .. p.size
        BY <1>1, <1>2
    <2>2. /\ HoldsElements([Vector!Destroyed(p, n, p.size) EXCEPT !.size = n], SubSeq(vseqs[v], 1, n))
          /\ ~Vector!Missing(p, n, p.size)
        BY <1>1, <2>1, ShrunkHolds, NoneMissing
    <2>3. /\ Vector!Put(v, [Vector!Destroyed(p, n, p.size) EXCEPT !.size = n],
                        Vector!Missing(p, n, p.size))
          /\ Vector!Becomes(v, SubSeq(vseqs[v], 1, n))
        BY <1>2 DEF Vector!Resize
    <2> QED
        BY <2>2, <2>3, PutHolds
<1>3. CASE ~(n < p.size)
    <2>1. PICK k \in 0 .. n - p.size :
              /\ Vector!Put(v, Vector!AppendAll(Vector!Reserved(p, n), [i \in 1 .. k |-> x]), FALSE)
              /\ Vector!Becomes(v, vseqs[v] \o [i \in 1 .. k |-> x])
        BY <1>3, Zenon DEF Vector!Resize
    <2> DEFINE added == [i \in 1 .. k |-> x]
    <2>2. added \in Seq(VectorValues)
        OBVIOUS
    <2>3. HoldsElements(Vector!Reserved(p, n), vseqs[v])
        BY <1>1, ReservedHolds
    <2>4. HoldsElements(Vector!AppendAll(Vector!Reserved(p, n), added), vseqs[v] \o added)
        BY <2>2, <2>3, AppendAllHolds
    <2> QED
        BY <2>1, <2>4, PutHolds
<1> QED
    BY <1>2, <1>3
(* emplace() before another element. *)
LEMMA InsertedHolds ==
    ASSUME NEW p, NEW s, HoldsElements(p, s), p.size < Len(p.cells),
           NEW index \in Nat, index < p.size, NEW x \in VectorValues
    PROVE  LET up == Vector!Shifted(p.cells, p.size, index)
           IN  /\ up[index + 1] # Vector!Raw
               /\ HoldsElements([p EXCEPT !.cells = [up EXCEPT ![index + 1] = x], !.size = @ + 1],
                                Vector!InsertAt(s, index + 1, x))
<1> DEFINE n == p.size
           up == Vector!Shifted(p.cells, n, index)
           c == [up EXCEPT ![index + 1] = x]
           longer == Vector!InsertAt(s, index + 1, x)
<1>1. /\ p = [size |-> n, cells |-> p.cells]
      /\ n \in Nat /\ p.cells \in Seq(Cells) /\ n < Len(p.cells)
      /\ Len(p.cells) \in Nat /\ DOMAIN p.cells = 1 .. Len(p.cells)
    BY FieldsOfBlock DEF HoldsElements
<1>2. /\ s \in Seq(VectorValues) /\ Len(s) = n
      /\ \A i \in 1 .. n : p.cells[i] = s[i] /\ s[i] \in VectorValues
      /\ \A i \in (n + 1) .. Len(p.cells) : p.cells[i] = Vector!Raw
    BY <1>1 DEF HoldsElements
<1>3. [p EXCEPT !.cells = c, !.size = @ + 1] = [size |-> n + 1, cells |-> c]
    <2>1. [p EXCEPT !.cells = c, !.size = @ + 1] = [[p EXCEPT !.cells = c] EXCEPT !.size = n + 1]
        OBVIOUS
    <2> HIDE DEF c, n
    <2>2. [p EXCEPT !.cells = c] = [size |-> n, cells |-> c]
        BY <1>1
    <2>3. [[size |-> n, cells |-> c] EXCEPT !.size = n + 1] = [size |-> n + 1, cells |-> c]
        OBVIOUS
    <2> QED
        BY <2>1, <2>2, <2>3
<1> HIDE DEF n
<1>4. /\ up \in [1 .. Len(p.cells) -> Cells]
      /\ \A i \in 1 .. Len(p.cells) :
             up[i] = IF i \in (index + 2) .. (n + 1) THEN p.cells[i - 1] ELSE p.cells[i]
    BY <1>1 DEF Vector!Shifted
<1>5. index < n
    BY DEF n
<1> HIDE DEF up
<1>6. up[index + 1] # Vector!Raw
    <2>1. up[index + 1] = s[index + 1] /\ s[index + 1] \in VectorValues
        BY <1>1, <1>2, <1>4, <1>5, SMTT(30)
    <2> QED
        BY <2>1, VectorAssumption, Zenon DEF VectorValues
<1>7. /\ c \in [1 .. Len(p.cells) -> Cells]
      /\ \A i \in 1 .. Len(p.cells) : c[i] = IF i = index + 1 THEN x ELSE up[i]
    BY <1>4 DEF Cells
<1> HIDE DEF c
<1>8. c \in Seq(Cells) /\ Len(c) = Len(p.cells)
    BY <1>1, <1>7, CellsMade
<1>9. [size |-> n + 1, cells |-> c] \in VectorBlocks
    <2>1. n + 1 \in Nat /\ n + 1 <= Len(c)
        BY <1>1, <1>8
    <2> QED
        BY <1>8, <2>1, BlockFields
<1>10. /\ longer \in Seq(VectorValues) /\ Len(longer) = n + 1
       /\ \A i \in 1 .. index : longer[i] = s[i]
       /\ longer[index + 1] = x
       /\ \A i \in (index + 1) .. n : longer[i + 1] = s[i]
    <2> DEFINE r == SubSeq(s, 1, index) \o <<x>> \o SubSeq(s, index + 1, Len(s))
    <2>1. index \in 0 .. Len(s) /\ <<x>> \in Seq(VectorValues) /\ Len(<<x>>) = 1 /\ <<x>>[1] = x
        BY <1>1, <1>2, <1>5
    <2>2. longer = r
        <3>1. SubSeq(s, 1, (index + 1) - 1) = SubSeq(s, 1, index)
            OBVIOUS
        <3> QED
            BY <3>1, Zenon DEF Vector!InsertAt
    <2>3. /\ r \in Seq(VectorValues) /\ Len(r) = Len(s) + Len(<<x>>)
          /\ \A i \in 1 .. index : r[i] = s[i]
          /\ \A i \in 1 .. Len(<<x>>) : r[index + i] = <<x>>[i]
          /\ \A i \in (index + 1) .. Len(s) : r[Len(<<x>>) + i] = s[i]
        BY <1>2, <2>1, Spliced, SMTT(30)
    <2> HIDE DEF longer, r
    <2> QED
        BY <1>1, <1>2, <1>5, <2>1, <2>2, <2>3
<1> HIDE DEF longer
<1>11. ASSUME NEW i \in 1 .. (n + 1) PROVE c[i] = longer[i]
    <2>1. CASE i <= index
        <3>1. /\ i \in 1 .. index /\ i \in 1 .. n /\ i \in 1 .. Len(p.cells)
              /\ i # index + 1 /\ i \notin (index + 2) .. (n + 1)
            BY <1>1, <1>5, <2>1
        <3> QED
            BY <1>2, <1>4, <1>7, <1>10, <3>1
    <2>2. CASE i = index + 1
        BY <1>1, <1>7, <1>10, <2>2
    <2>3. CASE i > index + 1
        <3>1. i - 1 \in (index + 1) .. n /\ i - 1 \in 1 .. n /\ (i - 1) + 1 = i
            BY <1>1, <2>3
        <3>2. c[i] = p.cells[i - 1]
            BY <1>1, <1>4, <1>7, <2>3
        <3> QED
            BY <1>2, <1>10, <3>1, <3>2
    <2> QED
        BY <1>1, <2>1, <2>2, <2>3
<1>12. \A i \in (n + 2) .. Len(c) : c[i] = Vector!Raw
    BY <1>1, <1>2, <1>4, <1>5, <1>7, <1>8
<1>13. HoldsElements([size |-> n + 1, cells |-> c], longer)
    BY <1>1, <1>9, <1>10, <1>11, <1>12 DEF HoldsElements
<1> QED
    BY <1>3, <1>6, <1>13 DEF n, up, c, longer

(* erase() *)
LEMMA ErasedHolds ==
    ASSUME NEW p, NEW s, HoldsElements(p, s), NEW index \in Nat, index < p.size, NEW c,
           c = [i \in DOMAIN p.cells |->
                   IF i \in (index + 1) .. (p.size - 1) THEN p.cells[i + 1]
                   ELSE IF i = p.size - 1 + 1 THEN Vector!Raw ELSE p.cells[i]]
    PROVE  HoldsElements([size |-> p.size - 1, cells |-> c], Vector!RemoveAt(s, index + 1))
<1> DEFINE n == p.size
           shorter == Vector!RemoveAt(s, index + 1)
<1>1. /\ n \in Nat /\ p.cells \in Seq(Cells) /\ n <= Len(p.cells)
      /\ Len(p.cells) \in Nat /\ DOMAIN p.cells = 1 .. Len(p.cells)
    BY FieldsOfBlock DEF HoldsElements
<1>2. /\ s \in Seq(VectorValues) /\ Len(s) = n
      /\ \A i \in 1 .. n : p.cells[i] = s[i] /\ s[i] \in VectorValues
      /\ \A i \in (n + 1) .. Len(p.cells) : p.cells[i] = Vector!Raw
    BY <1>1 DEF HoldsElements
<1>3. index < n
    OBVIOUS
<1> HIDE DEF n
<1>4. /\ c \in [1 .. Len(p.cells) -> Cells]
      /\ \A i \in 1 .. Len(p.cells) :
             c[i] = IF i \in (index + 1) .. (n - 1) THEN p.cells[i + 1]
                    ELSE IF i = n THEN Vector!Raw ELSE p.cells[i]
    BY <1>1, <1>3 DEF Cells, n
<1>5. c \in Seq(Cells) /\ Len(c) = Len(p.cells)
    BY <1>1, <1>4, CellsMade
<1>6. [size |-> n - 1, cells |-> c] \in VectorBlocks
    <2>1. n - 1 \in Nat /\ n - 1 <= Len(c)
        BY <1>1, <1>3, <1>5
    <2> QED
        BY <1>5, <2>1, BlockFields
<1>7. /\ shorter \in Seq(VectorValues) /\ Len(shorter) = n - 1
      /\ \A i \in 1 .. index : shorter[i] = s[i]
      /\ \A i \in (index + 1) .. (n - 1) : shorter[i] = s[i + 1]
    <2> DEFINE r == SubSeq(s, 1, index) \o SubSeq(s, index + 2, Len(s))
    <2>1. index \in 0 .. (Len(s) - 1)
        BY <1>1, <1>2, <1>3
    <2>2. shorter = r
        <3>1. /\ SubSeq(s, 1, (index + 1) - 1) = SubSeq(s, 1, index)
              /\ SubSeq(s, (index + 1) + 1, Len(s)) = SubSeq(s, index + 2, Len(s))
            OBVIOUS
        <3> QED
            BY <3>1, Zenon DEF Vector!RemoveAt
    <2>3. /\ r \in Seq(VectorValues) /\ Len(r) = Len(s) - 1
          /\ \A i \in 1 .. index : r[i] = s[i]
          /\ \A i \in (index + 1) .. Len(s) - 1 : r[i] = s[i + 1]
        BY <1>2, <2>1, Removed
    <2> HIDE DEF shorter, r
    <2> QED
        BY <1>1, <1>2, <2>2, <2>3
<1> HIDE DEF shorter
<1>8. ASSUME NEW i \in 1 .. (n - 1) PROVE c[i] = shorter[i]
    <2>1. CASE i <= index
        <3>1. /\ i \in 1 .. index /\ i \in 1 .. n /\ i \in 1 .. Len(p.cells)
              /\ i # n /\ i \notin (index + 1) .. (n - 1)
            BY <1>1, <1>3, <2>1
        <3> QED
            BY <1>2, <1>4, <1>7, <3>1
    <2>2. CASE i > index
        <3>1. /\ i \in (index + 1) .. (n - 1) /\ i + 1 \in 1 .. n /\ i \in 1 .. Len(p.cells)
            BY <1>1, <1>3, <2>2
        <3> QED
            BY <1>2, <1>4, <1>7, <3>1
    <2> QED
        BY <1>1, <2>1, <2>2
<1>9. ASSUME NEW i \in n .. Len(c) PROVE c[i] = Vector!Raw
    <2>1. i \in 1 .. Len(p.cells) /\ i \notin (index + 1) .. (n - 1) /\ (i # n => i \in (n + 1) .. Len(p.cells))
        BY <1>1, <1>3, <1>5
    <2> QED
        BY <1>2, <1>4, <2>1
<1>10. HoldsElements([size |-> n - 1, cells |-> c], shorter)
    <2> DEFINE q == [size |-> n - 1, cells |-> c]
    <2>1. q.size = n - 1 /\ q.cells = c /\ (n - 1) + 1 = n
        BY <1>1
    <2> HIDE DEF q
    <2>2. HoldsElements(q, shorter)
        BY <1>6, <1>7, <1>8, <1>9, <2>1 DEF HoldsElements, q
    <2> QED
        BY <2>2 DEF q
<1> QED
    BY <1>10 DEF n, shorter

LEMMA VectorShiftSteps ==
    ASSUME VectorInv, ThrowsInMiddle = FALSE, NEW v \in Lists, NEW index \in Nat
    PROVE  /\ \A x \in VectorValues : Vector!EmplaceInside(v, index, x) => VectorInv'
           /\ Vector!Erase(v, index) => VectorInv'
<1> DEFINE s == vseqs[v]
<1>1. ASSUME NEW x \in VectorValues, Vector!EmplaceInside(v, index, x) PROVE VectorInv'
    <2> DEFINE p == Vector!WithRoom(vec[v])
               up == Vector!Shifted(p.cells, p.size, index)
               q == [p EXCEPT !.cells = [up EXCEPT ![index + 1] = x], !.size = @ + 1]
    <2>1. /\ HoldsElements(p, s) /\ p.size < Vector!Capacity(p) /\ p.size = vec[v].size
        BY InVector, WithRoomHolds
    <2>2. p.size < Len(p.cells) /\ index < p.size
        BY <1>1, <2>1 DEF Vector!EmplaceInside, Vector!Capacity
    <2>3. /\ Vector!Put(v, q, up[index + 1] = Vector!Raw)
          /\ Vector!Becomes(v, Vector!InsertAt(s, index + 1, x))
        BY <1>1, Zenon DEF Vector!EmplaceInside
    <2>4. up[index + 1] # Vector!Raw /\ HoldsElements(q, Vector!InsertAt(s, index + 1, x))
        BY <2>1, <2>2, InsertedHolds
    <2> HIDE DEF q, up, s
    <2> QED
        BY <2>3, <2>4, PutHolds
<1>2. ASSUME Vector!Erase(v, index) PROVE VectorInv'
    <2> DEFINE p == vec[v]
               c == [i \in DOMAIN p.cells |->
                        IF i \in (index + 1) .. (p.size - 1) THEN p.cells[i + 1]
                        ELSE IF i = p.size - 1 + 1 THEN Vector!Raw ELSE p.cells[i]]
               q == [size |-> p.size - 1, cells |-> c]
    <2>1. HoldsElements(p, s)
        BY InVector
    <2>2. /\ index < p.size
          /\ Vector!Put(v, q, Vector!Missing(p, index, p.size))
          /\ Vector!Becomes(v, Vector!RemoveAt(s, index + 1))
        BY <1>2, Zenon DEF Vector!Erase
    <2>3. HoldsElements(q, Vector!RemoveAt(s, index + 1))
        BY <2>1, <2>2, ErasedHolds
    <2>4. ~Vector!Missing(p, index, p.size)
        BY <2>1, NoneMissing
    <2> HIDE DEF q, s, p
    <2> QED
        BY <2>2, <2>3, <2>4, PutHolds
<1> QED
    BY <1>1, <1>2
(* Both assignments. *)
LEMMA VectorAssignSteps ==
    ASSUME VectorInv, NEW v \in Lists, NEW w \in Lists
    PROVE  /\ Vector!CopyAssign(v, w) => VectorInv'
           /\ Vector!MoveAssign(v, w) => VectorInv'
<1> DEFINE p == vec[v]
           empty == [Vector!Destroyed(p, 0, p.size) EXCEPT !.size = 0]
<1>1. /\ HoldsElements(p, vseqs[v]) /\ p.size \in Nat
      /\ HoldsElements(vec[w], vseqs[w]) /\ vec[w].size \in Nat
      /\ vseqs[w] \in Seq(VectorValues) /\ Len(vseqs[w]) = vec[w].size
    BY InVector
<1>2. ~Vector!Missing(p, 0, p.size)
    BY <1>1, NoneMissing
<1>3. ASSUME Vector!CopyAssign(v, w) PROVE VectorInv'
    <2>1. PICK k \in 0 .. vec[w].size :
              /\ Vector!Put(v, Vector!AppendAll(Vector!Reserved(empty, vec[w].size),
                                                SubSeq(vec[w].cells, 1, k)),
                            Vector!Missing(p, 0, p.size))
              /\ Vector!Becomes(v, SubSeq(vseqs[w], 1, k))
        BY <1>3, Zenon DEF Vector!CopyAssign
    <2> DEFINE t == SubSeq(vseqs[w], 1, k)
    <2>2. HoldsElements(Vector!Reserved(empty, vec[w].size), << >>)
        <3>1. 0 \in 0 .. p.size /\ SubSeq(vseqs[v], 1, 0) = << >>
            BY <1>1, SubSeqEmpty
        <3>2. HoldsElements(empty, << >>)
            BY <1>1, <3>1, ShrunkHolds
        <3> HIDE DEF empty
        <3> QED
            BY <1>1, <3>2, ReservedHolds
    <2>3. t \in Seq(VectorValues) /\ SubSeq(vec[w].cells, 1, k) = t
        <3>1. k \in Nat /\ \A i \in 1 .. k : vseqs[w][i] \in VectorValues /\ vec[w].cells[i] = vseqs[w][i]
            BY <1>1 DEF HoldsElements
        <3>2. /\ t \in Seq(VectorValues) /\ Len(t) = k
              /\ \A i \in 1 .. k : t[i] = vseqs[w][i]
            BY <3>1, SubSeqProperties
        <3> DEFINE u == SubSeq(vec[w].cells, 1, k)
        <3>3. /\ u \in Seq(VectorValues) /\ Len(u) = k
              /\ \A i \in 1 .. k : u[i] = vec[w].cells[i]
            BY <3>1, SubSeqProperties
        <3> HIDE DEF t, u
        <3>4. u = t
            BY <3>1, <3>2, <3>3
        <3> QED
            BY <3>2, <3>4 DEF u
    <2> HIDE DEF t, empty, p
    <2>4. HoldsElements(Vector!AppendAll(Vector!Reserved(empty, vec[w].size), t), << >> \o t)
        BY <2>2, <2>3, AppendAllHolds
    <2>5. << >> \o t = t
        BY <2>3, ConcatEmptySeq
    <2>6. HoldsElements(Vector!AppendAll(Vector!Reserved(empty, vec[w].size), t), t)
        BY <2>4, <2>5
    <2>7. /\ Vector!Put(v, Vector!AppendAll(Vector!Reserved(empty, vec[w].size), t),
                        Vector!Missing(p, 0, p.size))
          /\ Vector!Becomes(v, t)
        BY <2>1, <2>3 DEF t
    <2> QED
        BY <1>2, <2>6, <2>7, PutHolds
<1>4. ASSUME Vector!MoveAssign(v, w) PROVE VectorInv'
    <2>1. /\ v # w /\ vec' = [vec EXCEPT ![v] = vec[w], ![w] = Vector!Empty]
          /\ broken' = FALSE
          /\ vseqs' = [vseqs EXCEPT ![v] = vseqs[w], ![w] = << >>]
        BY <1>2, <1>4 DEF VectorInv, Vector!MoveAssign
    <2>2. HoldsElements(Vector!Empty, << >>)
        BY DEF HoldsElements, Vector!Empty, VectorBlocks
    <2>3. /\ vec' \in [Lists -> VectorBlocks] /\ vseqs' \in [Lists -> Seq(VectorValues)]
          /\ \A u \in Lists :
                 /\ vec'[u] = IF u = w THEN Vector!Empty ELSE IF u = v THEN vec[w] ELSE vec[u]
                 /\ vseqs'[u] = IF u = w THEN << >> ELSE IF u = v THEN vseqs[w] ELSE vseqs[u]
        <3>1. Vector!Empty \in VectorBlocks
            BY <2>2 DEF HoldsElements
        <3>2. vec \in [Lists -> VectorBlocks] /\ vseqs \in [Lists -> Seq(VectorValues)]
            BY DEF VectorInv
        <3>3. vec' \in [Lists -> VectorBlocks]
            BY <2>1, <3>1, <3>2
        <3>4. vseqs' \in [Lists -> Seq(VectorValues)]
            BY <2>1, <3>2, SMTT(30)
        <3> QED
            BY <2>1, <3>2, <3>3, <3>4
    <2>4. ASSUME NEW u \in Lists PROVE HoldsElements(vec'[u], vseqs'[u])
        BY <2>2, <2>3 DEF VectorInv
    <2> QED
        BY <2>1, <2>3, <2>4 DEF VectorInv
<1> QED
    BY <1>3, <1>4

LEMMA VectorHolds == VectorInv => Vector!VectorsHoldElements
<1> SUFFICES ASSUME VectorInv, NEW v \in Lists
             PROVE  /\ ~Vector!Stray(vec[v])
                    /\ SubSeq(vec[v].cells, 1, vec[v].size) = vseqs[v]
    BY DEF Vector!VectorsHoldElements, VectorInv
<1> DEFINE p == vec[v]
           s == vseqs[v]
           u == SubSeq(p.cells, 1, p.size)
<1>1. HoldsElements(p, s) /\ p.size \in Nat
    BY InVector
<1>2. \A i \in 1 .. p.size : p.cells[i] \in VectorValues /\ p.cells[i] = s[i]
    BY <1>1 DEF HoldsElements
<1>3. u \in Seq(VectorValues) /\ Len(u) = p.size /\ \A i \in 1 .. p.size : u[i] = p.cells[i]
    BY <1>1, <1>2, SubSeqProperties
<1> HIDE DEF u
<1>4. u = s
    BY <1>1, <1>2, <1>3 DEF HoldsElements
<1>5. ~Vector!Stray(p)
    BY <1>1, FieldsOfBlock DEF HoldsElements, Vector!Stray
<1> QED
    BY <1>4, <1>5 DEF u

(* Vectors that are constructed, when no constructor of an element throws. *)
LEMMA Constructed ==
    ASSUME ThrowsInConstructor = FALSE, VectorInv, NEW v \in Lists,
           NEW t \in Seq(VectorValues), Vector!Construct(v, t, t)
    PROVE  VectorInv'
<1> DEFINE p == vec[v]
           q == Vector!AppendAll(Vector!Reserved(Vector!Empty, Len(t)), t)
<1>1. Vector!Put(v, q, Vector!Missing(p, 0, p.size)) /\ Vector!Becomes(v, t)
    BY Zenon DEF Vector!Construct
<1>2. ~Vector!Missing(p, 0, p.size)
    BY InVector, NoneMissing
<1>3. HoldsElements(Vector!Empty, << >>) /\ Len(t) \in Nat
    BY DEF HoldsElements, Vector!Empty, VectorBlocks
<1>4. HoldsElements(Vector!Reserved(Vector!Empty, Len(t)), << >>)
    BY <1>3, ReservedHolds
<1>5. HoldsElements(q, << >> \o t) /\ << >> \o t = t
    BY <1>4, AppendAllHolds, ConcatEmptySeq
<1> HIDE DEF q, p
<1> QED
    BY <1>1, <1>2, <1>5, PutHolds DEF p

LEMMA VectorConstructSteps ==
    ASSUME ThrowsInConstructor = FALSE, VectorInv, NEW v \in Lists
    PROVE  /\ \A n \in Nat, x \in VectorValues : Vector!ConstructFilled(v, n, x) => VectorInv'
           /\ \A w \in Lists : Vector!ConstructCopy(v, w) => VectorInv'
<1>1. ASSUME NEW n \in Nat, NEW x \in VectorValues, Vector!ConstructFilled(v, n, x)
      PROVE  VectorInv'
    <2>1. [i \in 1 .. n |-> x] \in Seq(VectorValues)
        OBVIOUS
    <2> QED
        BY <1>1, <2>1, Constructed DEF Vector!ConstructFilled
<1>2. ASSUME NEW w \in Lists, Vector!ConstructCopy(v, w) PROVE VectorInv'
    <2>1. SubSeq(vec[w].cells, 1, vec[w].size) = vseqs[w]
        BY VectorHolds DEF Vector!VectorsHoldElements
    <2>2. vseqs[w] \in Seq(VectorValues)
        BY InVector
    <2> QED
        BY <1>2, <2>1, <2>2, Constructed DEF Vector!ConstructCopy
<1> QED
    BY <1>1, <1>2

LEMMA VectorInit == Vector!Init => VectorInv
<1> SUFFICES ASSUME Vector!Init PROVE VectorInv
    OBVIOUS
<1>1. HoldsElements(Vector!Empty, << >>)
    BY DEF HoldsElements, Vector!Empty, VectorBlocks
<1>2. Vector!Empty \in VectorBlocks
    BY <1>1 DEF HoldsElements
<1> QED
    BY <1>1, <1>2 DEF Vector!Init, VectorInv

LEMMA VectorStep ==
    ASSUME ThrowsInMiddle = FALSE, ThrowsInConstructor = FALSE, AliasedArguments = FALSE,
           VectorInv, [Vector!Next]_(Vector!vars)
    PROVE  VectorInv'
<1>1. CASE UNCHANGED Vector!vars
    BY <1>1 DEF Vector!vars, VectorInv
<1>2. CASE Vector!Next
    <2>1. PICK v \in Lists :
              \/ \E n \in 0 .. MaxSize :
                     \/ Vector!Reserve(v, n)
                     \/ \E x \in VectorValues : Vector!Resize(v, n, x) \/ Vector!ConstructFilled(v, n, x)
              \/ \E x \in Elements : \/ Vector!PushBack(v, x)
                                     \/ \E i \in 0 .. MaxSize : Vector!EmplaceInside(v, i, x)
              \/ \E i \in 0 .. MaxSize : Vector!Erase(v, i)
              \/ Vector!ShrinkToFit(v) \/ Vector!PopBack(v) \/ Vector!Clear(v)
              \/ \E w \in Lists : \/ Vector!ConstructCopy(v, w)
                                  \/ Vector!CopyAssign(v, w) \/ Vector!MoveAssign(v, w)
        BY <1>2, Zenon DEF Vector!Next, VectorValues
    <2>2. \A i \in 0 .. MaxSize : i \in Nat
        OBVIOUS
    <2>3. \A x \in Elements : x \in VectorValues
        BY DEF VectorValues
    <2> QED
        BY <2>1, <2>2, <2>3, VectorCapacitySteps, VectorPushBack, VectorShrinkSteps,
           VectorResize, VectorShiftSteps, VectorAssignSteps, VectorConstructSteps
<1> QED
    BY <1>1, <1>2

(* Every object of a PooledVector is destroyed once, those below the size  *)
(* are alive and no other is, and they are the elements a sequence would   *)
(* hold, through growing, shrinking, shifting, copies, moves and           *)
(* elements that throw at the end of a vector: for any vectors, elements   *)
(* and sizes, where none throws in the middle of one or while the vector   *)
(* is constructed, and no argument is an element of the vector itself.     *)
THEOREM VectorsHold ==
    ASSUME ThrowsInMiddle = FALSE, ThrowsInConstructor = FALSE, AliasedArguments = FALSE
    PROVE  AllSpec => []VectorsHoldElements
<1>1. AllInit => VectorInv
    BY VectorInit DEF AllInit
<1>2. VectorInv /\ [AllNext]_allVars => VectorInv'
    <2>1. [AllNext]_allVars => [Vector!Next]_(Vector!vars)
        BY DEF AllNext, allVars, vectorVars, Vector!vars
    <2> QED
        BY <2>1, VectorStep
<1>3. VectorInv => VectorsHoldElements
    BY VectorHolds DEF VectorsHoldElements
<1> QED
    BY <1>1, <1>2, <1>3, PTL DEF AllSpec

-----------------------------------------------------------------------------
(* PooledList                                                              *)

NodeValues == Elements \cup {Null}

(* The inductive invariant: the nodes are laid out in rows, one for each   *)
(* list and one for the free stack, that show the sequences.               *)
ListsAreRows == \E p : LaidOut(st, NodeValues, p, seqs)

LEMMA NullIsNoNode == Null \notin Nodes /\ Null \in NodeValues
BY NodesAssumption DEF Nodes, NodeValues

LEMMA NothingSpliced ==
    ASSUME NEW S, NEW q \in Seq(S), NEW b \in 0 .. Len(q)
    PROVE  q = Splice(q, b, << >>)
<1>1. IsSplice(q, q, b, << >>, S)
    <2>1. Len(q) \in Nat /\ Len(<< >>) = 0 /\ \A i \in (b + 1) .. Len(q) : 0 + i = i
        OBVIOUS
    <2> QED
        BY <2>1 DEF IsSplice
<1>2. << >> \in Seq(S)
    OBVIOUS
<1> QED
    BY <1>1, <1>2, SpliceUnique

LEMMA PushStep ==
    ASSUME ListsAreRows, NEW l \in Lists, NEW v \in Elements, Push(l, v)
    PROVE  ListsAreRows'
<1>1. PICK p : LaidOut(st, NodeValues, p, seqs)
    BY DEF ListsAreRows
<1>2. HasRoom(st) /\ v \in NodeValues
    BY DEF Push, NodeValues
<1>3. CASE st' = PushBack(st, l, v) /\ Becomes(l, Append(seqs[l], v))
    <2>1. LaidOut(PushBack(st, l, v), NodeValues, Taken(st, p, l, Len(p[l])),
                [seqs EXCEPT ![l] = Append(seqs[l], v)])
        BY <1>1, <1>2, NullIsNoNode, PushedBack
    <2>2. LaidOut(st', NodeValues, Taken(st, p, l, Len(p[l])), seqs')
        BY <1>3, <2>1 DEF Becomes
    <2> QED
        BY <2>2 DEF ListsAreRows
<1>4. CASE st' = PushFront(st, l, v) /\ Becomes(l, <<v>> \o seqs[l])
    <2>1. LaidOut(PushFront(st, l, v), NodeValues, Taken(st, p, l, 0),
                [seqs EXCEPT ![l] = <<v>> \o seqs[l]])
        BY <1>1, <1>2, NullIsNoNode, PushedFront
    <2>2. LaidOut(st', NodeValues, Taken(st, p, l, 0), seqs')
        BY <1>4, <2>1 DEF Becomes
    <2> QED
        BY <2>2 DEF ListsAreRows
<1> QED
    BY <1>3, <1>4 DEF Push

LEMMA InsertStep ==
    ASSUME ListsAreRows, NEW l \in Lists, NEW pos \in 0 .. MaxNodes, NEW v \in Elements,
           Insert(l, pos, v)
    PROVE  ListsAreRows'
<1>1. PICK p : LaidOut(st, NodeValues, p, seqs)
    BY DEF ListsAreRows
<1>2. HasRoom(st) /\ v \in NodeValues /\ pos <= st.size[l]
    BY DEF Insert, NodeValues
<1>3. /\ p[l] \in Seq(Nodes) /\ Len(p[l]) \in Nat /\ st.size[l] = Len(p[l])
      /\ IsList(st, l, p[l])
    BY <1>1, ListsInHolds
<1>4. pos \in 0 .. Len(p[l])
    BY <1>2, <1>3
<1>5. Before(st, l, pos) = At(p[l], pos) /\ After(st, l, pos) = At(p[l], pos + 1)
    BY <1>3, <1>4, NullIsNoNode, NeighboursAre
<1>6. LaidOut(NodeBetween(st, l, At(p[l], pos), At(p[l], pos + 1), v), NodeValues,
            Taken(st, p, l, pos), [seqs EXCEPT ![l] = Splice(seqs[l], pos, <<v>>)])
    BY <1>1, <1>2, <1>4, NullIsNoNode, NodeInserted
<1>7. st' = NodeBetween(st, l, Before(st, l, pos), After(st, l, pos), v)
    BY DEF Insert, InsertValue, NodeBetween
<1>8. seqs' = [seqs EXCEPT ![l] = Splice(seqs[l], pos, <<v>>)]
    BY DEF Insert, Becomes, Splice
<1>9. LaidOut(st', NodeValues, Taken(st, p, l, pos), seqs')
    BY <1>5, <1>6, <1>7, <1>8
<1> QED
    BY <1>9 DEF ListsAreRows

LEMMA MoveInStep ==
    ASSUME ListsAreRows, NEW l \in Lists, NEW pos \in 0 .. MaxNodes, NEW m \in Lists,
           MoveIn(l, pos, m)
    PROVE  ListsAreRows'
<1>1. PICK p : LaidOut(st, NodeValues, p, seqs)
    BY DEF ListsAreRows
<1>2. /\ p[l] \in Seq(Nodes) /\ Len(p[l]) \in Nat /\ st.size[l] = Len(p[l])
      /\ IsList(st, l, p[l])
    BY <1>1, ListsInHolds
<1>3. /\ seqs \in [Lists -> Seq(NodeValues)] /\ seqs[l] \in Seq(NodeValues)
      /\ Len(seqs[l]) = Len(p[l])
    BY <1>1, HeldRow
<1>4. /\ seqs[m] \in Seq(NodeValues) /\ Len(seqs[m]) = Len(p[m]) /\ st.size[m] = Len(p[m])
      /\ Len(p[m]) \in Nat
    BY <1>1, HeldRow
<1>5. l # m /\ pos <= st.size[l] /\ st' = InsertList(st, l, pos, m)
    BY DEF MoveIn
<1>6. pos \in 0 .. Len(p[l]) /\ pos \in 0 .. Len(seqs[l])
    BY <1>2, <1>3, <1>5
<1>7. seqs' = [seqs EXCEPT ![l] = Splice(seqs[l], pos, seqs[m]), ![m] = << >>]
    BY <1>3 DEF MoveIn, Splice
<1>8. CASE Len(p[m]) = 0
    <2>1. st' = st
        BY <1>4, <1>5, <1>8 DEF InsertList
    <2>2. seqs[m] = << >>
        BY <1>4, <1>8
    <2>3. seqs[l] = Splice(seqs[l], pos, seqs[m])
        BY <1>3, <1>6, <2>2, NothingSpliced
    <2>4. [seqs EXCEPT ![l] = seqs[l], ![m] = seqs[m]] = seqs
        BY <1>3
    <2>5. seqs' = seqs
        BY <1>7, <2>2, <2>3, <2>4
    <2>6. LaidOut(st', NodeValues, p, seqs')
        BY <1>1, <2>1, <2>5
    <2> QED
        BY <2>6 DEF ListsAreRows
<1>9. CASE Len(p[m]) # 0
    <2>1. Len(p[m]) > 0 /\ st.size[m] # 0
        BY <1>4, <1>9
    <2>2. Before(st, l, pos) = At(p[l], pos) /\ After(st, l, pos) = At(p[l], pos + 1)
        BY <1>2, <1>6, NullIsNoNode, NeighboursAre
    <2>3. LaidOut(NodesMoved(st, l, At(p[l], pos), At(p[l], pos + 1), m), NodeValues,
                Rearranged(p, l, Splice(p[l], pos, p[m]), m, << >>),
                [seqs EXCEPT ![l] = Splice(seqs[l], pos, seqs[m]), ![m] = << >>])
        BY <1>1, <1>5, <1>6, <2>1, NullIsNoNode, NodesJoined
    <2>4. st' = NodesMoved(st, l, Before(st, l, pos), After(st, l, pos), m)
        BY <1>5, <2>1 DEF InsertList, NodesMoved
    <2>5. LaidOut(st', NodeValues, Rearranged(p, l, Splice(p[l], pos, p[m]), m, << >>), seqs')
        BY <1>7, <2>2, <2>3, <2>4
    <2> QED
        BY <2>5 DEF ListsAreRows
<1> QED
    BY <1>8, <1>9

LEMMA EraseStep ==
    ASSUME ListsAreRows, NEW l \in Lists, NEW idx \in 0 .. MaxNodes, Erase(l, idx)
    PROVE  ListsAreRows'
<1>1. PICK p : LaidOut(st, NodeValues, p, seqs)
    BY DEF ListsAreRows
<1>2. /\ p[l] \in Seq(Nodes) /\ Len(p[l]) \in Nat /\ st.size[l] = Len(p[l])
      /\ IsList(st, l, p[l])
    BY <1>1, ListsInHolds
<1>3. /\ seqs \in [Lists -> Seq(NodeValues)] /\ seqs[l] \in Seq(NodeValues)
      /\ Len(seqs[l]) = Len(p[l])
    BY <1>1, HeldRow
<1>4. idx \in Nat
    OBVIOUS
<1>5. NodeAt(st, l, idx) = At(p[l], idx + 1)
    BY <1>2, <1>4, NodeAtIs
<1>6. CASE idx < Len(p[l])
    <2>1. idx \in 0 .. Len(p[l]) - 1 /\ idx + 1 \in 1 .. Len(p[l])
        BY <1>2, <1>4, <1>6
    <2>2. st' = EraseNode(st, l, p[l][idx + 1])
        BY <1>5, <2>1 DEF Erase, At
    <2>3. seqs' = [seqs EXCEPT ![l] = Cut(seqs[l], idx)]
        BY <1>3, <1>4, <1>6, RemoveAtIsCut DEF Erase, Becomes
    <2>4. LaidOut(EraseNode(st, l, p[l][idx + 1]), NodeValues,
                Rearranged(p, l, Cut(p[l], idx), FreeRow, Append(st.free, p[l][idx + 1])),
                [seqs EXCEPT ![l] = Cut(seqs[l], idx)])
        BY <1>1, <2>1, NullIsNoNode, NodeErased
    <2>5. LaidOut(st', NodeValues,
                Rearranged(p, l, Cut(p[l], idx), FreeRow, Append(st.free, p[l][idx + 1])), seqs')
        BY <2>2, <2>3, <2>4
    <2> QED
        BY <2>5 DEF ListsAreRows
<1>7. CASE ~(idx < Len(p[l]))
    <2>1. idx + 1 \notin 1 .. Len(p[l])
        BY <1>2, <1>4, <1>7, SMTT(30)
    <2>2. st' = st
        BY <1>5, <2>1 DEF Erase, At, EraseNode
    <2>3. seqs' = seqs
        BY <1>3, <1>7 DEF Erase, Becomes
    <2>4. LaidOut(st', NodeValues, p, seqs')
        BY <1>1, <2>2, <2>3
    <2> QED
        BY <2>4 DEF ListsAreRows
<1> QED
    BY <1>6, <1>7

(* Nothing is taken from an empty list. *)
LEMMA EmptyPop ==
    ASSUME NEW S, NEW q \in Seq(S), Len(q) = 0
    PROVE  SubSeq(q, 2, Len(q)) = q /\ SubSeq(q, 1, Len(q) - 1) = q
<1>1. q = << >> /\ 2 > 0 /\ 1 > 0 - 1
    OBVIOUS
<1>2. SubSeq(q, 2, 0) = << >> /\ SubSeq(q, 1, 0 - 1) = << >>
    BY <1>1, SubSeqEmpty
<1> QED
    BY <1>1, <1>2

LEMMA PopStep ==
    ASSUME ListsAreRows, NEW l \in Lists, Pop(l)
    PROVE  ListsAreRows'
<1>1. PICK p : LaidOut(st, NodeValues, p, seqs)
    BY DEF ListsAreRows
<1> DEFINE n == Len(p[l])
<1>2. /\ seqs \in [Lists -> Seq(NodeValues)] /\ seqs[l] \in Seq(NodeValues)
      /\ Len(seqs[l]) = n /\ n \in Nat
      /\ st.head[l] = At(p[l], 1) /\ st.tail[l] = At(p[l], n)
    BY <1>1, HeldRow
<1>3. CASE n = 0
    <2>1. st.head[l] = Null /\ st.tail[l] = Null
        BY <1>2, <1>3 DEF At
    <2>2. st' = st
        BY <2>1 DEF Pop, EraseNode
    <2>3. SubSeq(seqs[l], 2, Len(seqs[l])) = seqs[l] /\ SubSeq(seqs[l], 1, Len(seqs[l]) - 1) = seqs[l]
        BY <1>2, <1>3, EmptyPop
    <2>4. Becomes(l, seqs[l])
        BY <2>3 DEF Pop
    <2>5. seqs' = seqs
        BY <1>2, <2>4 DEF Becomes
    <2>6. LaidOut(st', NodeValues, p, seqs')
        BY <1>1, <2>2, <2>5
    <2> QED
        BY <2>6 DEF ListsAreRows
<1>4. CASE n # 0
    <2>1. n > 0 /\ 0 \in 0 .. n - 1 /\ n - 1 \in 0 .. n - 1 /\ (n - 1) + 1 = n /\ 1 \in 1 .. n /\ n \in 1 .. n
        BY <1>2, <1>4
    <2>2. st.head[l] = p[l][0 + 1] /\ st.tail[l] = p[l][(n - 1) + 1]
        BY <1>2, <2>1 DEF At
    <2>3. ASSUME NEW k \in 0 .. n - 1, st' = EraseNode(st, l, p[l][k + 1]),
                 Becomes(l, Cut(seqs[l], k))
          PROVE  ListsAreRows'
        <3>1. LaidOut(EraseNode(st, l, p[l][k + 1]), NodeValues,
                    Rearranged(p, l, Cut(p[l], k), FreeRow, Append(st.free, p[l][k + 1])),
                    [seqs EXCEPT ![l] = Cut(seqs[l], k)])
            BY <1>1, NullIsNoNode, NodeErased
        <3>2. LaidOut(st', NodeValues,
                    Rearranged(p, l, Cut(p[l], k), FreeRow, Append(st.free, p[l][k + 1])), seqs')
            BY <2>3, <3>1 DEF Becomes
        <3> QED
            BY <3>2 DEF ListsAreRows
    <2>4. /\ SubSeq(seqs[l], 2, Len(seqs[l])) = Cut(seqs[l], 0)
          /\ SubSeq(seqs[l], 1, Len(seqs[l]) - 1) = Cut(seqs[l], n - 1)
        BY <1>2, <2>1, TailIsCut, FrontIsCut
    <2> QED
        BY <2>1, <2>2, <2>3, <2>4 DEF Pop
<1> QED
    BY <1>3, <1>4

LEMMA ClearStep ==
    ASSUME ListsAreRows, NEW l \in Lists, Clear(l)
    PROVE  ListsAreRows'
<1>1. PICK p : LaidOut(st, NodeValues, p, seqs)
    BY DEF ListsAreRows
<1>2. LaidOut(ClearList(st, l), NodeValues,
            Rearranged(p, FreeRow, Splice(st.free, Len(st.free), p[l]), l, << >>),
            [seqs EXCEPT ![l] = << >>])
    BY <1>1, NullIsNoNode, ListCleared
<1>3. LaidOut(st', NodeValues,
            Rearranged(p, FreeRow, Splice(st.free, Len(st.free), p[l]), l, << >>), seqs')
    BY <1>2 DEF Clear, Becomes
<1> QED
    BY <1>3 DEF ListsAreRows

LEMMA ListsInit == Init => ListsAreRows
<1>1. LaidOut(NoNodes, NodeValues, [r \in Rows |-> << >>], [l \in Lists |-> << >>])
    BY NullIsNoNode, NothingHeld
<1> QED
    BY <1>1 DEF Init, ListsAreRows

LEMMA ListsStep ==
    ASSUME ListsAreRows, [Next]_vars
    PROVE  ListsAreRows'
<1>1. CASE UNCHANGED vars
    BY <1>1 DEF vars, ListsAreRows
<1>2. CASE Next
    BY <1>2, PushStep, InsertStep, MoveInStep, EraseStep, PopStep, ClearStep DEF Next
<1> QED
    BY <1>1, <1>2

LEMMA RowsAreSound == ListsAreRows => ListsSound
<1>1. ASSUME NEW p, LaidOut(st, NodeValues, p, seqs) PROVE ListsSound
    BY <1>1, NullIsNoNode, HoldsIsSound DEF ListsSound, NodesSound, AgreesWithSequences
<1> QED
    BY <1>1 DEF ListsAreRows

-----------------------------------------------------------------------------
(* PooledHashList                                                          *)

(* The operators of PooledNodes under their names in PooledHashList. *)

LEMMA SamePoolOps ==
    ASSUME NEW s, NEW v
    PROVE  /\ Hash!NextSlot(s) = NextSlot(s) /\ Hash!PopFree(s) = PopFree(s)
           /\ Hash!HasRoom(s) <=> HasRoom(s)
           /\ Hash!Create(s, v) = Create(s, v)
<1>1. Hash!NextSlot(s) = NextSlot(s)
    BY DEF Hash!NextSlot, NextSlot, Hash!Last, Last
<1>2. Hash!PopFree(s) = PopFree(s)
    BY DEF Hash!PopFree, PopFree, Hash!Front, Front
<1>3. Hash!Create(s, v) = Create(s, v)
    BY <1>1, <1>2, Zenon DEF Hash!Create, Create
<1>4. Hash!HasRoom(s) <=> HasRoom(s)
    BY <1>1 DEF Hash!HasRoom, HasRoom, Hash!Nodes, Nodes
<1> QED
    BY <1>1, <1>2, <1>3, <1>4

LEMMA SamePush ==
    ASSUME NEW s, NEW l, NEW v
    PROVE  Hash!PushBack(s, l, v) = PushBack(s, l, v) /\ Hash!PushFront(s, l, v) = PushFront(s, l, v)
<1>1. Hash!NextSlot(s) = NextSlot(s) /\ Hash!Create(s, v) = Create(s, v)
    BY SamePoolOps
<1> DEFINE x == NextSlot(s)
           c == Create(s, v)
<1>2. Hash!SetNext(c, s.tail[l], x) = SetNext(c, s.tail[l], x)
    BY DEF Hash!SetNext, SetNext
<1>3. Hash!SetPrev(c, s.head[l], x) = SetPrev(c, s.head[l], x)
    BY DEF Hash!SetPrev, SetPrev
<1> QED
    BY <1>1, <1>2, <1>3, Zenon DEF Hash!PushBack, PushBack, Hash!PushFront, PushFront

LEMMA SameLink ==
    ASSUME NEW s, NEW l, NEW p, NEW x, NEW y, NEW n
    PROVE  Hash!Link(s, l, p, x, y, n) = Link(s, l, p, x, y, n)
BY SMTT(30) DEF Hash!Link, Hash!SetPrev, Hash!SetNext, Link, SetPrev, SetNext

LEMMA SameErase ==
    ASSUME NEW s, NEW l, NEW x
    PROVE  Hash!EraseNode(s, l, x) = EraseNode(s, l, x)
BY DEF Hash!EraseNode, Hash!SetNext, Hash!SetPrev, Hash!Recycle, EraseNode, SetNext, SetPrev, Recycle

LEMMA SameWalk ==
    ASSUME NEW link, NEW x, NEW count
    PROVE  Hash!Walk(link, x, count) = Walk(link, x, count)
BY DEF Hash!Walk, Walk

LEMMA SameClear ==
    ASSUME NEW s, NEW l
    PROVE  Hash!ClearList(s, l) = ClearList(s, l)
BY DEF Hash!ClearList, ClearList, Hash!Chain, Chain, Hash!Walk, Walk, Hash!Recycle, Recycle

LEMMA SameLists ==
    ASSUME NEW s, NEW l
    PROVE  /\ Hash!Chain(s, l) = Chain(s, l)
           /\ Hash!WellLinked(s, l) <=> WellLinked(s, l)
           /\ Hash!Sequence(s, l) = Sequence(s, l)
<1>1. Hash!Chain(s, l) = Chain(s, l)
    BY DEF Hash!Chain, Chain, Hash!Walk, Walk
<1>2. Hash!Nodes = Nodes
    BY DEF Hash!Nodes, Nodes
<1>3. Hash!WellLinked(s, l) <=> WellLinked(s, l)
    BY <1>1, <1>2, Zenon DEF Hash!WellLinked, WellLinked, Hash!Range, Range
<1>4. Hash!Sequence(s, l) = Sequence(s, l)
    BY <1>1, Zenon DEF Hash!Sequence, Sequence
<1> QED
    BY <1>1, <1>3, <1>4

LEMMA SameSlots ==
    ASSUME NEW s
    PROVE  Hash!EverySlotOnce(s) <=> EverySlotOnce(s)
<1>1. Hash!Nodes = Nodes /\ \A l : Hash!Chain(s, l) = Chain(s, l)
    BY SameLists DEF Hash!Nodes, Nodes
<1> DEFINE inLists == {t \in Lists \X Nodes : t[2] <= s.size[t[1]]}
           A == {Hash!Chain(s, t[1])[t[2]] : t \in inLists}
           B == {Chain(s, t[1])[t[2]] : t \in inLists}
<1>2. A = B
    <2> HIDE DEF inLists
    <2> QED
        BY <1>1
<1>3. Hash!EverySlotOnce(s) <=>
          /\ A \cup Range(s.free) = 1 .. s.made
          /\ Cardinality(inLists) + Len(s.free) = s.made
          /\ s.live = Cardinality(inLists)
          /\ s.made <= s.segments * SegmentCapacity
    <2>1. Hash!Cardinality(inLists) = Cardinality(inLists)
        BY DEF Hash!Cardinality, Cardinality
    <2> QED
        BY <1>1, <2>1, Zenon DEF Hash!EverySlotOnce, Hash!Range, Range
<1>4. EverySlotOnce(s) <=>
          /\ B \cup Range(s.free) = 1 .. s.made
          /\ Cardinality(inLists) + Len(s.free) = s.made
          /\ s.live = Cardinality(inLists)
          /\ s.made <= s.segments * SegmentCapacity
    BY Zenon DEF EverySlotOnce
<1> HIDE DEF A, B, inLists
<1> QED
    BY <1>2, <1>3, <1>4

LEMMA SameNoNodes == Hash!NoNodes = NoNodes
BY DEF Hash!NoNodes, NoNodes, Hash!Nodes, Nodes

(* Every cached index leads to its node among q. *)
CacheOf(c, q) == \A i \in DOMAIN c : i \in 0 .. Len(q) - 1 /\ c[i] = q[i + 1]

(* The inductive invariant: that of PooledList, with caches of its rows. *)
RowsCached(p) == \A l \in Lists : CacheOf(cache[l], p[l])
HashRows(p) == LaidOut(hst, NodeValues, p, hseqs) /\ RowsCached(p)
HashInv == cache = [l \in Lists |-> cache[l]] /\ \E p : HashRows(p)

LEMMA NothingCached ==
    ASSUME NEW q
    PROVE  CacheOf(Hash!Nothing, q)
BY DEF CacheOf, Hash!Nothing

LEMMA PutCached ==
    ASSUME NEW c, NEW q, CacheOf(c, q), NEW i \in 0 .. Len(q) - 1, NEW x, x = q[i + 1]
    PROVE  CacheOf(Hash!Put(c, i, x), q)
BY DEF CacheOf, Hash!Put

(* The nodes before index n stay. *)
LEMMA BelowCached ==
    ASSUME NEW c, NEW q, CacheOf(c, q), NEW n \in Nat, NEW r, Len(r) \in Nat, n <= Len(r),
           \A j \in 1 .. n : r[j] = q[j]
    PROVE  CacheOf(Hash!Below(c, n), r)
<1> DEFINE d == Hash!Below(c, n)
<1>1. DOMAIN d = {j \in DOMAIN c : j < n} /\ \A i \in DOMAIN d : d[i] = c[i]
    BY DEF Hash!Below
<1> HIDE DEF d
<1>2. ASSUME NEW i \in DOMAIN d PROVE i \in 0 .. Len(r) - 1 /\ d[i] = r[i + 1]
    <2>1. i \in DOMAIN c /\ i < n /\ d[i] = c[i]
        BY <1>1
    <2>2. i \in Nat /\ c[i] = q[i + 1]
        BY <2>1 DEF CacheOf
    <2>3. i \in 0 .. Len(r) - 1 /\ i + 1 \in 1 .. n
        BY <2>1, <2>2
    <2> QED
        BY <2>1, <2>2, <2>3
<1> QED
    BY <1>2 DEF CacheOf, d

LEMMA StillCached ==
    ASSUME NEW c, NEW q, CacheOf(c, q), Len(q) \in Nat, NEW r, Len(r) \in Nat, Len(q) <= Len(r),
           \A j \in 1 .. Len(q) : r[j] = q[j]
    PROVE  CacheOf(c, r)
<1>1. ASSUME NEW i \in DOMAIN c PROVE i \in 0 .. Len(r) - 1 /\ c[i] = r[i + 1]
    <2>1. i \in 0 .. Len(q) - 1 /\ c[i] = q[i + 1]
        BY DEF CacheOf
    <2>2. i \in 0 .. Len(r) - 1 /\ i + 1 \in 1 .. Len(q)
        BY <2>1
    <2> QED
        BY <2>1, <2>2
<1> QED
    BY <1>1 DEF CacheOf

(* Whatever index it starts from, the search finds the node at its index. *)
LEMMA WalkFromFinds ==
    ASSUME NEW p, HashRows(p), NEW l \in Lists, NEW i \in 0 .. Len(p[l]) - 1,
           i \in DOMAIN cache[l] \/ i \in {0, Len(p[l]) - 1},
           NEW idx \in 0 .. Len(p[l]) - 1
    PROVE  Hash!WalkFrom(l, i, idx) = p[l][idx + 1]
<1> DEFINE q == p[l]
<1>1. /\ q \in Seq(Nodes) /\ Len(q) \in Nat /\ hst.size[l] = Len(q)
      /\ hst.head[l] = At(q, 1) /\ hst.tail[l] = At(q, Len(q))
    BY HeldRow DEF HashRows
<1>2. Linked(hst.next, hst.prev, q)
    BY ListsInHolds DEF HashRows, IsList
<1>3. CacheOf(cache[l], q)
    BY DEF HashRows, RowsCached
<1>4. i \in Nat /\ idx \in Nat /\ i + 1 \in 1 .. Len(q) /\ idx + 1 \in 1 .. Len(q)
    BY <1>1
<1> HIDE DEF q
<1>5. Hash!StartNode(l, i) = q[i + 1]
    <2>1. CASE i \in DOMAIN cache[l]
        BY <1>3, <2>1 DEF Hash!StartNode, CacheOf
    <2>2. CASE i \notin DOMAIN cache[l] /\ i = 0
        BY <1>1, <1>4, <2>2 DEF Hash!StartNode, At
    <2>3. CASE i \notin DOMAIN cache[l] /\ i # 0
        <3>1. i = Len(q) - 1
            BY <2>3 DEF q
        <3>2. i + 1 = Len(q)
            BY <1>1, <3>1
        <3> QED
            BY <1>1, <1>4, <2>3, <3>2 DEF Hash!StartNode, At
    <2> QED
        BY <2>1, <2>2, <2>3
<1>6. CASE i < idx
    <2>1. idx - i \in 0 .. Len(q) - (i + 1) /\ (i + 1) + (idx - i) = idx + 1
        BY <1>1, <1>4, <1>6
    <2>2. Walk(hst.next, q[i + 1], idx - i) = q[(i + 1) + (idx - i)]
        BY <1>1, <1>2, <1>4, <2>1, WalkForward
    <2> QED
        BY <1>5, <1>6, <2>1, <2>2, SameWalk DEF Hash!WalkFrom, q
<1>7. CASE ~(i < idx)
    <2>1. i - idx \in 0 .. (i + 1) - 1 /\ (i + 1) - (i - idx) = idx + 1
        BY <1>1, <1>4, <1>7
    <2>2. Walk(hst.prev, q[i + 1], i - idx) = q[(i + 1) - (i - idx)]
        BY <1>1, <1>2, <1>4, <2>1, WalkBack
    <2> QED
        BY <1>5, <1>7, <2>1, <2>2, SameWalk DEF Hash!WalkFrom, q
<1> QED
    BY <1>6, <1>7

LEMMA FoundNode ==
    ASSUME NEW p, HashRows(p), NEW l \in Lists, NEW idx \in 0 .. Len(p[l]) - 1,
           NEW found \in Hash!NodesAt(l, idx)
    PROVE  found.node = p[l][idx + 1] /\ CacheOf(found.left, p[l])
<1>1. CacheOf(cache[l], p[l])
    BY DEF HashRows, RowsCached
<1>2. Len(p[l]) \in Nat /\ hst.size[l] = Len(p[l])
    BY HeldRow DEF HashRows
<1>3. CASE idx \in DOMAIN cache[l]
    <2>1. found = [node |-> cache[l][idx], left |-> cache[l]]
        BY <1>3 DEF Hash!NodesAt
    <2> QED
        BY <1>1, <1>3, <2>1 DEF CacheOf
<1>4. CASE idx \notin DOMAIN cache[l]
    <2>1. PICK i \in Hash!Starts(l, idx) :
              LET x == Hash!WalkFrom(l, i, idx)
              IN  found = [node |-> x, left |-> IF Hash!CachesAnother(l) THEN Hash!Put(cache[l], idx, x)
                                                ELSE cache[l]]
        BY <1>4 DEF Hash!NodesAt
    <2>2. i \in DOMAIN cache[l] \/ i = Hash!NearerEnd(l, idx)
        BY DEF Hash!Starts
    <2>3. Hash!NearerEnd(l, idx) \in {0, Len(p[l]) - 1}
        BY <1>2 DEF Hash!NearerEnd
    <2>4. i \in 0 .. Len(p[l]) - 1 /\ (i \in DOMAIN cache[l] \/ i \in {0, Len(p[l]) - 1})
        <3>1. 0 \in 0 .. Len(p[l]) - 1 /\ Len(p[l]) - 1 \in 0 .. Len(p[l]) - 1
            BY <1>2
        <3> QED
            BY <1>1, <2>2, <2>3, <3>1 DEF CacheOf
    <2>5. Hash!WalkFrom(l, i, idx) = p[l][idx + 1]
        BY <2>4, WalkFromFinds
    <2>6. CacheOf(Hash!Put(cache[l], idx, p[l][idx + 1]), p[l])
        BY <1>1, PutCached
    <2>7. found.node = p[l][idx + 1] /\ found.left \in {cache[l], Hash!Put(cache[l], idx, p[l][idx + 1])}
        BY <2>1, <2>5
    <2> QED
        BY <1>1, <2>6, <2>7
<1> QED
    BY <1>3, <1>4

(* One list changes, with its cache. *)
LEMMA HashKept ==
    ASSUME HashInv, NEW p, HashRows(p), NEW l \in Lists, NEW c, cache' = [cache EXCEPT ![l] = c],
           NEW p2, LaidOut(hst', NodeValues, p2, hseqs'), CacheOf(c, p2[l]),
           \A r \in Lists \ {l} : p2[r] = p[r]
    PROVE  HashInv'
<1>1. cache' = [r \in Lists |-> cache'[r]] /\ \A r \in Lists : cache'[r] = IF r = l THEN c ELSE cache[r]
    BY DEF HashInv
<1>2. \A r \in Lists : CacheOf(cache'[r], p2[r])
    BY <1>1 DEF HashRows, RowsCached
<1>3. HashRows(p2)'
    BY <1>2 DEF HashRows, RowsCached
<1> QED
    BY <1>1, <1>3 DEF HashInv

LEMMA RowsAfter ==
    ASSUME NEW p, NEW l \in Lists, NEW q, NEW m, NEW t
    PROVE  /\ Rearranged(p, l, q, m, t)[l] = q
           /\ \A r \in Lists \ {l, m} : Rearranged(p, l, q, m, t)[r] = p[r]
           /\ m \in Rows /\ m # l => Rearranged(p, l, q, m, t)[m] = t
BY DEF Rearranged, Rows

(* The row of l with a new node after its first b. *)
LEMMA TakenRow ==
    ASSUME NEW p, HashRows(p), Hash!HasRoom(hst), NEW l \in Lists, NEW b \in 0 .. Len(p[l])
    PROVE  /\ HasRoom(hst)
           /\ IsSplice(Taken(hst, p, l, b)[l], p[l], b, <<NextSlot(hst)>>, Nodes)
           /\ \A r \in Lists \ {l} : Taken(hst, p, l, b)[r] = p[r]
<1>1. HasRoom(hst)
    BY SamePoolOps
<1>2. p[l] \in Seq(Nodes) /\ <<NextSlot(hst)>> \in Seq(Nodes)
    BY <1>1, HeldRow DEF HashRows, HasRoom
<1>3. IsSplice(Splice(p[l], b, <<NextSlot(hst)>>), p[l], b, <<NextSlot(hst)>>, Nodes)
    BY <1>2, SpliceProperties
<1>4. /\ Taken(hst, p, l, b)[l] = Splice(p[l], b, <<NextSlot(hst)>>)
      /\ \A r \in Lists \ {l} : Taken(hst, p, l, b)[r] = p[r]
    BY FreeRowIsNoList DEF Taken, Rearranged, Rows
<1> QED
    BY <1>1, <1>3, <1>4

LEMMA HashPushBackStep ==
    ASSUME HashInv, NEW l \in Lists, NEW v \in Elements, Hash!HPushBack(l, v)
    PROVE  HashInv'
<1>1. PICK p : HashRows(p)
    BY DEF HashInv
<1>2. /\ Hash!HasRoom(hst) /\ hst' = Hash!PushBack(hst, l, v)
      /\ cache' = [cache EXCEPT ![l] = Hash!CachePushed(l)]
      /\ hseqs' = [hseqs EXCEPT ![l] = Append(hseqs[l], v)]
    BY DEF Hash!HPushBack, Hash!Becomes
<1> DEFINE n == Len(p[l])
           p2 == Taken(hst, p, l, n)
           q == p2[l]
<1>3. p[l] \in Seq(Nodes) /\ n \in Nat /\ n \in 0 .. n /\ hst.size[l] = n
    BY <1>1, HeldRow DEF HashRows
<1>4. /\ HasRoom(hst) /\ IsSplice(q, p[l], n, <<NextSlot(hst)>>, Nodes)
      /\ \A r \in Lists \ {l} : p2[r] = p[r]
    BY <1>1, <1>2, <1>3, TakenRow
<1>5. LaidOut(hst', NodeValues, p2, hseqs')
    <2>1. v \in NodeValues /\ hst' = PushBack(hst, l, v)
        BY <1>2, SamePush DEF NodeValues
    <2>2. LaidOut(PushBack(hst, l, v), NodeValues, p2, [hseqs EXCEPT ![l] = Append(hseqs[l], v)])
        BY <1>1, <1>4, <2>1, NullIsNoNode, PushedBack DEF HashRows
    <2> QED
        BY <1>2, <2>1, <2>2
<1> HIDE DEF p2
<1>6. CacheOf(Hash!CachePushed(l), q)
    <2>1. /\ Len(q) = n + 1 /\ q[n + 1] = NextSlot(hst) /\ Len(q) \in Nat /\ n <= Len(q)
          /\ \A j \in 1 .. n : q[j] = p[l][j]
        <3>1. Len(<<NextSlot(hst)>>) = 1 /\ <<NextSlot(hst)>>[1] = NextSlot(hst) /\ 1 \in 1 .. 1
            OBVIOUS
        <3> QED
            BY <1>3, <1>4, <3>1 DEF IsSplice
    <2> HIDE DEF q
    <2>2. CacheOf(cache[l], q)
        BY <1>1, <1>3, <2>1, StillCached DEF HashRows, RowsCached
    <2>3. CacheOf(Hash!Put(cache[l], n, NextSlot(hst)), q)
        BY <1>3, <2>1, <2>2, PutCached
    <2>4. Hash!NextSlot(hst) = NextSlot(hst)
        BY SamePoolOps
    <2> QED
        BY <1>3, <2>2, <2>3, <2>4 DEF Hash!CachePushed
<1> QED
    BY <1>1, <1>2, <1>4, <1>5, <1>6, HashKept

LEMMA HashPushFrontStep ==
    ASSUME HashInv, NEW l \in Lists, NEW v \in Elements, Hash!HPushFront(l, v)
    PROVE  HashInv'
<1>1. PICK p : HashRows(p)
    BY DEF HashInv
<1>2. /\ Hash!HasRoom(hst) /\ hst' = Hash!PushFront(hst, l, v)
      /\ cache' = [cache EXCEPT ![l] = Hash!Nothing]
      /\ hseqs' = [hseqs EXCEPT ![l] = <<v>> \o hseqs[l]]
    BY DEF Hash!HPushFront, Hash!Becomes
<1> DEFINE p2 == Taken(hst, p, l, 0)
<1>3. 0 \in 0 .. Len(p[l])
    BY <1>1, HeldRow DEF HashRows
<1>4. HasRoom(hst) /\ \A r \in Lists \ {l} : p2[r] = p[r]
    BY <1>1, <1>2, <1>3, TakenRow
<1>5. LaidOut(hst', NodeValues, p2, hseqs')
    <2>1. v \in NodeValues /\ hst' = PushFront(hst, l, v)
        BY <1>2, SamePush DEF NodeValues
    <2>2. LaidOut(PushFront(hst, l, v), NodeValues, p2, [hseqs EXCEPT ![l] = <<v>> \o hseqs[l]])
        BY <1>1, <1>4, <2>1, NullIsNoNode, PushedFront DEF HashRows
    <2> QED
        BY <1>2, <2>1, <2>2
<1> HIDE DEF p2
<1>6. CacheOf(Hash!Nothing, p2[l])
    BY NothingCached
<1> QED
    BY <1>1, <1>2, <1>4, <1>5, <1>6, HashKept

LEMMA HashInsertStep ==
    ASSUME EdgeCalls = {}, HashInv, NEW l \in Lists, NEW pos \in 0 .. MaxNodes, NEW v \in Elements,
           Hash!HInsert(l, pos, v)
    PROVE  HashInv'
<1>1. PICK p : HashRows(p)
    BY DEF HashInv
<1> DEFINE n == Len(p[l])
           x == NextSlot(hst)
           p2 == Taken(hst, p, l, pos)
           q == p2[l]
<1>2. p[l] \in Seq(Nodes) /\ n \in Nat /\ hst.size[l] = n
    BY <1>1, HeldRow DEF HashRows
<1>3. /\ Hash!HasRoom(hst) /\ pos \in 1 .. n - 1 /\ Hash!InsertBetween(l, pos, v)
      /\ hseqs' = [hseqs EXCEPT ![l] = Splice(hseqs[l], pos, <<v>>)]
    BY <1>2, SMTT(30) DEF Hash!HInsert, Hash!Becomes, Hash!Spliced, Splice
<1>4. PICK found \in Hash!NodesAt(l, pos) :
          LET kept == Hash!Below(found.left, pos)
              far == pos > FarFromEnds \/ hst.size[l] - pos > FarFromEnds
          IN  /\ hst' = [Hash!Link(Hash!Create(hst, v), l, hst.prev[found.node],
                                   Hash!NextSlot(hst), Hash!NextSlot(hst), found.node)
                            EXCEPT !.size[l] = @ + 1]
              /\ cache' = [cache EXCEPT ![l] = IF far THEN Hash!Put(kept, pos, Hash!NextSlot(hst))
                                               ELSE kept]
    BY <1>3 DEF Hash!InsertBetween
<1>5. pos \in 0 .. n - 1 /\ pos \in 0 .. n /\ pos + 1 \in 1 .. n /\ (pos + 1) - 1 = pos
    BY <1>2, <1>3
<1>6. found.node = p[l][pos + 1] /\ CacheOf(found.left, p[l])
    BY <1>1, <1>5, FoundNode
<1>7. found.node = At(p[l], pos + 1) /\ hst.prev[found.node] = At(p[l], pos)
    <2>1. IsList(hst, l, p[l])
        BY <1>1, ListsInHolds DEF HashRows
    <2> QED
        BY <1>5, <1>6, <2>1 DEF IsList, Linked, At
<1>8. /\ HasRoom(hst) /\ IsSplice(q, p[l], pos, <<x>>, Nodes)
      /\ \A r \in Lists \ {l} : p2[r] = p[r]
    BY <1>1, <1>3, <1>5, TakenRow
<1>9. LaidOut(hst', NodeValues, p2, hseqs')
    <2>1. v \in NodeValues
        BY DEF NodeValues
    <2>2. /\ Hash!NextSlot(hst) = x /\ Hash!Create(hst, v) = Create(hst, v)
          /\ Hash!Link(Create(hst, v), l, At(p[l], pos), x, x, At(p[l], pos + 1)) =
                 Link(Create(hst, v), l, At(p[l], pos), x, x, At(p[l], pos + 1))
        BY SamePoolOps, SameLink
    <2>3. hst' = NodeBetween(hst, l, At(p[l], pos), At(p[l], pos + 1), v)
        BY <1>4, <1>7, <2>2 DEF NodeBetween
    <2>4. LaidOut(NodeBetween(hst, l, At(p[l], pos), At(p[l], pos + 1), v), NodeValues, p2,
                [hseqs EXCEPT ![l] = Splice(hseqs[l], pos, <<v>>)])
        BY <1>1, <1>5, <1>8, <2>1, NullIsNoNode, NodeInserted DEF HashRows
    <2> QED
        BY <1>3, <2>3, <2>4
<1> HIDE DEF p2
<1> DEFINE kept == Hash!Below(found.left, pos)
<1>10. /\ Len(q) = n + 1 /\ Len(q) \in Nat /\ pos <= Len(q) /\ q[pos + 1] = x
       /\ \A j \in 1 .. pos : q[j] = p[l][j]
    <2>1. Len(<<x>>) = 1 /\ <<x>>[1] = x /\ 1 \in 1 .. 1
        OBVIOUS
    <2> QED
        BY <1>2, <1>5, <1>8, <2>1 DEF IsSplice
<1> HIDE DEF q
<1>11. CacheOf(kept, q)
    <2>1. CacheOf(found.left, p[l]) /\ pos \in Nat /\ Len(q) \in Nat /\ pos <= Len(q)
        BY <1>5, <1>6, <1>10
    <2>2. \A j \in 1 .. pos : q[j] = p[l][j]
        BY <1>10
    <2> QED
        BY <2>1, <2>2, BelowCached
<1> HIDE DEF kept
<1>12. CacheOf(Hash!Put(kept, pos, x), q)
    <2>1. pos \in 0 .. Len(q) - 1
        BY <1>2, <1>5, <1>10
    <2> QED
        BY <1>10, <1>11, <2>1, PutCached
<1>13. PICK c \in {kept, Hash!Put(kept, pos, x)} : cache' = [cache EXCEPT ![l] = c]
    <2>1. Hash!NextSlot(hst) = x
        BY SamePoolOps
    <2> HIDE DEF x
    <2> QED
        BY <1>4, <2>1 DEF kept
<1>14. CacheOf(c, q)
    BY <1>11, <1>12, <1>13
<1> QED
    BY <1>1, <1>8, <1>9, <1>13, <1>14, HashKept DEF q

LEMMA HashMoveInStep ==
    ASSUME EdgeCalls = {}, HashInv, NEW l \in Lists, NEW pos \in 0 .. MaxNodes, NEW m \in Lists,
           Hash!HMoveIn(l, pos, m)
    PROVE  HashInv'
<1>1. PICK p : HashRows(p)
    BY DEF HashInv
<1> DEFINE n == Len(p[l])
           k == Len(p[m])
           p2 == Rearranged(p, l, Splice(p[l], pos, p[m]), m, << >>)
           q == p2[l]
<1>2. /\ p[l] \in Seq(Nodes) /\ n \in Nat /\ hst.size[l] = n /\ l \in Rows
      /\ hst.head[l] = At(p[l], 1) /\ hst.tail[l] = At(p[l], n)
      /\ hseqs \in [Lists -> Seq(NodeValues)]
    BY <1>1, HeldRow DEF HashRows
<1>3. /\ p[m] \in Seq(Nodes) /\ k \in Nat /\ hst.size[m] = k /\ m \in Rows
      /\ hst.head[m] = At(p[m], 1) /\ hst.tail[m] = At(p[m], k)
    BY <1>1, HeldRow DEF HashRows
<1>4. l # m /\ pos <= n /\ k > 0 /\ pos \in 0 .. n /\ 1 \in 1 .. k /\ k \in 1 .. k
    BY <1>2, <1>3 DEF Hash!HMoveIn
<1>5. hseqs' = [hseqs EXCEPT ![l] = Splice(hseqs[l], pos, hseqs[m]), ![m] = << >>]
    BY <1>2 DEF Hash!HMoveIn, Hash!Spliced, Splice
<1>6. hst.head[m] = p[m][1] /\ hst.tail[m] = p[m][k]
    BY <1>3, <1>4 DEF At
<1>7. /\ IsSplice(q, p[l], pos, p[m], Nodes) /\ p2[m] = << >>
      /\ \A r \in Lists \ {l, m} : p2[r] = p[r]
    <2>1. q = Splice(p[l], pos, p[m]) /\ p2[m] = << >> /\ \A r \in Lists \ {l, m} : p2[r] = p[r]
        BY <1>2, <1>3, <1>4, RowsAfter
    <2>2. IsSplice(Splice(p[l], pos, p[m]), p[l], pos, p[m], Nodes)
        BY <1>2, <1>3, <1>4, SpliceProperties
    <2> HIDE DEF p2
    <2> QED
        BY <2>1, <2>2
<1>8. LaidOut(NodesMoved(hst, l, At(p[l], pos), At(p[l], pos + 1), m), NodeValues, p2, hseqs')
    BY <1>1, <1>4, <1>5, NullIsNoNode, NodesJoined DEF HashRows
<1> HIDE DEF p2
<1>9. ASSUME NEW c, NEW x, NEW y, Hash!MovedIn(l, pos, m, x, y, c), x = At(p[l], pos),
             y = At(p[l], pos + 1), CacheOf(c, q)
      PROVE  HashInv'
    <2>1. /\ hst' = [Hash!Link(hst, l, x, hst.head[m], hst.tail[m], y)
                        EXCEPT !.size[l] = @ + hst.size[m],
                               !.head[m] = Null, !.tail[m] = Null, !.size[m] = 0]
          /\ cache' = [cache EXCEPT ![l] = c, ![m] = Hash!Nothing]
        BY <1>9 DEF Hash!MovedIn
    <2>2. Hash!Link(hst, l, x, hst.head[m], hst.tail[m], y) = Link(hst, l, x, hst.head[m], hst.tail[m], y)
        BY SameLink
    <2>3. hst' = NodesMoved(hst, l, x, y, m)
        BY <2>1, <2>2 DEF NodesMoved
    <2>4. LaidOut(hst', NodeValues, p2, hseqs')
        BY <1>8, <1>9, <2>3
    <2>5. /\ cache' = [r \in Lists |-> cache'[r]]
          /\ \A r \in Lists : cache'[r] = IF r = m THEN Hash!Nothing ELSE IF r = l THEN c ELSE cache[r]
        BY <1>4, <2>1 DEF HashInv
    <2>6. ASSUME NEW r \in Lists PROVE CacheOf(cache'[r], p2[r])
        <3>1. CASE r = m
            BY <2>5, <3>1, NothingCached
        <3>2. CASE r = l
            BY <1>4, <1>9, <2>5, <3>2
        <3>3. CASE r # m /\ r # l
            <4>1. CacheOf(cache[r], p[r])
                BY <1>1 DEF HashRows, RowsCached
            <4> QED
                BY <1>7, <2>5, <3>3, <4>1
        <3> QED
            BY <3>1, <3>2, <3>3
    <2>7. HashRows(p2)'
        BY <2>4, <2>6 DEF HashRows, RowsCached
    <2> QED
        BY <2>5, <2>7 DEF HashInv
<1>10. CASE pos = 0
    <2>1. n = 0 /\ Hash!MovedIn(l, pos, m, Null, hst.head[l], cache[l])
        BY <1>2, <1>10 DEF Hash!HMoveIn
    <2>2. Null = At(p[l], pos) /\ hst.head[l] = At(p[l], pos + 1)
        BY <1>2, <1>10, <2>1 DEF At
    <2>3. CacheOf(cache[l], q)
        <3>1. CacheOf(cache[l], p[l])
            BY <1>1 DEF HashRows, RowsCached
        <3>2. DOMAIN cache[l] = {}
            BY <2>1, <3>1 DEF CacheOf
        <3> QED
            BY <3>2 DEF CacheOf
    <2> QED
        BY <1>9, <2>1, <2>2, <2>3
<1>11. CASE pos # 0 /\ pos = n
    <2>1. Hash!MovedIn(l, pos, m, hst.tail[l], Null, Hash!Nothing)
        BY <1>2, <1>11 DEF Hash!HMoveIn
    <2>2. hst.tail[l] = At(p[l], pos) /\ Null = At(p[l], pos + 1)
        BY <1>2, <1>11 DEF At
    <2> QED
        BY <1>9, <2>1, <2>2, NothingCached
<1>12. CASE pos # 0 /\ pos # n
    <2>1. PICK found \in Hash!NodesAt(l, pos) :
              Hash!MovedIn(l, pos, m, hst.prev[found.node], found.node,
                           Hash!CacheMoved(found.left, pos, m))
        BY <1>2, <1>12 DEF Hash!HMoveIn
    <2>2. pos \in 0 .. n - 1 /\ pos + 1 \in 1 .. n /\ (pos + 1) - 1 = pos
        BY <1>2, <1>4, <1>12
    <2>3. found.node = p[l][pos + 1] /\ CacheOf(found.left, p[l])
        BY <1>1, <2>2, FoundNode
    <2>4. found.node = At(p[l], pos + 1) /\ hst.prev[found.node] = At(p[l], pos)
        <3>1. IsList(hst, l, p[l])
            BY <1>1, ListsInHolds DEF HashRows
        <3> QED
            BY <2>2, <2>3, <3>1 DEF IsList, Linked, At
    <2>5. /\ Len(q) = n + k /\ Len(q) \in Nat /\ pos <= Len(q)
          /\ q[pos + 1] = p[m][1] /\ q[pos + k] = p[m][k]
          /\ \A j \in 1 .. pos : q[j] = p[l][j]
        <3>1. Len(q) = n + k
            BY <1>7 DEF IsSplice
        <3>2. n + k \in Nat /\ pos <= n + k
            <4> HIDE DEF n, k
            <4> QED
                BY <1>2, <1>3, <1>4
        <3> QED
            BY <1>4, <1>7, <3>1, <3>2 DEF IsSplice
    <2> HIDE DEF q
    <2>6. CacheOf(Hash!CacheMoved(found.left, pos, m), q)
        <3> DEFINE below == Hash!Below(found.left, pos)
                   first == Hash!Put(below, pos, hst.head[m])
                   both == Hash!Put(first, pos + hst.size[m] - 1, hst.tail[m])
        <3>1. CacheOf(below, q)
            <4>1. pos \in Nat /\ Len(q) \in Nat /\ pos <= Len(q)
                  /\ \A j \in 1 .. pos : q[j] = p[l][j]
                <5>1. pos \in Nat
                    OBVIOUS
                <5> QED
                    BY <2>5, <5>1
            <4> QED
                BY <2>3, <4>1, BelowCached
        <3>2. CacheOf(first, q)
            <4>1. pos \in 0 .. Len(q) - 1
                <5> HIDE DEF n, k
                <5> QED
                    BY <1>2, <1>3, <2>2, <2>5
            <4> HIDE DEF below
            <4> QED
                BY <1>6, <2>5, <3>1, <4>1, PutCached
        <3>3. CacheOf(both, q)
            <4> DEFINE i == pos + hst.size[m] - 1
            <4>1. i \in 0 .. Len(q) - 1 /\ i + 1 = pos + k
                <5> HIDE DEF n, k
                <5> QED
                    BY <1>2, <1>3, <1>4, <2>2, <2>5
            <4> HIDE DEF first, i
            <4>2. hst.tail[m] = q[i + 1]
                BY <1>6, <2>5, <4>1
            <4>3. CacheOf(Hash!Put(first, i, hst.tail[m]), q)
                BY <3>2, <4>1, <4>2, PutCached
            <4> QED
                BY <4>3 DEF i
        <3>4. Hash!CacheMoved(found.left, pos, m) \in {first, both}
            BY DEF Hash!CacheMoved
        <3> HIDE DEF first, both
        <3> QED
            BY <3>2, <3>3, <3>4
    <2> QED
        BY <1>9, <2>1, <2>4, <2>6
<1> QED
    BY <1>10, <1>11, <1>12

(* The row of l without its node after the first k. *)
Erases(p, l, k) ==
    hst' = EraseNode(hst, l, p[l][k + 1]) /\ hseqs' = [hseqs EXCEPT ![l] = Cut(hseqs[l], k)]

RowIsCut(p, p2, l, k) ==
    /\ LaidOut(hst', NodeValues, p2, hseqs') /\ IsCut(p2[l], p[l], k, Nodes)
    /\ \A r \in Lists \ {l} : p2[r] = p[r]

LEMMA CutRow ==
    ASSUME NEW p, HashRows(p), NEW l \in Lists, NEW k \in 0 .. Len(p[l]) - 1, Erases(p, l, k)
    PROVE  \E p2 : RowIsCut(p, p2, l, k)
<1> DEFINE p2 == Rearranged(p, l, Cut(p[l], k), FreeRow, Append(hst.free, p[l][k + 1]))
<1>1. p[l] \in Seq(Nodes)
    BY HeldRow DEF HashRows
<1>2. LaidOut(hst', NodeValues, p2, hseqs')
    BY NullIsNoNode, NodeErased DEF HashRows, Erases
<1>3. IsCut(Cut(p[l], k), p[l], k, Nodes)
    BY <1>1, CutProperties
<1>4. p2[l] = Cut(p[l], k) /\ \A r \in Lists \ {l} : p2[r] = p[r]
    BY FreeRowIsNoList DEF Rearranged, Rows
<1> HIDE DEF p2
<1>5. RowIsCut(p, p2, l, k)
    BY <1>2, <1>3, <1>4 DEF RowIsCut
<1> QED
    BY <1>5

LEMMA HashPopFrontStep ==
    ASSUME HashInv, NEW l \in Lists, Hash!PopFront(l)
    PROVE  HashInv'
<1>1. PICK p : HashRows(p)
    BY DEF HashInv
<1> DEFINE n == Len(p[l])
<1>2. /\ n \in Nat /\ hst.head[l] = At(p[l], 1) /\ hseqs[l] \in Seq(NodeValues)
      /\ Len(hseqs[l]) = n /\ hseqs \in [Lists -> Seq(NodeValues)]
    BY <1>1, HeldRow DEF HashRows
<1>3. /\ hst' = EraseNode(hst, l, hst.head[l])
      /\ cache' = [cache EXCEPT ![l] = Hash!Nothing]
      /\ hseqs' = [hseqs EXCEPT ![l] = SubSeq(hseqs[l], 2, Len(hseqs[l]))]
    BY SameErase DEF Hash!PopFront, Hash!Becomes
<1>4. CASE n = 0
    <2>1. hst.head[l] = Null
        BY <1>2, <1>4 DEF At
    <2>2. hst' = hst
        BY <1>3, <2>1 DEF EraseNode
    <2>3. SubSeq(hseqs[l], 2, Len(hseqs[l])) = hseqs[l]
        BY <1>2, <1>4, EmptyPop
    <2>4. hseqs' = hseqs
        BY <1>2, <1>3, <2>3
    <2>5. LaidOut(hst', NodeValues, p, hseqs')
        BY <1>1, <2>2, <2>4 DEF HashRows
    <2>6. CacheOf(Hash!Nothing, p[l])
        BY NothingCached
    <2> QED
        BY <1>1, <1>3, <2>5, <2>6, HashKept
<1>5. CASE n # 0
    <2>1. n > 0 /\ 0 \in 0 .. n - 1 /\ 1 \in 1 .. n /\ 0 + 1 = 1
        BY <1>2, <1>5
    <2>2. hst' = EraseNode(hst, l, p[l][0 + 1])
        BY <1>2, <1>3, <2>1 DEF At
    <2>3. hseqs' = [hseqs EXCEPT ![l] = Cut(hseqs[l], 0)]
        BY <1>2, <1>3, <2>1, TailIsCut
    <2>4. PICK p2 : RowIsCut(p, p2, l, 0)
        <3>1. Erases(p, l, 0)
            BY <2>2, <2>3 DEF Erases
        <3> QED
            BY <1>1, <2>1, <3>1, CutRow
    <2>5. CacheOf(Hash!Nothing, p2[l])
        BY NothingCached
    <2> QED
        BY <1>1, <1>3, <2>4, <2>5, HashKept DEF RowIsCut
<1> QED
    BY <1>4, <1>5

LEMMA HashPopBackStep ==
    ASSUME HashInv, NEW l \in Lists, Hash!PopBack(l)
    PROVE  HashInv'
<1>1. PICK p : HashRows(p)
    BY DEF HashInv
<1> DEFINE n == Len(p[l])
           c == [i \in DOMAIN cache[l] \ {hst.size[l] - 1} |-> cache[l][i]]
<1>2. /\ n \in Nat /\ hst.tail[l] = At(p[l], n) /\ hseqs[l] \in Seq(NodeValues)
      /\ Len(hseqs[l]) = n /\ hseqs \in [Lists -> Seq(NodeValues)] /\ hst.size[l] = n
    BY <1>1, HeldRow DEF HashRows
<1>3. /\ hst' = EraseNode(hst, l, hst.tail[l])
      /\ cache' = [cache EXCEPT ![l] = c]
      /\ hseqs' = [hseqs EXCEPT ![l] = SubSeq(hseqs[l], 1, Len(hseqs[l]) - 1)]
    BY SameErase DEF Hash!PopBack, Hash!Becomes, HashInv
<1>4. DOMAIN c = DOMAIN cache[l] \ {n - 1} /\ \A i \in DOMAIN c : c[i] = cache[l][i]
    BY <1>2
<1>5. CacheOf(cache[l], p[l])
    BY <1>1 DEF HashRows, RowsCached
<1> HIDE DEF c
<1>6. CASE n = 0
    <2>1. hst.tail[l] = Null
        BY <1>2, <1>6 DEF At
    <2>2. hst' = hst
        BY <1>3, <2>1 DEF EraseNode
    <2>3. SubSeq(hseqs[l], 1, Len(hseqs[l]) - 1) = hseqs[l]
        BY <1>2, <1>6, EmptyPop
    <2>4. hseqs' = hseqs
        BY <1>2, <1>3, <2>3
    <2>5. LaidOut(hst', NodeValues, p, hseqs')
        BY <1>1, <2>2, <2>4 DEF HashRows
    <2>6. CacheOf(c, p[l])
        BY <1>4, <1>5 DEF CacheOf
    <2> QED
        BY <1>1, <1>3, <2>5, <2>6, HashKept
<1>7. CASE n # 0
    <2>1. n > 0 /\ n - 1 \in 0 .. n - 1 /\ n \in 1 .. n /\ (n - 1) + 1 = n
        BY <1>2, <1>7
    <2>2. hst' = EraseNode(hst, l, p[l][(n - 1) + 1])
        BY <1>2, <1>3, <2>1 DEF At
    <2>3. hseqs' = [hseqs EXCEPT ![l] = Cut(hseqs[l], n - 1)]
        BY <1>2, <1>3, <2>1, FrontIsCut
    <2>4. PICK p2 : RowIsCut(p, p2, l, n - 1)
        <3>1. Erases(p, l, n - 1)
            BY <2>2, <2>3 DEF Erases
        <3> QED
            BY <1>1, <2>1, <3>1, CutRow
    <2>5. CacheOf(c, p2[l])
        <3>1. ASSUME NEW i \in DOMAIN c PROVE i \in 0 .. Len(p2[l]) - 1 /\ c[i] = p2[l][i + 1]
            <4>1. i \in 0 .. n - 1 /\ i # n - 1 /\ c[i] = p[l][i + 1]
                BY <1>4, <1>5 DEF CacheOf
            <4>2. i + 1 \in 1 .. n - 1 /\ i \in 0 .. (n - 1) - 1
                BY <1>2, <4>1
            <4>3. Len(p2[l]) = n - 1 /\ p2[l][i + 1] = p[l][i + 1]
                BY <2>4, <4>2 DEF IsCut, RowIsCut
            <4> QED
                BY <4>1, <4>2, <4>3
        <3> QED
            BY <3>1 DEF CacheOf
    <2> QED
        BY <1>1, <1>3, <2>4, <2>5, HashKept DEF RowIsCut
<1> QED
    BY <1>6, <1>7

LEMMA HashEraseInsideStep ==
    ASSUME HashInv, NEW l \in Lists, NEW idx \in Nat, idx + 1 < hst.size[l], Hash!EraseInside(l, idx)
    PROVE  HashInv'
<1>1. PICK p : HashRows(p)
    BY DEF HashInv
<1> DEFINE n == Len(p[l])
<1>2. /\ n \in Nat /\ hseqs[l] \in Seq(NodeValues) /\ hst.size[l] = n
    BY <1>1, HeldRow DEF HashRows
<1>3. /\ idx \in 0 .. n - 1 /\ idx + 1 \in 1 .. n /\ idx + 1 \in (idx + 1) .. n - 1
      /\ (idx + 1) + 1 \in 1 .. n
    BY <1>2
<1>4. PICK found \in Hash!NodesAt(l, idx) :
          /\ hst' = Hash!EraseNode(hst, l, found.node)
          /\ cache' = [cache EXCEPT ![l] = Hash!Put(Hash!Below(found.left, idx), idx,
                                                    hst.next[found.node])]
    BY DEF Hash!EraseInside
<1>5. found.node = p[l][idx + 1] /\ CacheOf(found.left, p[l])
    BY <1>1, <1>3, FoundNode
<1>6. hst.next[found.node] = p[l][(idx + 1) + 1]
    <2>1. IsList(hst, l, p[l])
        BY <1>1, ListsInHolds DEF HashRows
    <2> QED
        BY <1>3, <1>5, <2>1 DEF IsList, Linked, At
<1>7. hst' = EraseNode(hst, l, p[l][idx + 1])
    BY <1>4, <1>5, SameErase
<1>8. hseqs' = [hseqs EXCEPT ![l] = Cut(hseqs[l], idx)]
    <2>1. Hash!RemoveAt(hseqs[l], idx + 1) = RemoveAt(hseqs[l], idx + 1)
        BY DEF Hash!RemoveAt, RemoveAt
    <2> QED
        BY <1>2, <2>1, RemoveAtIsCut DEF Hash!EraseInside, Hash!Becomes
<1>9. PICK p2 : RowIsCut(p, p2, l, idx)
    <2>1. Erases(p, l, idx)
        BY <1>7, <1>8 DEF Erases
    <2> QED
        BY <1>1, <1>3, <2>1, CutRow
<1> DEFINE q == p2[l]
<1>10. /\ Len(q) = n - 1 /\ Len(q) \in Nat /\ idx <= Len(q) /\ q[idx + 1] = p[l][(idx + 1) + 1]
       /\ \A j \in 1 .. idx : q[j] = p[l][j]
    <2>1. Len(q) = n - 1
        BY <1>9 DEF IsCut, RowIsCut
    <2>2. n - 1 \in Nat /\ idx <= n - 1
        BY <1>2, <1>3
    <2> QED
        BY <1>3, <1>9, <2>1, <2>2 DEF IsCut, RowIsCut
<1> HIDE DEF q
<1> DEFINE kept == Hash!Below(found.left, idx)
           c == Hash!Put(kept, idx, hst.next[found.node])
<1>11. CacheOf(kept, q)
    BY <1>5, <1>10, BelowCached
<1>12. CacheOf(c, q)
    <2>1. idx \in 0 .. Len(q) - 1
        BY <1>2, <1>3, <1>10
    <2> HIDE DEF kept
    <2> QED
        BY <1>6, <1>10, <1>11, <2>1, PutCached
<1>13. cache' = [cache EXCEPT ![l] = c]
    BY <1>4
<1> HIDE DEF c
<1> QED
    BY <1>1, <1>9, <1>12, <1>13, HashKept DEF q, RowIsCut

LEMMA HashEraseStep ==
    ASSUME EdgeCalls = {}, HashInv, NEW l \in Lists, NEW idx \in 0 .. MaxNodes, Hash!HErase(l, idx)
    PROVE  HashInv'
<1>1. PICK p : HashRows(p)
    BY DEF HashInv
<1>2. hst.size[l] \in Nat /\ idx \in Nat
    BY <1>1, HeldRow DEF HashRows
<1>3. idx < hst.size[l] /\ IF idx = 0 THEN Hash!PopFront(l)
                           ELSE IF idx + 1 = hst.size[l] THEN Hash!PopBack(l)
                           ELSE Hash!EraseInside(l, idx)
    BY DEF Hash!HErase
<1>4. CASE idx = 0
    BY <1>3, <1>4, HashPopFrontStep
<1>5. CASE idx # 0 /\ idx + 1 = hst.size[l]
    BY <1>3, <1>5, HashPopBackStep
<1>6. CASE idx # 0 /\ idx + 1 # hst.size[l]
    <2>1. idx + 1 < hst.size[l]
        BY <1>2, <1>3, <1>6
    <2> QED
        BY <1>2, <1>3, <1>6, <2>1, HashEraseInsideStep
<1> QED
    BY <1>4, <1>5, <1>6

LEMMA HashClearStep ==
    ASSUME EdgeCalls = {}, HashInv, NEW l \in Lists, Hash!HClear(l)
    PROVE  HashInv'
<1>1. PICK p : HashRows(p)
    BY DEF HashInv
<1>2. /\ hst' = ClearList(hst, l) /\ hseqs' = [hseqs EXCEPT ![l] = << >>]
      /\ cache' = [cache EXCEPT ![l] = Hash!Nothing]
    <2>1. "clear and go on" \notin EdgeCalls
        OBVIOUS
    <2> QED
        BY <2>1, SameClear DEF Hash!HClear, Hash!Becomes, HashInv
<1> DEFINE p2 == Rearranged(p, FreeRow, Splice(hst.free, Len(hst.free), p[l]), l, << >>)
<1>3. LaidOut(hst', NodeValues, p2, hseqs')
    BY <1>1, <1>2, NullIsNoNode, ListCleared DEF HashRows
<1>4. \A r \in Lists \ {l} : p2[r] = p[r]
    BY FreeRowIsNoList DEF Rearranged, Rows
<1> HIDE DEF p2
<1>5. CacheOf(Hash!Nothing, p2[l])
    BY NothingCached
<1> QED
    BY <1>1, <1>2, <1>3, <1>4, <1>5, HashKept

LEMMA HashAccessStep ==
    ASSUME HashInv, NEW l \in Lists, NEW idx \in 0 .. MaxNodes, Hash!Access(l, idx)
    PROVE  HashInv'
<1>1. PICK p : HashRows(p)
    BY DEF HashInv
<1>2. PICK found \in Hash!NodesAt(l, idx) : cache' = [cache EXCEPT ![l] = found.left]
    BY DEF Hash!Access
<1>3. idx \in 0 .. Len(p[l]) - 1
    <2>1. Len(p[l]) \in Nat /\ hst.size[l] = Len(p[l]) /\ idx < hst.size[l]
        BY <1>1, HeldRow DEF HashRows, Hash!Access
    <2> QED
        BY <2>1
<1>4. CacheOf(found.left, p[l])
    BY <1>1, <1>3, FoundNode
<1>5. LaidOut(hst', NodeValues, p, hseqs')
    BY <1>1 DEF HashRows, Hash!Access
<1> QED
    BY <1>1, <1>2, <1>4, <1>5, HashKept

LEMMA HashInit == Hash!Init => HashInv
<1> SUFFICES ASSUME Hash!Init PROVE HashInv
    OBVIOUS
<1> DEFINE p == [r \in Rows |-> << >>]
<1>1. /\ hst = NoNodes /\ cache = [l \in Lists |-> Hash!Nothing]
      /\ hseqs = [l \in Lists |-> << >>]
    BY SameNoNodes DEF Hash!Init
<1>2. LaidOut(hst, NodeValues, p, hseqs)
    BY <1>1, NullIsNoNode, NothingHeld
<1> HIDE DEF p
<1>3. \A l \in Lists : CacheOf(cache[l], p[l])
    BY <1>1, NothingCached
<1>4. cache = [l \in Lists |-> cache[l]]
    BY <1>1
<1> QED
    BY <1>2, <1>3, <1>4 DEF HashInv, HashRows, RowsCached

LEMMA HashStep ==
    ASSUME EdgeCalls = {}, HashInv, [Hash!Next]_(Hash!vars)
    PROVE  HashInv'
<1>1. CASE UNCHANGED Hash!vars
    BY <1>1 DEF Hash!vars, HashInv, HashRows, RowsCached
<1>2. CASE Hash!Next
    BY <1>2, HashPushBackStep, HashPushFrontStep, HashInsertStep, HashMoveInStep, HashAccessStep,
       HashEraseStep, HashPopFrontStep, HashPopBackStep, HashClearStep DEF Hash!Next
<1> QED
    BY <1>1, <1>2

LEMMA HashIsSound == HashInv => Hash!CacheExact /\ Hash!HashListsAgree
<1> SUFFICES ASSUME NEW p, HashRows(p) PROVE Hash!CacheExact /\ Hash!HashListsAgree
    BY DEF HashInv
<1>1. /\ \A l \in Lists : WellLinked(hst, l) /\ Sequence(hst, l) = hseqs[l]
      /\ EverySlotOnce(hst)
    BY NullIsNoNode, HoldsIsSound DEF HashRows
<1>2. Hash!HashListsAgree
    BY <1>1, SameLists, SameSlots DEF Hash!HashListsAgree
<1>3. ASSUME NEW l \in Lists, NEW i \in DOMAIN cache[l]
      PROVE  i < Len(hseqs[l]) /\ i < hst.size[l] /\ cache[l][i] = Hash!Chain(hst, l)[i + 1]
    <2>1. i \in 0 .. Len(p[l]) - 1 /\ cache[l][i] = p[l][i + 1]
        BY DEF HashRows, RowsCached, CacheOf
    <2>2. Len(hseqs[l]) = Len(p[l]) /\ hst.size[l] = Len(p[l]) /\ Len(p[l]) \in Nat
        BY HeldRow DEF HashRows
    <2>3. Hash!Chain(hst, l) = p[l]
        BY ListsInHolds, SameLists DEF HashRows
    <2> QED
        BY <2>1, <2>2, <2>3
<1>4. Hash!CacheExact
    BY <1>3 DEF Hash!CacheExact
<1> QED
    BY <1>2, <1>4

(* As long as none of the four calls is made that leave the cache or the   *)
(* size of a PooledHashList wrong, every index it cached leads to the node *)
(* at that index.                                                          *)
THEOREM CacheIsExact ==
    ASSUME EdgeCalls = {}
    PROVE  AllSpec => []CacheExact
<1>1. AllInit => HashInv
    BY HashInit DEF AllInit
<1>2. HashInv /\ [AllNext]_allVars => HashInv'
    <2>1. [AllNext]_allVars => [Hash!Next]_(Hash!vars)
        BY DEF AllNext, allVars, hashVars, Hash!vars
    <2> QED
        BY <2>1, HashStep
<1>3. HashInv => CacheExact
    BY HashIsSound DEF CacheExact
<1> QED
    BY <1>1, <1>2, <1>3, PTL DEF AllSpec

(* And, searching from what it cached, it holds the sequence its calls ask *)
(* for, in nodes that the pool gave out once.                              *)
THEOREM HashListsHold ==
    ASSUME EdgeCalls = {}
    PROVE  AllSpec => []HashListsAgree
<1>1. AllInit => HashInv
    BY HashInit DEF AllInit
<1>2. HashInv /\ [AllNext]_allVars => HashInv'
    <2>1. [AllNext]_allVars => [Hash!Next]_(Hash!vars)
        BY DEF AllNext, allVars, hashVars, Hash!vars
    <2> QED
        BY <2>1, HashStep
<1>3. HashInv => HashListsAgree
    BY HashIsSound DEF HashListsAgree
<1> QED
    BY <1>1, <1>2, <1>3, PTL DEF AllSpec

(* The lists of the program, whatever is called: their links hold together *)
(* both ways and show the sequences of elements their calls ask for, and   *)
(* the pool loses no node and gives none out twice.                        *)
THEOREM ListsHold == AllSpec => []ListsSound
<1>1. AllInit => ListsAreRows
    BY ListsInit DEF AllInit
<1>2. ListsAreRows /\ [AllNext]_allVars => ListsAreRows'
    <2>1. [AllNext]_allVars => [Next]_vars
        BY DEF AllNext, allVars
    <2> QED
        BY <2>1, ListsStep
<1>3. ListsAreRows => ListsSound
    BY RowsAreSound
<1> QED
    BY <1>1, <1>2, <1>3, PTL DEF AllSpec

-----------------------------------------------------------------------------
(* SegVector                                                               *)

SegmentCells == [1 .. SEGMENT_SIZE -> Elements \cup {Default}]
Blocks == [size : Nat, segments : Seq(Nat), refCount : Nat]
Memories ==
    [ctrl : [Lists -> Lists \cup {Null}], blocks : [Lists -> Blocks],
     cells : Seq(SegmentCells), freed : Seq(Nat)]

(* The segments lie in rows as nodes do: a row for each control block, and *)
(* one for the segments that were freed.                                   *)
InRows(m, p) ==
    /\ m \in Memories /\ Placed(p, Len(m.cells)) /\ Len(m.cells) <= MaxNodes
    /\ p[FreeRow] = m.freed

(* The segments that can still be had. *)
Available(m) == Len(m.freed) + MaxNodes - Len(m.cells)

(* a is m after x was allocated and put at the end of row l of p.          *)
TakesSegment(m, a, x, p, p2, l) ==
    /\ InRows(a, p2) /\ a.ctrl = m.ctrl /\ a.blocks = m.blocks
    /\ x \in Nodes /\ x \in 1 .. Len(a.cells)
    /\ p2[l] = Append(p[l], x) /\ \A r \in Lists \ {l} : p2[r] = p[r]
    /\ \A r \in Lists : \A i \in 1 .. Len(p[r]) : p[r][i] # x
    /\ Len(a.cells) >= Len(m.cells) /\ \A y \in 1 .. Len(m.cells) : a.cells[y] = m.cells[y]
    /\ Available(a) = Available(m) - 1

LEMMA SegmentThere ==
    ASSUME NEW m, NEW p, InRows(m, p), Available(m) >= 1
    PROVE  Segments!NextSegment(m) \in Nodes
<1>1. /\ m.freed \in Seq(Nodes) /\ Len(m.cells) \in Nat /\ Len(m.freed) \in Nat
      /\ MaxNodes \in Nat
    BY NodesAssumption DEF InRows, Memories, Placed, Rows
<1>2. CASE m.freed # << >>
    <2>1. Len(m.freed) \in 1 .. Len(m.freed)
        BY <1>1, <1>2
    <2> QED
        BY <1>1, <1>2, <2>1 DEF Segments!NextSegment, Segments!Last
<1>3. CASE m.freed = << >>
    <2>1. Len(m.freed) = 0
        BY <1>3
    <2>2. Len(m.cells) + 1 \in 1 .. MaxNodes
        BY <1>1, <2>1 DEF Available
    <2> QED
        BY <1>3, <2>2 DEF Segments!NextSegment, Nodes
<1> QED
    BY <1>2, <1>3

(* What allocateSegment() does to the memory. *)
LEMMA AllocatedFields ==
    ASSUME NEW m \in Memories
    PROVE  LET a == Segments!Allocated(m)
               x == Segments!NextSegment(m)
           IN  /\ a \in Memories /\ a.ctrl = m.ctrl /\ a.blocks = m.blocks
               /\ x \in Nat /\ Len(a.cells) \in Nat /\ Len(m.cells) \in Nat
               /\ Len(a.cells) >= Len(m.cells)
               /\ \A y \in 1 .. Len(m.cells) : a.cells[y] = m.cells[y]
               /\ IF m.freed # << >>
                  THEN /\ a.cells = m.cells /\ a.freed = SubSeq(m.freed, 1, Len(m.freed) - 1)
                       /\ Len(a.freed) = Len(m.freed) - 1
                  ELSE Len(a.cells) = Len(m.cells) + 1 /\ a.freed = << >>
<1> DEFINE a == Segments!Allocated(m)
           x == Segments!NextSegment(m)
           new == [i \in 1 .. SEGMENT_SIZE |-> Default]
<1>1. /\ m.cells \in Seq(SegmentCells) /\ m.freed \in Seq(Nat) /\ Len(m.cells) \in Nat
      /\ new \in SegmentCells
    BY DEF Memories, SegmentCells
<1>2. CASE m.freed # << >>
    <2>1. Len(m.freed) \in Nat /\ Len(m.freed) >= 1
        BY <1>1, <1>2
    <2>2. a = [m EXCEPT !.freed = SubSeq(@, 1, Len(m.freed) - 1)] /\ x = m.freed[Len(m.freed)]
        BY <1>2 DEF Segments!Allocated, Segments!NextSegment, Segments!Front, Segments!Last
    <2> DEFINE rest == SubSeq(m.freed, 1, Len(m.freed) - 1)
    <2>3. rest \in Seq(Nat) /\ Len(rest) = Len(m.freed) - 1
        <3> DEFINE n == Len(m.freed)
        <3>1. n \in Nat /\ n >= 1 /\ n - 1 \in Nat /\ \A i \in 1 .. n - 1 : m.freed[i] \in Nat
            BY <1>1, <2>1
        <3>2. /\ rest \in Seq(Nat) /\ Len(rest) = IF 1 <= n - 1 THEN n - 1 - 1 + 1 ELSE 0
            BY <1>1, <3>1, SubSeqProperties
        <3> HIDE DEF n
        <3>3. Len(rest) = n - 1
            BY <3>1, <3>2
        <3> QED
            BY <3>2, <3>3 DEF n
    <2>4. x \in Nat
        BY <1>1, <2>1, <2>2
    <2> HIDE DEF rest
    <2>5. a = [m EXCEPT !.freed = rest]
        BY <2>2 DEF rest
    <2>6. a \in Memories /\ a.ctrl = m.ctrl /\ a.blocks = m.blocks /\ a.cells = m.cells
          /\ a.freed = rest
        BY <2>3, <2>5 DEF Memories
    <2> QED
        BY <1>1, <1>2, <2>3, <2>4, <2>6 DEF rest
<1>3. CASE m.freed = << >>
    <2>1. a = [m EXCEPT !.cells = Append(@, new)] /\ x = Len(m.cells) + 1
        BY <1>3 DEF Segments!Allocated, Segments!NextSegment
    <2>2. /\ Append(m.cells, new) \in Seq(SegmentCells)
          /\ Len(Append(m.cells, new)) = Len(m.cells) + 1
          /\ \A y \in 1 .. Len(m.cells) : Append(m.cells, new)[y] = m.cells[y]
        BY <1>1, AppendProperties
    <2> HIDE DEF new
    <2>3. a \in Memories /\ a.ctrl = m.ctrl /\ a.blocks = m.blocks /\ a.freed = m.freed
          /\ a.cells = Append(m.cells, new)
        BY <2>1, <2>2 DEF Memories
    <2> QED
        BY <1>1, <1>3, <2>1, <2>2, <2>3
<1> QED
    BY <1>2, <1>3

LEMMA SegmentTaken ==
    ASSUME NEW m, NEW p, InRows(m, p), Available(m) >= 1, NEW l \in Lists
    PROVE  \E p2 : TakesSegment(m, Segments!Allocated(m), Segments!NextSegment(m), p, p2, l)
<1> DEFINE a == Segments!Allocated(m)
           x == Segments!NextSegment(m)
           s == [NoNodes EXCEPT !.free = m.freed, !.made = Len(m.cells)]
           p2 == Taken(s, p, l, Len(p[l]))
<1>1. /\ m \in Memories /\ m.freed \in Seq(Nodes) /\ Len(m.cells) \in Nat /\ Len(m.freed) \in Nat
      /\ p \in [Rows -> Seq(Nodes)] /\ p[l] \in Seq(Nodes) /\ MaxNodes \in Nat
      /\ l \in Rows /\ FreeRow \in Rows /\ l # FreeRow
      /\ Placed(p, Len(m.cells)) /\ Len(m.cells) <= MaxNodes /\ p[FreeRow] = m.freed
    BY NodesAssumption, FreeRowIsNoList DEF InRows, Memories, Placed, Rows
<1>2. s \in NodeRecords({Null}) /\ s.free = m.freed /\ s.made = Len(m.cells)
    <2>1. NoNodes \in NodeRecords({Null})
        BY DEF NoNodes, NodeRecords, Links
    <2> QED
        BY <1>1, <2>1 DEF NodeRecords
<1>3. NextSlot(s) = x /\ x \in Nodes /\ HasRoom(s)
    <2>1. NextSlot(s) = x
        BY <1>2 DEF NextSlot, Segments!NextSegment, Last, Segments!Last
    <2> QED
        BY <2>1, SegmentThere DEF HasRoom
<1>4. /\ a \in Memories /\ a.ctrl = m.ctrl /\ a.blocks = m.blocks
      /\ Len(a.cells) \in Nat /\ Len(a.cells) >= Len(m.cells)
      /\ \A y \in 1 .. Len(m.cells) : a.cells[y] = m.cells[y]
      /\ IF m.freed # << >>
         THEN /\ a.cells = m.cells /\ a.freed = SubSeq(m.freed, 1, Len(m.freed) - 1)
              /\ Len(a.freed) = Len(m.freed) - 1
         ELSE Len(a.cells) = Len(m.cells) + 1 /\ a.freed = << >>
    BY <1>1, AllocatedFields
<1>5. PopFree(s) = a.freed /\ MadeThen(s) = Len(a.cells)
    BY <1>2, <1>4 DEF PopFree, MadeThen, Front
<1>6. Len(p[l]) \in 0 .. Len(p[l])
    BY <1>1
<1> HIDE DEF s, a, x
<1>7. /\ Placed(p2, Len(a.cells))
      /\ \A r \in Lists : \A i \in 1 .. Len(p[r]) : p[r][i] # x
    BY <1>1, <1>2, <1>3, <1>5, <1>6, SlotTaken
<1>8. /\ p2[l] = Append(p[l], x) /\ p2[FreeRow] = a.freed
      /\ \A r \in Lists \ {l} : p2[r] = p[r]
    <2>1. Splice(p[l], Len(p[l]), <<x>>) = Append(p[l], x)
        BY <1>1, <1>3, AppendIsSplice
    <2>2. p2 = Rearranged(p, l, Append(p[l], x), FreeRow, a.freed)
        BY <1>3, <1>5, <2>1 DEF Taken
    <2> HIDE DEF p2
    <2> QED
        BY <1>1, <2>2, FreeRowIsNoList DEF Rearranged, Rows
<1>9. /\ x \in 1 .. Len(a.cells) /\ Len(a.cells) <= MaxNodes /\ Available(a) = Available(m) - 1
    <2>1. x \in 1 .. Len(a.cells)
        <3>1. Len(p[l]) + 1 \in 1 .. Len(p2[l]) /\ p2[l][Len(p[l]) + 1] = x
            BY <1>1, <1>3, <1>8, AppendProperties
        <3> QED
            BY <1>1, <1>7, <3>1 DEF Placed, InPlaces
    <2>2. CASE m.freed # << >>
        <3>1. Len(a.freed) = Len(m.freed) - 1 /\ Len(a.cells) = Len(m.cells)
            BY <1>4, <2>2
        <3> QED
            BY <1>1, <1>4, <2>1, <2>2, <3>1 DEF Available
    <2>3. CASE m.freed = << >>
        <3>1. Len(m.freed) = 0 /\ Len(a.freed) = 0 /\ Len(a.cells) = Len(m.cells) + 1
            BY <1>4, <2>3
        <3>2. Len(m.cells) < MaxNodes
            BY <1>1, <3>1 DEF Available
        <3> QED
            BY <1>1, <2>1, <3>1, <3>2 DEF Available
    <2> QED
        BY <2>2, <2>3
<1> HIDE DEF p2
<1>10. TakesSegment(m, a, x, p, p2, l)
    BY <1>3, <1>4, <1>7, <1>8, <1>9 DEF TakesSegment, InRows
<1> QED
    BY <1>10 DEF a, x

LEMMA CellChanged ==
    ASSUME NEW S, NEW s \in Seq(S), NEW x, NEW e \in S
    PROVE  LET r == [s EXCEPT ![x] = e]
           IN  /\ r \in Seq(S) /\ Len(r) = Len(s)
               /\ \A i \in 1 .. Len(s) : r[i] = IF i = x THEN e ELSE s[i]
<1> DEFINE r == [s EXCEPT ![x] = e]
<1>1. /\ Len(s) \in Nat /\ s \in [1 .. Len(s) -> S] /\ DOMAIN s = 1 .. Len(s)
    OBVIOUS
<1>2. r \in [1 .. Len(s) -> S] /\ \A i \in 1 .. Len(s) : r[i] = IF i = x THEN e ELSE s[i]
    BY <1>1
<1> HIDE DEF r
<1>3. r \in Seq(S) /\ Len(r) = Len(s)
    BY <1>1, <1>2
<1> QED
    BY <1>2, <1>3 DEF r

(* deepCopy() copies a segment y to one that it allocates. *)
CopySegment(k, y) ==
    LET x == Segments!NextSegment(k.m)
        a == Segments!Allocated(k.m)
    IN  [m |-> [a EXCEPT !.cells[x] = a.cells[y]], segments |-> Append(k.segments, x)]

(* Where n segments are there to be copied. *)
CopyStates(n) == {k \in [m : Memories, segments : Seq(Nat)] : Len(k.m.cells) >= n}

LEMMA CopySegmentFields ==
    ASSUME NEW n \in Nat, NEW k \in CopyStates(n), NEW y \in 1 .. n
    PROVE  LET x == Segments!NextSegment(k.m)
               a == Segments!Allocated(k.m)
               c == CopySegment(k, y)
           IN  /\ c \in CopyStates(n) /\ c.segments = Append(k.segments, x)
               /\ c.m.ctrl = a.ctrl /\ c.m.blocks = a.blocks /\ c.m.freed = a.freed
               /\ Len(c.m.cells) = Len(a.cells)
               /\ \A i \in 1 .. Len(a.cells) :
                      c.m.cells[i] = IF i = x THEN a.cells[y] ELSE a.cells[i]
<1> DEFINE x == Segments!NextSegment(k.m)
           a == Segments!Allocated(k.m)
           e == [a.cells EXCEPT ![x] = a.cells[y]]
           c == CopySegment(k, y)
<1>1. k.m \in Memories /\ k.segments \in Seq(Nat) /\ Len(k.m.cells) >= n
    BY DEF CopyStates
<1>2. /\ a \in Memories /\ x \in Nat /\ Len(a.cells) \in Nat /\ Len(k.m.cells) \in Nat
      /\ Len(a.cells) >= Len(k.m.cells)
    BY <1>1, AllocatedFields
<1>3. a.cells \in Seq(SegmentCells) /\ a.cells[y] \in SegmentCells
    <2>1. a.cells \in Seq(SegmentCells)
        BY <1>2 DEF Memories
    <2>2. y \in 1 .. Len(a.cells)
        BY <1>1, <1>2
    <2> QED
        BY <2>1, <2>2
<1>4. /\ e \in Seq(SegmentCells) /\ Len(e) = Len(a.cells)
      /\ \A i \in 1 .. Len(a.cells) : e[i] = IF i = x THEN a.cells[y] ELSE a.cells[i]
    BY <1>3, CellChanged
<1>5. c = [m |-> [a EXCEPT !.cells = e], segments |-> Append(k.segments, x)]
    BY DEF CopySegment
<1>6. Append(k.segments, x) \in Seq(Nat)
    BY <1>1, <1>2
<1>7. /\ c.m \in Memories /\ c.segments = Append(k.segments, x)
      /\ c.m.ctrl = a.ctrl /\ c.m.blocks = a.blocks /\ c.m.freed = a.freed /\ c.m.cells = e
      /\ c \in [m : Memories, segments : Seq(Nat)]
    <2> DEFINE g == [a EXCEPT !.cells = e]
    <2> HIDE DEF e, a, x, c
    <2>1. g \in Memories /\ g.ctrl = a.ctrl /\ g.blocks = a.blocks /\ g.freed = a.freed /\ g.cells = e
        BY <1>2, <1>4 DEF Memories
    <2> HIDE DEF g
    <2>2. c = [m |-> g, segments |-> Append(k.segments, x)]
        BY <1>5 DEF g
    <2> QED
        BY <1>6, <2>1, <2>2
<1>8. Len(c.m.cells) >= n
    <2> HIDE DEF c, e, a, x
    <2> QED
        BY <1>1, <1>2, <1>4, <1>7
<1> QED
    <2> HIDE DEF e
    <2> QED
        BY <1>4, <1>7, <1>8 DEF CopyStates

(* k after n segments of src are copied, from the memory m with the rows p *)
(* and to the row c, which was empty.                                      *)
Copied(m, p, c, src, n, k) ==
    /\ k \in CopyStates(Len(m.cells))
    /\ k.m.ctrl = m.ctrl /\ k.m.blocks = m.blocks
    /\ Len(k.segments) = n /\ Available(k.m) = Available(m) - n
    /\ \E p2 : /\ InRows(k.m, p2) /\ p2[c] = k.segments
               /\ \A r \in Lists \ {c} : p2[r] = p[r]
    /\ \A r \in Lists \ {c} : \A i \in 1 .. Len(p[r]) : k.m.cells[p[r][i]] = m.cells[p[r][i]]
    /\ \A i \in 1 .. n : k.m.cells[k.segments[i]] = m.cells[src[i]]

(* A source of a copy: a row other than the one the copy goes to.          *)
CopySource(m, p, c, d) ==
    /\ InRows(m, p) /\ c \in Lists /\ d \in Lists /\ c # d /\ p[c] = << >>
    /\ Available(m) >= Len(p[d])

LEMMA AnotherCopied ==
    ASSUME NEW m, NEW p, NEW c, NEW d, CopySource(m, p, c, d), NEW i \in 1 .. Len(p[d]),
           NEW k, Copied(m, p, c, p[d], i - 1, k)
    PROVE  Copied(m, p, c, p[d], i, CopySegment(k, p[d][i]))
<1> DEFINE n == Len(m.cells)
           y == p[d][i]
           x == Segments!NextSegment(k.m)
           a == Segments!Allocated(k.m)
           e == CopySegment(k, y)
<1>1. /\ InRows(m, p) /\ c \in Lists /\ d \in Lists \ {c} /\ Available(m) >= Len(p[d])
      /\ Len(p[d]) \in Nat /\ n \in Nat /\ i - 1 \in Nat /\ i \in Nat
      /\ Available(m) \in Int
    BY NodesAssumption DEF CopySource, InRows, Memories, Placed, Rows, Available
<1>2. /\ k \in CopyStates(n) /\ k.m.ctrl = m.ctrl /\ k.m.blocks = m.blocks
      /\ Len(k.segments) = i - 1 /\ Available(k.m) = Available(m) - (i - 1)
      /\ k.m \in Memories /\ k.segments \in Seq(Nat) /\ Len(k.m.cells) >= n
    BY DEF Copied, CopyStates
<1>3. PICK q : /\ InRows(k.m, q) /\ q[c] = k.segments
               /\ \A r \in Lists \ {c} : q[r] = p[r]
    BY DEF Copied
<1>4. Available(k.m) >= 1
    BY <1>1, <1>2
<1>5. PICK p2 : TakesSegment(k.m, a, x, q, p2, c)
    BY <1>1, <1>3, <1>4, SegmentTaken
<1>6. y \in 1 .. n /\ \A r \in Lists : \A j \in 1 .. Len(p[r]) : p[r][j] \in 1 .. n
    BY <1>1 DEF InRows, Placed, InPlaces, Rows
<1>7. /\ e \in CopyStates(n) /\ e.segments = Append(k.segments, x)
      /\ e.m.ctrl = a.ctrl /\ e.m.blocks = a.blocks /\ e.m.freed = a.freed
      /\ Len(e.m.cells) = Len(a.cells)
      /\ \A j \in 1 .. Len(a.cells) : e.m.cells[j] = IF j = x THEN a.cells[y] ELSE a.cells[j]
    BY <1>1, <1>2, <1>6, CopySegmentFields
<1> HIDE DEF e, a, x, n, y
<1>8. /\ InRows(a, p2) /\ a.ctrl = k.m.ctrl /\ a.blocks = k.m.blocks
      /\ x \in Nodes /\ x \in 1 .. Len(a.cells)
      /\ p2[c] = Append(q[c], x) /\ \A r \in Lists \ {c} : p2[r] = q[r]
      /\ \A r \in Lists : \A j \in 1 .. Len(q[r]) : q[r][j] # x
      /\ Len(a.cells) >= Len(k.m.cells) /\ \A j \in 1 .. Len(k.m.cells) : a.cells[j] = k.m.cells[j]
      /\ Available(a) = Available(k.m) - 1
    BY <1>5 DEF TakesSegment
<1>9. Len(k.m.cells) \in Nat /\ Len(a.cells) \in Nat /\ a \in Memories /\ e.m \in Memories
    BY <1>2, <1>7, <1>8 DEF InRows, Memories, CopyStates
<1>10. /\ Len(e.segments) = i /\ Available(e.m) = Available(m) - i
       /\ \A j \in 1 .. (i - 1) : e.segments[j] = k.segments[j]
       /\ e.segments[i] = x
    <2>1. Available(e.m) = Available(a)
        BY <1>7 DEF Available
    <2>2. /\ Len(e.segments) = Len(k.segments) + 1 /\ e.segments[Len(k.segments) + 1] = x
          /\ \A j \in 1 .. Len(k.segments) : e.segments[j] = k.segments[j]
        <3>1. x \in Nat
            BY <1>8, NodesAssumption DEF Nodes
        <3> QED
            BY <1>2, <1>7, <3>1, AppendProperties
    <2> QED
        BY <1>1, <1>2, <1>8, <2>1, <2>2
<1>11. /\ InRows(e.m, p2) /\ p2[c] = e.segments
       /\ \A r \in Lists \ {c} : p2[r] = p[r]
    BY <1>3, <1>7, <1>8, <1>9 DEF InRows
<1>12. ASSUME NEW r \in Lists \ {c}, NEW j \in 1 .. Len(p[r])
       PROVE  e.m.cells[p[r][j]] = m.cells[p[r][j]]
    <2>1. p[r][j] \in 1 .. n /\ p[r][j] # x
        BY <1>3, <1>6, <1>8
    <2>2. p[r][j] \in 1 .. Len(k.m.cells) /\ p[r][j] \in 1 .. Len(a.cells)
        <3>1. \A z \in 1 .. n : z \in 1 .. Len(k.m.cells) /\ z \in 1 .. Len(a.cells)
            BY <1>1, <1>2, <1>8, <1>9, SMTT(30)
        <3> QED
            BY <2>1, <3>1
    <2>3. k.m.cells[p[r][j]] = m.cells[p[r][j]]
        BY DEF Copied
    <2> QED
        BY <1>7, <1>8, <2>1, <2>2, <2>3
<1>13. ASSUME NEW j \in 1 .. i
       PROVE  e.m.cells[e.segments[j]] = m.cells[p[d][j]]
    <2>1. CASE j = i
        <3>1. y \in 1 .. Len(k.m.cells) /\ k.m.cells[y] = m.cells[y]
            <4>1. k.m.cells[y] = m.cells[y]
                BY <1>1 DEF Copied, y
            <4> QED
                BY <1>1, <1>2, <1>6, <1>9, <4>1
        <3> QED
            BY <1>7, <1>8, <1>10, <2>1, <3>1, ZenonT(60) DEF y
    <2>2. CASE j # i
        <3>1. j \in 1 .. (i - 1)
            BY <1>1, <2>2
        <3>2. e.segments[j] = k.segments[j] /\ k.m.cells[k.segments[j]] = m.cells[p[d][j]]
            BY <1>10, <3>1 DEF Copied
        <3>3. k.segments[j] # x /\ k.segments[j] \in 1 .. Len(k.m.cells)
            <4>1. j \in 1 .. Len(q[c])
                BY <1>2, <1>3, <3>1
            <4>2. q[c][j] # x
                BY <1>1, <1>8, <4>1
            <4>3. q[c][j] \in 1 .. Len(k.m.cells)
                BY <1>1, <1>3, <4>1 DEF InRows, Placed, InPlaces, Rows
            <4> QED
                BY <1>3, <4>2, <4>3
        <3>4. k.segments[j] \in 1 .. Len(a.cells)
            BY <1>8, <1>9, <3>3
        <3> QED
            BY <1>7, <1>8, <3>2, <3>3, <3>4
    <2> QED
        BY <2>1, <2>2
<1>14. Copied(m, p, c, p[d], i, e)
    <2>1. e.m.ctrl = m.ctrl /\ e.m.blocks = m.blocks
        BY <1>2, <1>7, <1>8
    <2> QED
        BY <1>7, <1>10, <1>11, <1>12, <1>13, <2>1, SMTT(30) DEF Copied, n
<1> QED
    BY <1>14 DEF e, y

LEMMA CopyMade ==
    ASSUME NEW m, NEW p, NEW c, NEW d, CopySource(m, p, c, d), NEW b, b.segments = p[d]
    PROVE  Copied(m, p, c, p[d], Len(p[d]), Segments!CopyOf(m, b))
<1> DEFINE src == p[d]
           start == [m |-> m, segments |-> << >>]
           D(g, i) == IF i = 0 THEN start ELSE CopySegment(g[i - 1], src[i])
           Loop(g) == g = [i \in 0 .. Len(src) |-> D(g, i)]
           after == CHOOSE g : Loop(g)
           S == CopyStates(Len(m.cells))
           Step == [i \in 1 .. Len(src) |-> [k \in S |-> CopySegment(k, src[i])]]
<1>1. Segments!CopyOf(m, b) = after[Len(src)]
    BY DEF Segments!CopyOf, CopySegment
<1>2. /\ Len(src) \in Nat /\ Len(m.cells) \in Nat /\ m \in Memories
      /\ InRows(m, p) /\ c \in Lists /\ d \in Lists \ {c} /\ p[c] = << >>
    BY DEF CopySource, InRows, Memories, Placed, Rows
<1>3. ASSUME NEW i \in 1 .. Len(src), NEW k \in S
      PROVE  Step[i][k] = CopySegment(k, src[i]) /\ CopySegment(k, src[i]) \in S
    <2>1. src[i] \in 1 .. Len(m.cells)
        BY <1>2 DEF InRows, Placed, InPlaces, Rows
    <2> QED
        BY <1>2, <2>1, CopySegmentFields
<1>4. start \in S
    BY <1>2 DEF CopyStates
<1>5. Loop(after)
    <2>1. StaysIn(Len(src), S, Step)
        BY <1>3 DEF StaysIn
    <2>2. PICK g : RunOf(g, Len(src), S, start, Step)
        <3> HIDE DEF S, Step, start, src
        <3> QED
            BY <1>2, <1>4, <2>1, Recursion
    <2>3. ASSUME NEW i \in 0 .. Len(src) PROVE g[i] = D(g, i)
        <3>1. CASE i = 0
            BY <2>2, <3>1 DEF RunOf
        <3>2. CASE i # 0
            <4>1. i \in 1 .. Len(src) /\ i - 1 \in 0 .. Len(src)
                BY <1>2, <3>2
            <4>2. g[i - 1] \in S /\ g[i] = Step[i][g[i - 1]]
                BY <2>2, <4>1 DEF RunOf
            <4> HIDE DEF S, Step, start, src
            <4> QED
                BY <1>3, <3>2, <4>1, <4>2
        <3> QED
            BY <3>1, <3>2
    <2>4. Loop(g)
        <3> HIDE DEF D
        <3> QED
            BY <2>2, <2>3 DEF RunOf
    <2> HIDE DEF Loop
    <2> QED
        BY <2>4
<1> HIDE DEF after
<1>6. \A i \in 0 .. Len(src) : after[i] = D(after, i)
    <2> HIDE DEF D
    <2> QED
        BY <1>5
<1> DEFINE T == {i \in 0 .. Len(src) : Copied(m, p, c, src, i, after[i])}
<1>7. 0 \in T
    <2>1. after[0] = start
        BY <1>2, <1>6
    <2>2. Available(m) - 0 = Available(m)
        BY <1>2, NodesAssumption DEF Available, Memories
    <2>3. Copied(m, p, c, src, 0, start)
        BY <1>2, <1>4, <2>2 DEF Copied
    <2> HIDE DEF start, src
    <2> QED
        BY <1>2, <2>1, <2>3
<1>8. ASSUME NEW i \in 1 .. Len(src), i - 1 \in T PROVE i \in T
    <2>1. i \in 0 .. Len(src) /\ i # 0
        BY <1>2
    <2>2. after[i] = CopySegment(after[i - 1], src[i])
        BY <1>6, <2>1
    <2>3. Copied(m, p, c, src, i - 1, after[i - 1])
        BY <1>8
    <2>4. Copied(m, p, c, src, i, after[i])
        BY <2>2, <2>3, AnotherCopied
    <2> QED
        BY <2>1, <2>4
<1>9. Len(src) \in T
    <2> HIDE DEF T, src
    <2>1. \A i \in 0 .. Len(src) : i \in T
        BY <1>2, <1>7, <1>8, Induction
    <2> QED
        BY <1>2, <2>1
<1> QED
    BY <1>1, <1>9

-----------------------------------------------------------------------------
Owners(m, c) == {v \in Lists : m.ctrl[v] = c}

(* The count of every block is exact, and a block without owner is empty.  *)
Counted(m) ==
    \A c \in Lists :
        /\ m.blocks[c].refCount = Cardinality(Owners(m, c))
        /\ m.blocks[c].refCount = 0 => m.blocks[c] = Segments!NoBlock

RowsOf(m) == [r \in Rows |-> IF r = FreeRow THEN m.freed ELSE m.blocks[r].segments]

MemorySound(m) == InRows(m, RowsOf(m)) /\ Counted(m)

(* What a vector reads in the block b of m it reads in the block b2 of m2. *)
SameContent(m, b, m2, b2) ==
    /\ b2.size = b.size /\ Len(b2.segments) >= Len(b.segments)
    /\ \A i \in 1 .. Len(b.segments) : m2.cells[b2.segments[i]] = m.cells[b.segments[i]]

Keeps(m, m2, v) ==
    IF m.ctrl[v] = Null THEN m2.ctrl[v] = Null
    ELSE /\ m2.ctrl[v] # Null
         /\ SameContent(m, m.blocks[m.ctrl[v]], m2, m2.blocks[m2.ctrl[v]])

LEMMA OwnersCounted ==
    ASSUME NEW m, NEW c
    PROVE  /\ IsFiniteSet(Owners(m, c)) /\ Cardinality(Owners(m, c)) \in Nat
           /\ Cardinality(Owners(m, c)) = 0 <=> Owners(m, c) = {}
<1>1. IsFiniteSet(Owners(m, c))
    BY SegmentsAssumption, FS_Subset DEF Owners
<1> QED
    BY <1>1, FS_CardinalityType, FS_EmptySet

(* Two vectors with one block, or one vector with none, leave a block that *)
(* nobody has: FreeBlock() finds it.                                       *)
LEMMA FreeBlockThere ==
    ASSUME NEW m, MemorySound(m), NEW w \in Lists,
           m.ctrl[w] = Null \/ \E u \in Lists \ {w} : m.ctrl[u] = m.ctrl[w]
    PROVE  /\ Segments!FreeBlock(m) \in Lists /\ Owners(m, Segments!FreeBlock(m)) = {}
           /\ m.blocks[Segments!FreeBlock(m)] = Segments!NoBlock
<1>1. ASSUME \A c \in Lists : Owners(m, c) # {} PROVE FALSE
    <2> DEFINE U == {u \in Lists \ {w} : m.ctrl[u] \in Lists}
               f == [u \in U |-> m.ctrl[u]]
    <2>1. \A c \in Lists : \E u \in U : f[u] = c
        <3>1. ASSUME NEW c \in Lists PROVE \E u \in U : f[u] = c
            <4>1. PICK v \in Lists : m.ctrl[v] = c
                BY <1>1 DEF Owners
            <4>2. CASE v # w
                BY <4>1, <4>2
            <4>3. CASE v = w
                <5>1. c # Null
                    BY SegmentsAssumption
                <5>2. PICK u \in Lists \ {w} : m.ctrl[u] = c
                    BY <4>1, <4>3, <5>1
                <5> QED
                    BY <5>2
            <4> QED
                BY <4>2, <4>3
        <3> QED
            BY <3>1
    <2>2. f \in Surjection(U, Lists)
        BY <2>1 DEF Surjection
    <2>3. IsFiniteSet(Lists) /\ IsFiniteSet(U) /\ U \in SUBSET Lists
        BY SegmentsAssumption, FS_Subset
    <2> HIDE DEF f
    <2>4. Cardinality(Lists) <= Cardinality(U)
        BY <2>2, <2>3, FS_Surjection
    <2>5. Cardinality(U) <= Cardinality(Lists) /\ Cardinality(U) \in Nat /\ Cardinality(Lists) \in Nat
          /\ (Cardinality(Lists) = Cardinality(U) => Lists = U)
        BY <2>3, FS_Subset, FS_CardinalityType
    <2>6. w \in U
        BY <2>4, <2>5
    <2> QED
        BY <2>6
<1>2. PICK c \in Lists : Owners(m, c) = {}
    BY <1>1
<1>3. \E b \in Lists : m.blocks[b].refCount = 0
    BY <1>2, OwnersCounted DEF MemorySound, Counted
<1>4. Segments!FreeBlock(m) \in Lists /\ m.blocks[Segments!FreeBlock(m)].refCount = 0
    BY <1>3 DEF Segments!FreeBlock
<1> QED
    BY <1>4, OwnersCounted DEF MemorySound, Counted

LEMMA SoundFacts ==
    ASSUME NEW m, MemorySound(m)
    PROVE  /\ m \in Memories /\ RowsOf(m) \in [Rows -> Seq(Nodes)]
           /\ m.ctrl \in [Lists -> Lists \cup {Null}] /\ m.blocks \in [Lists -> Blocks]
           /\ Len(m.cells) \in Nat /\ Len(m.freed) \in Nat /\ Available(m) \in Int
           /\ FreeRow \in Rows /\ FreeRow \notin Lists /\ Null \notin Lists
           /\ RowsOf(m)[FreeRow] = m.freed
           /\ \A c \in Lists :
                  /\ c \in Rows /\ c # FreeRow /\ RowsOf(m)[c] = m.blocks[c].segments
                  /\ m.blocks[c] \in Blocks /\ Len(m.blocks[c].segments) \in Nat
<1>1. m \in Memories /\ RowsOf(m) \in [Rows -> Seq(Nodes)] /\ RowsOf(m)[FreeRow] = m.freed
    BY DEF MemorySound, InRows, Placed
<1>2. m.ctrl \in [Lists -> Lists \cup {Null}] /\ m.blocks \in [Lists -> Blocks]
      /\ m.cells \in Seq(SegmentCells) /\ m.freed \in Seq(Nat)
    BY <1>1 DEF Memories
<1>3. Len(m.cells) \in Nat /\ Len(m.freed) \in Nat /\ Available(m) \in Int
    BY <1>2, NodesAssumption DEF Available
<1>4. FreeRow \in Rows /\ FreeRow \notin Lists /\ Null \notin Lists
    BY FreeRowIsNoList, SegmentsAssumption DEF Rows
<1>5. ASSUME NEW c \in Lists
      PROVE  /\ c \in Rows /\ c # FreeRow /\ RowsOf(m)[c] = m.blocks[c].segments
             /\ m.blocks[c] \in Blocks /\ Len(m.blocks[c].segments) \in Nat
    <2>1. c \in Rows /\ c # FreeRow
        BY <1>4 DEF Rows
    <2>2. m.blocks[c] \in Blocks
        BY <1>2
    <2> QED
        BY <2>1, <2>2 DEF RowsOf, Blocks
<1> QED
    BY <1>1, <1>2, <1>3, <1>4, <1>5

LEMMA RowsAre ==
    ASSUME NEW m, NEW p \in [Rows -> Seq(Nodes)], p[FreeRow] = m.freed,
           \A c \in Lists : p[c] = m.blocks[c].segments
    PROVE  RowsOf(m) = p
<1>1. \A r \in Rows : RowsOf(m)[r] = p[r]
    BY DEF RowsOf, Rows
<1> QED
    BY <1>1 DEF RowsOf

(* What is changed in the blocks for detach(). *)
IsDetached(m, m2, v) ==
    /\ MemorySound(m2) /\ m2.ctrl[v] \in Lists /\ Owners(m2, m2.ctrl[v]) = {v}
    /\ Available(m2) >= 1
    /\ Len(m2.blocks[m2.ctrl[v]].segments) = Len(m.blocks[m.ctrl[v]].segments)
    /\ \A u \in Lists : Keeps(m, m2, u)

LEMMA KeepsItself ==
    ASSUME NEW m, MemorySound(m), NEW v \in Lists
    PROVE  Keeps(m, m, v)
<1>1. CASE m.ctrl[v] = Null
    BY <1>1 DEF Keeps
<1>2. CASE m.ctrl[v] # Null
    <2>1. m.ctrl[v] \in Lists
        BY <1>2, SoundFacts
    <2>2. Len(m.blocks[m.ctrl[v]].segments) \in Nat
        BY <2>1, SoundFacts
    <2> QED
        BY <1>2, <2>2 DEF Keeps, SameContent
<1> QED
    BY <1>1, <1>2

(* The block of a vector is counted at least once, and once only if the    *)
(* vector is its one owner.                                                *)
LEMMA OwnerCounted ==
    ASSUME NEW m, MemorySound(m), NEW v \in Lists, m.ctrl[v] # Null
    PROVE  /\ m.ctrl[v] \in Lists /\ m.blocks[m.ctrl[v]].refCount \in Nat \ {0}
           /\ v \in Owners(m, m.ctrl[v])
           /\ m.blocks[m.ctrl[v]].refCount = 1 => Owners(m, m.ctrl[v]) = {v}
           /\ m.blocks[m.ctrl[v]].refCount # 1 =>
                  \E u \in Lists \ {v} : m.ctrl[u] = m.ctrl[v]
<1> DEFINE d == m.ctrl[v]
<1>1. d \in Lists /\ v \in Owners(m, d)
    BY SoundFacts DEF Owners
<1>2. m.blocks[d].refCount = Cardinality(Owners(m, d))
    BY <1>1 DEF MemorySound, Counted
<1>3. Cardinality(Owners(m, d)) \in Nat \ {0} /\ IsFiniteSet(Owners(m, d))
    BY <1>1, OwnersCounted
<1> HIDE DEF d
<1>4. ASSUME Cardinality(Owners(m, d)) = 1 PROVE Owners(m, d) = {v}
    <2>1. \E x : Owners(m, d) = {x}
        BY <1>3, <1>4, FS_Singleton
    <2> QED
        BY <1>1, <2>1
<1>5. ASSUME Cardinality(Owners(m, d)) # 1 PROVE \E u \in Lists \ {v} : m.ctrl[u] = d
    <2>1. Owners(m, d) # {v}
        BY <1>5, FS_Singleton
    <2> QED
        BY <1>1, <2>1 DEF Owners
<1> QED
    BY <1>1, <1>2, <1>3, <1>4, <1>5 DEF d

LEMMA DetachedIsDetached ==
    ASSUME NEW m, MemorySound(m), NEW v \in Lists, m.ctrl[v] # Null,
           Available(m) >= Len(m.blocks[m.ctrl[v]].segments) + 1
    PROVE  IsDetached(m, Segments!Detached(m, v), v)
<1> DEFINE d == m.ctrl[v]
           b == m.blocks[d]
           c == Segments!FreeBlock(m)
           k == Segments!CopyOf(m, b)
           nb == [b EXCEPT !.segments = k.segments, !.refCount = 1]
           bs == [[k.m.blocks EXCEPT ![d].refCount = @ - 1] EXCEPT ![c] = nb]
           cs == [k.m.ctrl EXCEPT ![v] = c]
           m2 == [k.m EXCEPT !.blocks = bs, !.ctrl = cs]
           p == RowsOf(m)
<1>1. /\ d \in Lists /\ b.refCount \in Nat \ {0} /\ v \in Owners(m, d)
      /\ b.refCount = 1 => Owners(m, d) = {v}
      /\ b.refCount # 1 => \E u \in Lists \ {v} : m.ctrl[u] = d
    BY OwnerCounted
<1>2. /\ m \in Memories /\ p \in [Rows -> Seq(Nodes)]
      /\ m.ctrl \in [Lists -> Lists \cup {Null}] /\ m.blocks \in [Lists -> Blocks]
      /\ Len(m.cells) \in Nat /\ Len(m.freed) \in Nat /\ Available(m) \in Int
      /\ FreeRow \in Rows /\ FreeRow \notin Lists /\ Null \notin Lists /\ p[FreeRow] = m.freed
      /\ \A r \in Lists : r \in Rows /\ r # FreeRow /\ p[r] = m.blocks[r].segments
                          /\ m.blocks[r] \in Blocks /\ Len(m.blocks[r].segments) \in Nat
    BY SoundFacts
<1>3. CASE b.refCount = 1
    <2>1. Segments!Detached(m, v) = m
        BY <1>3 DEF Segments!Detached
    <2>2. Available(m) >= 1
        BY <1>1, <1>2
    <2> QED
        BY <1>1, <1>3, <2>1, <2>2, KeepsItself DEF IsDetached
<1>4. CASE b.refCount # 1
    <2>1. c \in Lists /\ Owners(m, c) = {} /\ m.blocks[c] = Segments!NoBlock
        BY <1>1, <1>4, FreeBlockThere
    <2>2. c # d /\ p[c] = << >> /\ d \in Lists \ {c} /\ b.segments = p[d] /\ b \in Blocks
        BY <1>1, <1>2, <2>1 DEF Segments!NoBlock
    <2>3. CopySource(m, p, c, d)
        <3>1. Available(m) >= Len(p[d])
            BY <1>1, <1>2
        <3> QED
            BY <1>1, <2>1, <2>2, <3>1 DEF CopySource, MemorySound
    <2>4. Copied(m, p, c, p[d], Len(p[d]), k)
        BY <2>2, <2>3, CopyMade, SMTT(30)
    <2> HIDE DEF p
    <2>6. /\ k.m \in Memories /\ k.segments \in Seq(Nat) /\ k.m.ctrl = m.ctrl /\ k.m.blocks = m.blocks
          /\ Len(k.segments) = Len(p[d]) /\ Available(k.m) = Available(m) - Len(p[d])
          /\ \A r \in Lists \ {c} : \A i \in 1 .. Len(p[r]) : k.m.cells[p[r][i]] = m.cells[p[r][i]]
          /\ \A i \in 1 .. Len(p[d]) : k.m.cells[k.segments[i]] = m.cells[p[d][i]]
        BY <2>4 DEF Copied, CopyStates
    <2>5. Segments!Detached(m, v) = m2
        <3>1. Segments!Detached(m, v) =
                  [k.m EXCEPT !.blocks[d].refCount = @ - 1,
                              !.blocks[c] = [b EXCEPT !.segments = k.segments, !.refCount = 1],
                              !.ctrl[v] = c]
            BY <1>4 DEF Segments!Detached
        <3> HIDE DEF k, c, b, d
        <3> QED
            BY <2>6, <3>1 DEF Memories
    <2> HIDE DEF k, c
    <2>7. PICK p2 : /\ InRows(k.m, p2) /\ p2[c] = k.segments
                    /\ \A r \in Lists \ {c} : p2[r] = p[r]
        BY <2>4 DEF Copied
    <2>8. /\ nb \in Blocks /\ nb.segments = k.segments /\ nb.refCount = 1 /\ nb.size = b.size
        BY <2>2, <2>6 DEF Blocks
    <2> DEFINE ob == [b EXCEPT !.refCount = @ - 1]
    <2>9. /\ ob \in Blocks /\ ob.segments = b.segments /\ ob.refCount = b.refCount - 1 /\ ob.size = b.size
        BY <1>1, <2>2 DEF Blocks
    <2> HIDE DEF nb, ob
    <2>10. bs = [[m.blocks EXCEPT ![d] = ob] EXCEPT ![c] = nb]
        <3>1. bs = [[m.blocks EXCEPT ![d].refCount = @ - 1] EXCEPT ![c] = nb]
            BY <2>6, SMTT(30)
        <3> QED
            BY <3>1 DEF ob
    <2>11. /\ bs \in [Lists -> Blocks] /\ bs[c] = nb /\ bs[d] = ob
           /\ \A r \in Lists \ {c, d} : bs[r] = m.blocks[r]
        BY <1>1, <1>2, <2>1, <2>2, <2>8, <2>9, <2>10
    <2>12. /\ cs \in [Lists -> Lists \cup {Null}] /\ cs[v] = c
           /\ \A u \in Lists \ {v} : cs[u] = m.ctrl[u]
        BY <1>2, <2>1, <2>6
    <2> HIDE DEF bs, cs, b, d
    <2>13. /\ m2 \in Memories /\ m2.ctrl = cs /\ m2.blocks = bs /\ m2.cells = k.m.cells
           /\ m2.freed = k.m.freed
        BY <2>6, <2>11, <2>12 DEF Memories
    <2> HIDE DEF m2
    <2>14. RowsOf(m2) = p2
        <3>1. p2 \in [Rows -> Seq(Nodes)] /\ p2[FreeRow] = m2.freed
            BY <2>7, <2>13 DEF InRows, Placed
        <3>2. ASSUME NEW r \in Lists PROVE p2[r] = m2.blocks[r].segments
            <4>1. CASE r = c
                BY <2>7, <2>8, <2>11, <2>13, <4>1
            <4>2. CASE r = d
                BY <1>1, <2>2, <2>7, <2>9, <2>11, <2>13, <4>2 DEF b
            <4>3. CASE r \notin {c, d}
                BY <1>2, <2>7, <2>11, <2>13, <4>3
            <4> QED
                BY <4>1, <4>2, <4>3
        <3> QED
            BY <3>1, <3>2, RowsAre
    <2>15. InRows(m2, RowsOf(m2))
        BY <2>7, <2>13, <2>14 DEF InRows
    <2>16. /\ Owners(m2, c) = {v} /\ Owners(m2, d) = Owners(m, d) \ {v}
           /\ \A r \in Lists \ {c, d} : Owners(m2, r) = Owners(m, r)
        BY <1>1, <2>1, <2>2, <2>12, <2>13 DEF Owners, d
    <2>17. Counted(m2)
        <3>1. ASSUME NEW r \in Lists
              PROVE  /\ bs[r].refCount = Cardinality(Owners(m2, r))
                     /\ bs[r].refCount = 0 => bs[r] = Segments!NoBlock
            <4>0. /\ m.blocks[r].refCount = Cardinality(Owners(m, r))
                  /\ m.blocks[r].refCount = 0 => m.blocks[r] = Segments!NoBlock
                BY DEF MemorySound, Counted
            <4>1. CASE r = c
                <5>1. Cardinality({v}) = 1
                    BY FS_Singleton
                <5>2. Owners(m2, r) = {v}
                    BY <2>16, <4>1
                <5>3. bs[r].refCount = 1
                    BY <2>8, <2>11, <4>1
                <5> QED
                    BY <5>1, <5>2, <5>3
            <4>2. CASE r = d
                <5>1. Cardinality(Owners(m2, r)) = Cardinality(Owners(m, d)) - 1
                    BY <1>1, <2>16, <4>2, OwnersCounted, FS_RemoveElement
                <5>2. bs[r].refCount # 0
                    BY <1>1, <1>4, <2>9, <2>11, <4>2
                <5> QED
                    BY <2>9, <2>11, <4>0, <4>2, <5>1, <5>2 DEF b
            <4>3. CASE r \notin {c, d}
                BY <2>11, <2>16, <4>0, <4>3
            <4> QED
                BY <4>1, <4>2, <4>3
        <3> QED
            BY <2>13, <3>1 DEF Counted
    <2>18. ASSUME NEW u \in Lists PROVE Keeps(m, m2, u)
        <3>1. CASE u = v
            <4>1. bs[c].size = b.size /\ bs[c].segments = k.segments /\ b.segments = p[d]
                BY <2>2, <2>8, <2>11
            <4>2. Len(k.segments) = Len(p[d]) /\ Len(p[d]) \in Nat
                BY <1>1, <1>2, <2>2, <2>6
            <4>3. SameContent(m, b, m2, bs[c])
                BY <2>6, <2>13, <4>1, <4>2 DEF SameContent
            <4>4. c # Null /\ m2.ctrl[v] = c
                BY <1>2, <2>1, <2>12, <2>13
            <4> QED
                BY <2>13, <3>1, <4>3, <4>4 DEF Keeps, d, b
        <3>2. CASE u # v /\ m.ctrl[u] = Null
            BY <2>12, <2>13, <3>2 DEF Keeps
        <3>3. CASE u # v /\ m.ctrl[u] # Null
            <4> DEFINE r == m.ctrl[u]
            <4>1. r \in Lists \ {c} /\ m2.ctrl[u] = r
                BY <1>2, <2>1, <2>12, <2>13, <3>3 DEF Owners
            <4>2. bs[r].size = m.blocks[r].size /\ bs[r].segments = m.blocks[r].segments
                BY <2>9, <2>11, <4>1 DEF b
            <4>3. m.blocks[r].segments = p[r] /\ Len(p[r]) \in Nat
                BY <1>2, <4>1
            <4>4. \A i \in 1 .. Len(p[r]) : k.m.cells[p[r][i]] = m.cells[p[r][i]]
                BY <2>6, <4>1
            <4> HIDE DEF r
            <4>5. SameContent(m, m.blocks[r], m2, m2.blocks[r])
                BY <2>13, <4>2, <4>3, <4>4 DEF SameContent
            <4>6. r # Null
                BY <3>3 DEF r
            <4> QED
                BY <4>1, <4>5, <4>6 DEF Keeps, r
        <3> QED
            BY <3>1, <3>2, <3>3
    <2>19. Available(m2) >= 1 /\ Len(bs[c].segments) = Len(b.segments)
        <3>1. Available(m2) = Available(k.m)
            BY <2>13 DEF Available
        <3>2. Len(b.segments) = Len(p[d]) /\ Len(p[d]) \in Nat /\ Available(m) >= Len(p[d]) + 1
            BY <1>1, <1>2, <2>2 DEF b, d
        <3> QED
            BY <1>2, <2>6, <2>8, <2>11, <3>1, <3>2
    <2>20. IsDetached(m, m2, v)
        BY <2>1, <2>12, <2>13, <2>15, <2>16, <2>17, <2>18, <2>19 DEF IsDetached, MemorySound, b, d
    <2> QED
        BY <2>5, <2>20
<1> QED
    BY <1>3, <1>4

-----------------------------------------------------------------------------
IsGrown(m, m2, v) ==
    LET b == m.blocks[m.ctrl[v]]
        b2 == m2.blocks[m.ctrl[v]]
    IN  /\ MemorySound(m2) /\ m2.ctrl = m.ctrl
        /\ b2.size = b.size /\ Len(b2.segments) = Len(b.segments) + 1
        /\ \A u \in Lists : Keeps(m, m2, u)

LEMMA GrownIsGrown ==
    ASSUME NEW m, MemorySound(m), NEW v \in Lists, m.ctrl[v] # Null, Available(m) >= 1
    PROVE  IsGrown(m, Segments!WithSegment(m, v), v)
<1> DEFINE d == m.ctrl[v]
           a == Segments!Allocated(m)
           x == Segments!NextSegment(m)
           nb == [m.blocks[d] EXCEPT !.segments = Append(@, x)]
           bs == [m.blocks EXCEPT ![d] = nb]
           m2 == [a EXCEPT !.blocks = bs]
           p == RowsOf(m)
<1>1. /\ m \in Memories /\ p \in [Rows -> Seq(Nodes)]
      /\ m.ctrl \in [Lists -> Lists \cup {Null}] /\ m.blocks \in [Lists -> Blocks]
      /\ Len(m.cells) \in Nat /\ FreeRow \in Rows /\ FreeRow \notin Lists
      /\ \A r \in Lists : r \in Rows /\ r # FreeRow /\ p[r] = m.blocks[r].segments
                          /\ m.blocks[r] \in Blocks /\ Len(m.blocks[r].segments) \in Nat
    BY SoundFacts
<1>2. d \in Lists
    BY <1>1
<1>3. PICK p2 : TakesSegment(m, a, x, p, p2, d)
    BY <1>2, SegmentTaken DEF MemorySound
<1>4. Segments!WithSegment(m, v) = [a EXCEPT !.blocks[d].segments = Append(@, x)]
    BY DEF Segments!WithSegment
<1> HIDE DEF a, x, p
<1>5. /\ InRows(a, p2) /\ a.ctrl = m.ctrl /\ a.blocks = m.blocks /\ a \in Memories /\ x \in Nat
      /\ p2[d] = Append(p[d], x) /\ \A r \in Lists \ {d} : p2[r] = p[r]
      /\ Len(a.cells) >= Len(m.cells) /\ Len(a.cells) \in Nat
      /\ \A y \in 1 .. Len(m.cells) : a.cells[y] = m.cells[y]
    BY <1>3, NodesAssumption DEF TakesSegment, InRows, Memories, Nodes
<1>6. Segments!WithSegment(m, v) = m2
    BY <1>4, <1>5 DEF Memories
<1>7. /\ nb \in Blocks /\ nb.size = m.blocks[d].size /\ nb.refCount = m.blocks[d].refCount
      /\ nb.segments = Append(m.blocks[d].segments, x)
    <2>1. m.blocks[d] \in Blocks
        BY <1>1, <1>2
    <2>2. Append(m.blocks[d].segments, x) \in Seq(Nat)
        BY <1>5, <2>1 DEF Blocks
    <2> QED
        BY <2>1, <2>2 DEF Blocks
<1>8. /\ Len(nb.segments) = Len(m.blocks[d].segments) + 1
      /\ \A i \in 1 .. Len(m.blocks[d].segments) : nb.segments[i] = m.blocks[d].segments[i]
    <2>1. m.blocks[d].segments \in Seq(Nat)
        BY <1>1, <1>2, SMTT(30) DEF Blocks
    <2> DEFINE q == m.blocks[d].segments
               r == nb.segments
    <2>2. q \in Seq(Nat) /\ x \in Nat /\ r = Append(q, x)
        BY <1>5, <1>7, <2>1
    <2> HIDE DEF q, r
    <2>3. Len(r) = Len(q) + 1 /\ \A i \in 1 .. Len(q) : r[i] = q[i]
        BY <2>2, AppendProperties
    <2> QED
        BY <2>3 DEF q, r
<1> HIDE DEF nb
<1>9. bs \in [Lists -> Blocks] /\ bs[d] = nb /\ \A r \in Lists \ {d} : bs[r] = m.blocks[r]
    BY <1>1, <1>2, <1>7
<1> HIDE DEF bs
<1>10. /\ m2 \in Memories /\ m2.ctrl = m.ctrl /\ m2.blocks = bs /\ m2.cells = a.cells
       /\ m2.freed = a.freed
    BY <1>5, <1>9 DEF Memories
<1> HIDE DEF m2, d
<1>11. RowsOf(m2) = p2
    <2>1. p2 \in [Rows -> Seq(Nodes)] /\ p2[FreeRow] = m2.freed
        BY <1>5, <1>10 DEF InRows, Placed
    <2>2. ASSUME NEW r \in Lists PROVE p2[r] = m2.blocks[r].segments
        <3>1. CASE r = d
            BY <1>1, <1>2, <1>5, <1>7, <1>9, <1>10, <3>1
        <3>2. CASE r # d
            BY <1>1, <1>5, <1>9, <1>10, <3>2
        <3> QED
            BY <3>1, <3>2
    <2> QED
        BY <2>1, <2>2, RowsAre
<1>12. InRows(m2, RowsOf(m2))
    BY <1>5, <1>10, <1>11 DEF InRows
<1>13. Counted(m2)
    <2>1. ASSUME NEW r \in Lists
          PROVE  /\ bs[r].refCount = Cardinality(Owners(m2, r))
                 /\ bs[r].refCount = 0 => bs[r] = Segments!NoBlock
        <3>1. /\ m.blocks[r].refCount = Cardinality(Owners(m, r))
              /\ m.blocks[r].refCount = 0 => m.blocks[r] = Segments!NoBlock
            BY DEF MemorySound, Counted
        <3>2. Owners(m2, r) = Owners(m, r)
            BY <1>10 DEF Owners
        <3>3. CASE r = d
            <4>1. m.blocks[r].refCount # 0
                BY <3>3, OwnerCounted DEF d
            <4> QED
                BY <1>7, <1>9, <3>1, <3>2, <3>3, <4>1
        <3>4. CASE r # d
            BY <1>9, <3>1, <3>2, <3>4
        <3> QED
            BY <3>3, <3>4
    <2> QED
        BY <1>10, <2>1 DEF Counted
<1>14. ASSUME NEW u \in Lists PROVE Keeps(m, m2, u)
    <2>1. CASE m.ctrl[u] = Null
        BY <1>10, <2>1 DEF Keeps
    <2>2. CASE m.ctrl[u] # Null
        <3> DEFINE r == m.ctrl[u]
                   n == Len(m.blocks[r].segments)
        <3>1. r \in Lists /\ n \in Nat
            BY <1>1, <2>2
        <3>2. /\ bs[r].size = m.blocks[r].size /\ Len(bs[r].segments) >= n
              /\ \A i \in 1 .. n : bs[r].segments[i] = m.blocks[r].segments[i]
            <4>1. CASE r = d
                BY <1>7, <1>8, <1>9, <3>1, <4>1, SMTT(30)
            <4>2. CASE r # d
                BY <1>9, <3>1, <4>2
            <4> QED
                BY <4>1, <4>2
        <3>3. \A i \in 1 .. n : m.blocks[r].segments[i] \in 1 .. Len(m.cells)
            <4>1. r \in Rows /\ p[r] = m.blocks[r].segments
                BY <1>1, <3>1
            <4>2. \A i \in 1 .. Len(p[r]) : p[r][i] \in 1 .. Len(m.cells)
                BY <4>1, SMTT(30) DEF MemorySound, InRows, Placed, InPlaces, p
            <4> QED
                BY <4>1, <4>2
        <3>4. SameContent(m, m.blocks[r], m2, m2.blocks[r])
            BY <1>5, <1>10, <3>2, <3>3 DEF SameContent
        <3> QED
            BY <1>10, <2>2, <3>4 DEF Keeps
    <2> QED
        BY <2>1, <2>2
<1>15. IsGrown(m, m2, v)
    BY <1>7, <1>8, <1>9, <1>10, <1>12, <1>13, <1>14 DEF IsGrown, MemorySound, d
<1> QED
    BY <1>6, <1>15

(* The memory m2 is m with other cells, in the segment y at most. *)
OnlyCell(m, m2, y) ==
    /\ MemorySound(m2) /\ m2.ctrl = m.ctrl /\ m2.blocks = m.blocks /\ m2.freed = m.freed
    /\ \A z \in 1 .. Len(m.cells) : z # y => m2.cells[z] = m.cells[z]

IsStored(m, m2, y, j, x) ==
    /\ OnlyCell(m, m2, y)
    /\ y \in 1 .. Len(m.cells) => m2.cells[y] = [m.cells[y] EXCEPT ![j] = x]

(* A store at place j of segment y, wherever they come from. *)
StoredAt(m, y, j, x) == [m EXCEPT !.cells[y][j] = x]

LEMMA StoredAtFields ==
    ASSUME NEW m, MemorySound(m), NEW y, NEW j, NEW x \in Elements
    PROVE  IsStored(m, StoredAt(m, y, j, x), y, j, x)
<1> DEFINE e == [m.cells[y] EXCEPT ![j] = x]
           cs == [m.cells EXCEPT ![y] = e]
           m2 == [m EXCEPT !.cells = cs]
<1>1. StoredAt(m, y, j, x) = m2
    BY DEF StoredAt
<1>2. m \in Memories /\ m.cells \in Seq(SegmentCells) /\ Len(m.cells) \in Nat
    BY SoundFacts DEF Memories
<1>3. /\ cs \in Seq(SegmentCells) /\ Len(cs) = Len(m.cells)
      /\ \A z \in 1 .. Len(m.cells) : z # y => cs[z] = m.cells[z]
      /\ y \in 1 .. Len(m.cells) => cs[y] = e
    <2>1. CASE y \in 1 .. Len(m.cells)
        <3>1. m.cells[y] \in SegmentCells
            BY <1>2, <2>1
        <3>2. e \in SegmentCells
            BY <3>1 DEF SegmentCells
        <3> HIDE DEF e
        <3>3. /\ cs \in Seq(SegmentCells) /\ Len(cs) = Len(m.cells)
              /\ \A z \in 1 .. Len(m.cells) : cs[z] = IF z = y THEN e ELSE m.cells[z]
            BY <1>2, <3>2, CellChanged
        <3> QED
            BY <2>1, <3>3
    <2>2. CASE y \notin 1 .. Len(m.cells)
        <3> HIDE DEF e
        <3>1. DOMAIN m.cells = 1 .. Len(m.cells)
            BY <1>2
        <3>2. cs = m.cells
            BY <1>2, <2>2, <3>1
        <3> QED
            BY <1>2, <2>2, <3>2
    <2> QED
        BY <2>1, <2>2
<1> HIDE DEF cs
<1>4. /\ m2 \in Memories /\ m2.ctrl = m.ctrl /\ m2.blocks = m.blocks /\ m2.freed = m.freed
      /\ m2.cells = cs
    BY <1>2, <1>3 DEF Memories
<1> HIDE DEF m2
<1>5. RowsOf(m2) = RowsOf(m) /\ \A c \in Lists : Owners(m2, c) = Owners(m, c)
    BY <1>4 DEF RowsOf, Owners
<1>6. MemorySound(m2)
    <2>1. InRows(m2, RowsOf(m2))
        BY <1>3, <1>4, <1>5 DEF MemorySound, InRows
    <2>2. Counted(m2)
        BY <1>4, <1>5 DEF MemorySound, Counted
    <2> QED
        BY <2>1, <2>2 DEF MemorySound
<1>7. OnlyCell(m, m2, y)
    BY <1>3, <1>4, <1>6 DEF OnlyCell
<1> QED
    BY <1>1, <1>3, <1>4, <1>7 DEF IsStored, e

LEMMA StoredFields ==
    ASSUME NEW m, MemorySound(m), NEW v \in Lists, NEW idx, NEW x \in Elements
    PROVE  IsStored(m, Segments!Stored(m, v, idx, x),
                    m.blocks[m.ctrl[v]].segments[Segments!SegIndex(idx)], Segments!SubIndex(idx), x)
BY StoredAtFields DEF StoredAt, Segments!Stored

IsReleased(m, m2, v) ==
    /\ MemorySound(m2) /\ m2.ctrl = [m.ctrl EXCEPT ![v] = Null]
    /\ \A u \in Lists \ {v} : Keeps(m, m2, u)

(* The block of a vector that is one owner of several.                     *)
LEMMA SharedReleased ==
    ASSUME NEW m, MemorySound(m), NEW v \in Lists, m.ctrl[v] # Null,
           m.blocks[m.ctrl[v]].refCount > 1
    PROVE  IsReleased(m, Segments!Released(m, v), v)
<1> DEFINE d == m.ctrl[v]
           b == m.blocks[d]
           nb == [b EXCEPT !.refCount = @ - 1]
           bs == [m.blocks EXCEPT ![d] = nb]
           cs == [m.ctrl EXCEPT ![v] = Null]
           m2 == [m EXCEPT !.blocks = bs, !.ctrl = cs]
           p == RowsOf(m)
<1>1. /\ m \in Memories /\ p \in [Rows -> Seq(Nodes)]
      /\ m.ctrl \in [Lists -> Lists \cup {Null}] /\ m.blocks \in [Lists -> Blocks]
      /\ FreeRow \in Rows /\ FreeRow \notin Lists /\ Null \notin Lists /\ p[FreeRow] = m.freed
      /\ \A r \in Lists : r \in Rows /\ r # FreeRow /\ p[r] = m.blocks[r].segments
                          /\ m.blocks[r] \in Blocks /\ Len(m.blocks[r].segments) \in Nat
    BY SoundFacts
<1>2. d \in Lists /\ b.refCount \in Nat \ {0} /\ v \in Owners(m, d) /\ b.refCount > 1
    BY OwnerCounted
<1>3. Segments!Released(m, v) = m2
    <2>1. d # Null
        OBVIOUS
    <2>2. Segments!Released(m, v) = [m EXCEPT !.blocks[d].refCount = @ - 1, !.ctrl[v] = Null]
        BY <1>2, <2>1 DEF Segments!Released
    <2> DEFINE bo == [m.blocks EXCEPT ![d].refCount = @ - 1]
    <2>3. bo = bs
        OBVIOUS
    <2> HIDE DEF d, bs
    <2>4. Segments!Released(m, v) = [m EXCEPT !.blocks = bo, !.ctrl = cs]
        BY <1>1, <2>2 DEF Memories
    <2> HIDE DEF bo
    <2> QED
        BY <2>3, <2>4
<1>4. nb \in Blocks /\ nb.segments = b.segments /\ nb.size = b.size /\ nb.refCount = b.refCount - 1
    <2>1. b \in Blocks /\ b.refCount - 1 \in Nat
        BY <1>1, <1>2
    <2> HIDE DEF b
    <2> QED
        BY <2>1 DEF Blocks
<1> HIDE DEF nb
<1>5. bs \in [Lists -> Blocks] /\ bs[d] = nb /\ \A r \in Lists \ {d} : bs[r] = m.blocks[r]
    BY <1>1, <1>2, <1>4
<1>6. cs \in [Lists -> Lists \cup {Null}] /\ cs[v] = Null /\ \A u \in Lists \ {v} : cs[u] = m.ctrl[u]
    BY <1>1
<1> HIDE DEF bs, cs
<1>7. /\ m2 \in Memories /\ m2.ctrl = cs /\ m2.blocks = bs /\ m2.cells = m.cells /\ m2.freed = m.freed
    BY <1>1, <1>5, <1>6 DEF Memories
<1> HIDE DEF m2, b, d
<1>8. RowsOf(m2) = p
    <2>1. ASSUME NEW r \in Lists PROVE p[r] = m2.blocks[r].segments
        BY <1>1, <1>4, <1>5, <1>7 DEF b
    <2> QED
        BY <1>1, <1>7, <2>1, RowsAre
<1>9. InRows(m2, RowsOf(m2))
    BY <1>7, <1>8 DEF MemorySound, InRows
<1>10. Owners(m2, d) = Owners(m, d) \ {v} /\ \A r \in Lists \ {d} : Owners(m2, r) = Owners(m, r)
    BY <1>1, <1>2, <1>6, <1>7 DEF Owners, d
<1>11. ASSUME NEW r \in Lists
       PROVE  /\ bs[r].refCount = Cardinality(Owners(m2, r))
              /\ bs[r].refCount = 0 => bs[r] = Segments!NoBlock
    <2>1. /\ m.blocks[r].refCount = Cardinality(Owners(m, r))
          /\ m.blocks[r].refCount = 0 => m.blocks[r] = Segments!NoBlock
        BY DEF MemorySound, Counted
    <2>2. CASE r = d
        <3>1. Cardinality(Owners(m2, r)) = Cardinality(Owners(m, d)) - 1
            BY <1>2, <1>10, <2>2, OwnersCounted, FS_RemoveElement
        <3>2. bs[r].refCount = b.refCount - 1 /\ b.refCount - 1 # 0
            BY <1>2, <1>4, <1>5, <2>2
        <3> QED
            BY <2>1, <2>2, <3>1, <3>2 DEF b
    <2>3. CASE r # d
        BY <1>5, <1>10, <2>1, <2>3
    <2> QED
        BY <2>2, <2>3
<1>12. ASSUME NEW u \in Lists \ {v} PROVE Keeps(m, m2, u)
    <2>1. CASE m.ctrl[u] = Null
        BY <1>6, <1>7, <2>1 DEF Keeps
    <2>2. CASE m.ctrl[u] # Null
        <3> DEFINE r == m.ctrl[u]
        <3>1. r \in Lists /\ m2.ctrl[u] = r /\ r # Null
            BY <1>1, <1>6, <1>7, <2>2
        <3> HIDE DEF r
        <3>2. bs[r].size = m.blocks[r].size /\ bs[r].segments = m.blocks[r].segments
            BY <1>4, <1>5, <3>1 DEF b
        <3>3. Len(m.blocks[r].segments) \in Nat
            BY <1>1, <3>1
        <3>4. SameContent(m, m.blocks[r], m2, m2.blocks[r])
            BY <1>7, <3>2, <3>3 DEF SameContent
        <3> QED
            BY <3>1, <3>4 DEF Keeps, r
    <2> QED
        BY <2>1, <2>2
<1>13. IsReleased(m, m2, v)
    BY <1>7, <1>9, <1>11, <1>12 DEF IsReleased, MemorySound, Counted, cs
<1> QED
    BY <1>3, <1>13

(* The block of its last owner: it goes, and its segments to the stack.    *)
LEMMA LastReleased ==
    ASSUME NEW m, MemorySound(m), NEW v \in Lists, m.ctrl[v] # Null,
           ~(m.blocks[m.ctrl[v]].refCount > 1)
    PROVE  IsReleased(m, Segments!Released(m, v), v)
<1> DEFINE d == m.ctrl[v]
           b == m.blocks[d]
           bs == [m.blocks EXCEPT ![d] = Segments!NoBlock]
           cs == [m.ctrl EXCEPT ![v] = Null]
           f == m.freed \o b.segments
           m2 == [m EXCEPT !.blocks = bs, !.ctrl = cs, !.freed = f]
           p == RowsOf(m)
           p2 == Rearranged(p, FreeRow, f, d, << >>)
<1>1. /\ m \in Memories /\ p \in [Rows -> Seq(Nodes)]
      /\ m.ctrl \in [Lists -> Lists \cup {Null}] /\ m.blocks \in [Lists -> Blocks]
      /\ FreeRow \in Rows /\ FreeRow \notin Lists /\ Null \notin Lists /\ p[FreeRow] = m.freed
      /\ Len(m.cells) \in Nat
      /\ \A r \in Lists : r \in Rows /\ r # FreeRow /\ p[r] = m.blocks[r].segments
                          /\ m.blocks[r] \in Blocks /\ Len(m.blocks[r].segments) \in Nat
    BY SoundFacts
<1>2. d \in Lists /\ Owners(m, d) = {v}
    <2>1. d \in Lists /\ b.refCount \in Nat \ {0} /\ (b.refCount = 1 => Owners(m, d) = {v})
        BY OwnerCounted
    <2> QED
        BY <2>1
<1>3. Segments!Released(m, v) = m2
    BY <1>1, <1>2 DEF Segments!Released, Memories
<1>4. Segments!NoBlock \in Blocks /\ Segments!NoBlock.segments = << >> /\ Segments!NoBlock.refCount = 0
    BY DEF Blocks, Segments!NoBlock
<1>5. bs \in [Lists -> Blocks] /\ bs[d] = Segments!NoBlock /\ \A r \in Lists \ {d} : bs[r] = m.blocks[r]
    BY <1>1, <1>2, <1>4
<1>6. cs \in [Lists -> Lists \cup {Null}] /\ cs[v] = Null /\ \A u \in Lists \ {v} : cs[u] = m.ctrl[u]
    BY <1>1
<1> HIDE DEF bs, cs, p
<1>7. f = Splice(p[FreeRow], Len(p[FreeRow]), p[d])
    <2>1. p[FreeRow] \in Seq(Nodes) /\ p[d] \in Seq(Nodes) /\ f = p[FreeRow] \o p[d]
        BY <1>1, <1>2
    <2> HIDE DEF f
    <2> QED
        BY <2>1, ConcatIsSplice
<1>8. Placed(p2, Len(m.cells))
    <2>1. Placed(p, Len(m.cells)) /\ Len(p[FreeRow]) \in 0 .. Len(p[FreeRow]) /\ d \in Rows /\ d # FreeRow
        BY <1>1, <1>2 DEF MemorySound, InRows, p
    <2>2. Placed(Rearranged(p, FreeRow, Splice(p[FreeRow], Len(p[FreeRow]), p[d]), d, << >>), Len(m.cells))
        BY <1>1, <2>1, RowsMove
    <2> QED
        BY <1>7, <2>2
<1>9. f \in Seq(Nat)
    <2>1. m.freed \in Seq(Nat) /\ b.segments \in Seq(Nat)
        BY <1>1, <1>2 DEF Memories, Blocks
    <2> QED
        BY <2>1
<1> HIDE DEF f
<1>10. /\ m2 \in Memories /\ m2.ctrl = cs /\ m2.blocks = bs /\ m2.cells = m.cells /\ m2.freed = f
    BY <1>1, <1>5, <1>6, <1>9 DEF Memories
<1> HIDE DEF m2, b, d
<1>11. RowsOf(m2) = p2
    <2>1. p2 \in [Rows -> Seq(Nodes)]
        BY <1>8 DEF Placed
    <2>2. p2[FreeRow] = f /\ p2[d] = << >> /\ \A r \in Lists \ {d} : p2[r] = p[r]
        BY <1>1, <1>2 DEF Rearranged
    <2> HIDE DEF p2
    <2>3. ASSUME NEW r \in Lists PROVE p2[r] = m2.blocks[r].segments
        <3>1. CASE r = d
            BY <1>4, <1>5, <1>10, <2>2, <3>1
        <3>2. CASE r # d
            BY <1>1, <1>5, <1>10, <2>2, <3>2
        <3> QED
            BY <3>1, <3>2
    <2> QED
        BY <1>10, <2>1, <2>2, <2>3, RowsAre
<1>12. InRows(m2, RowsOf(m2))
    <2>1. RowsOf(m2)[FreeRow] = m2.freed
        BY <1>1 DEF RowsOf
    <2> QED
        BY <1>8, <1>10, <1>11, <2>1 DEF MemorySound, InRows
<1>13. Owners(m2, d) = {} /\ \A r \in Lists \ {d} : Owners(m2, r) = Owners(m, r)
    <2>1. d # Null
        BY <1>1, <1>2
    <2>2. \A u \in Lists : m2.ctrl[u] = d <=> u # v /\ m.ctrl[u] = d
        BY <1>6, <1>10, <2>1
    <2>3. \A u \in Lists : m.ctrl[u] = d <=> u = v
        BY <1>2 DEF Owners
    <2>4. Owners(m2, d) = {}
        BY <2>2, <2>3 DEF Owners
    <2>5. ASSUME NEW r \in Lists \ {d} PROVE Owners(m2, r) = Owners(m, r)
        <3>1. r # Null
            BY <1>1
        <3>2. m.ctrl[v] = d
            BY DEF d
        <3>3. \A u \in Lists : m2.ctrl[u] = r <=> m.ctrl[u] = r
            BY <1>6, <1>10, <2>5, <3>1, <3>2
        <3> QED
            BY <3>3 DEF Owners
    <2> QED
        BY <2>4, <2>5
<1>14. ASSUME NEW r \in Lists
       PROVE  /\ bs[r].refCount = Cardinality(Owners(m2, r))
              /\ bs[r].refCount = 0 => bs[r] = Segments!NoBlock
    <2>1. /\ m.blocks[r].refCount = Cardinality(Owners(m, r))
          /\ m.blocks[r].refCount = 0 => m.blocks[r] = Segments!NoBlock
        BY DEF MemorySound, Counted
    <2>2. CASE r = d
        BY <1>4, <1>5, <1>13, <2>2, FS_EmptySet
    <2>3. CASE r # d
        BY <1>5, <1>13, <2>1, <2>3
    <2> QED
        BY <2>2, <2>3
<1>15. ASSUME NEW u \in Lists \ {v} PROVE Keeps(m, m2, u)
    <2>1. CASE m.ctrl[u] = Null
        BY <1>6, <1>10, <2>1 DEF Keeps
    <2>2. CASE m.ctrl[u] # Null
        <3> DEFINE r == m.ctrl[u]
        <3>1. r \in Lists \ {d} /\ m2.ctrl[u] = r /\ r # Null
            BY <1>1, <1>2, <1>6, <1>10, <2>2 DEF Owners
        <3> HIDE DEF r
        <3>2. bs[r] = m.blocks[r] /\ Len(m.blocks[r].segments) \in Nat
            BY <1>1, <1>5, <3>1
        <3>3. SameContent(m, m.blocks[r], m2, m2.blocks[r])
            BY <1>10, <3>2 DEF SameContent
        <3> QED
            BY <3>1, <3>3 DEF Keeps, r
    <2> QED
        BY <2>1, <2>2
<1>16. IsReleased(m, m2, v)
    BY <1>10, <1>12, <1>14, <1>15 DEF IsReleased, MemorySound, Counted, cs
<1> QED
    BY <1>3, <1>16

LEMMA ReleasedIsReleased ==
    ASSUME NEW m, MemorySound(m), NEW v \in Lists
    PROVE  IsReleased(m, Segments!Released(m, v), v)
<1>1. CASE m.ctrl[v] = Null
    <2>1. Segments!Released(m, v) = m
        BY <1>1 DEF Segments!Released
    <2>2. m.ctrl = [m.ctrl EXCEPT ![v] = Null]
        BY <1>1, SoundFacts
    <2> QED
        BY <2>1, <2>2, KeepsItself DEF IsReleased
<1>2. CASE m.ctrl[v] # Null
    BY <1>2, SharedReleased, LastReleased
<1> QED
    BY <1>1, <1>2

-----------------------------------------------------------------------------
(* What shifting and masking an index comes to when SEGMENT_SIZE is a      *)
(* power of two.                                                           *)
IndicesAreExact ==
    \A idx \in 0 .. MaxSize :
        /\ Segments!SegIndex(idx) = idx \div SEGMENT_SIZE + 1
        /\ Segments!SubIndex(idx) = (idx % SEGMENT_SIZE) + 1

(* Two indices with one place in one segment are the same. *)
LEMMA IndicesDiffer ==
    ASSUME IndicesAreExact, NEW i \in 0 .. MaxSize, NEW j \in 0 .. MaxSize, i # j
    PROVE  Segments!SegIndex(i) # Segments!SegIndex(j) \/ Segments!SubIndex(i) # Segments!SubIndex(j)
<1>1. /\ i \in Nat /\ j \in Nat /\ SEGMENT_SIZE \in Nat \ {0}
    BY SegmentsAssumption
<1> DEFINE n == SEGMENT_SIZE
           q == i \div n
           r == i % n
           t == j \div n
           u == j % n
<1>2. /\ q \in Nat /\ r \in 0 .. n - 1 /\ i = n * q + r
      /\ t \in Nat /\ u \in 0 .. n - 1 /\ j = n * t + u
    BY <1>1, Quotient
<1>3. /\ Segments!SegIndex(i) = q + 1 /\ Segments!SubIndex(i) = r + 1
      /\ Segments!SegIndex(j) = t + 1 /\ Segments!SubIndex(j) = u + 1
    BY DEF IndicesAreExact
<1> HIDE DEF q, r, t, u, n
<1>4. q # t \/ r # u
    BY <1>2
<1> QED
    BY <1>2, <1>3, <1>4

(* The places of an index that is in range, and the first one past it. *)
LEMMA IndexFits ==
    ASSUME IndicesAreExact, NEW idx \in 0 .. MaxSize, NEW n \in Nat
    PROVE  /\ Segments!SegIndex(idx) \in Nat \ {0} /\ Segments!SubIndex(idx) \in 1 .. SEGMENT_SIZE
           /\ Segments!SegIndex(idx) \in 1 .. n <=> idx < n * SEGMENT_SIZE
<1>1. /\ idx \in Nat /\ SEGMENT_SIZE \in Nat \ {0}
    BY SegmentsAssumption
<1> DEFINE q == idx \div SEGMENT_SIZE
           r == idx % SEGMENT_SIZE
<1> DEFINE fits == idx < n * SEGMENT_SIZE
<1>2. q \in Nat /\ r \in 0 .. SEGMENT_SIZE - 1
    BY <1>1, Quotient
<1>6. fits <=> q < n
    BY <1>1, QuotientBelow
<1>3. /\ Segments!SegIndex(idx) = q + 1 /\ Segments!SubIndex(idx) = r + 1
    BY DEF IndicesAreExact
<1> HIDE DEF q, r, fits
<1>4. q + 1 \in 1 .. n <=> q < n
    BY <1>2
<1>5. q + 1 \in Nat \ {0} /\ r + 1 \in 1 .. SEGMENT_SIZE
    BY <1>1, <1>2
<1> QED
    BY <1>3, <1>4, <1>5, <1>6 DEF fits

-----------------------------------------------------------------------------
(* The element at an index of the vector with block c. *)
ReadAt(m, c, i) == m.cells[m.blocks[c].segments[Segments!SegIndex(i)]][Segments!SubIndex(i)]

Content(m, v, s) ==
    m.ctrl[v] # Null =>
        LET c == m.ctrl[v]
            b == m.blocks[c]
        IN  /\ b.size = Len(s) /\ b.size \in 0 .. MaxSize
            /\ \A i \in 0 .. b.size - 1 :
                   /\ Segments!SegIndex(i) \in 1 .. Len(b.segments)
                   /\ ReadAt(m, c, i) = s[i + 1]

Contents(m, q) == q \in [Lists -> Seq(Elements)] /\ \A v \in Lists : Content(m, v, q[v])

LEMMA ContentKept ==
    ASSUME NEW m, MemorySound(m), NEW m2, NEW v \in Lists, NEW s,
           Keeps(m, m2, v), Content(m, v, s), MemorySound(m2)
    PROVE  Content(m2, v, s)
<1>1. CASE m2.ctrl[v] = Null
    BY <1>1 DEF Content
<1>2. CASE m2.ctrl[v] # Null
    <2> DEFINE c == m.ctrl[v]
               b == m.blocks[c]
               e == m2.ctrl[v]
               f == m2.blocks[e]
    <2>1. c # Null /\ SameContent(m, b, m2, f)
        BY <1>2 DEF Keeps
    <2>2. /\ b.size = Len(s) /\ b.size \in 0 .. MaxSize
          /\ \A i \in 0 .. b.size - 1 :
                 /\ Segments!SegIndex(i) \in 1 .. Len(b.segments)
                 /\ ReadAt(m, c, i) = s[i + 1]
        BY <2>1 DEF Content
    <2>3. c \in Lists /\ e \in Lists /\ Len(b.segments) \in Nat /\ Len(f.segments) \in Nat
        BY <1>2, <2>1, SoundFacts, SMTT(30)
    <2>4. f.size = b.size /\ Len(f.segments) >= Len(b.segments)
        BY <2>1 DEF SameContent
    <2>5. ASSUME NEW i \in 0 .. f.size - 1
          PROVE  /\ Segments!SegIndex(i) \in 1 .. Len(f.segments) /\ ReadAt(m2, e, i) = s[i + 1]
        <3> DEFINE k == Segments!SegIndex(i)
                   l == Segments!SubIndex(i)
        <3>1. k \in 1 .. Len(b.segments) /\ m.cells[b.segments[k]][l] = s[i + 1]
            BY <2>2, <2>4 DEF ReadAt
        <3> HIDE DEF k, l
        <3>2. m2.cells[f.segments[k]] = m.cells[b.segments[k]]
            <4>1. \A z \in 1 .. Len(b.segments) : m2.cells[f.segments[z]] = m.cells[b.segments[z]]
                BY <2>1 DEF SameContent
            <4> HIDE DEF b, f
            <4> QED
                BY <3>1, <4>1, SMTT(30)
        <3>3. k \in 1 .. Len(f.segments)
            <4> HIDE DEF b, f
            <4> QED
                BY <2>3, <2>4, <3>1, SMTT(30)
        <3>4. m2.cells[f.segments[k]][l] = s[i + 1]
            BY <3>1, <3>2
        <3> QED
            BY <3>3, <3>4, SMTT(30) DEF ReadAt, k, l
    <2> QED
        BY <2>2, <2>4, <2>5 DEF Content
<1> QED
    BY <1>1, <1>2

(* A store through the one owner of a block shows at its index, and in no  *)
(* other vector.                                                           *)
LEMMA StoredRead ==
    ASSUME IndicesAreExact, NEW m, MemorySound(m), NEW v \in Lists, m.ctrl[v] # Null,
           Owners(m, m.ctrl[v]) = {v}, NEW idx \in 0 .. MaxSize, NEW x \in Elements,
           Segments!SegIndex(idx) \in 1 .. Len(m.blocks[m.ctrl[v]].segments)
    PROVE  LET m2 == Segments!Stored(m, v, idx, x)
               c == m.ctrl[v]
           IN  /\ \A u \in Lists \ {v} : Keeps(m, m2, u)
               /\ \A i \in 0 .. MaxSize :
                      Segments!SegIndex(i) \in 1 .. Len(m.blocks[c].segments) =>
                          ReadAt(m2, c, i) = IF i = idx THEN x ELSE ReadAt(m, c, i)
<1> DEFINE c == m.ctrl[v]
           m2 == Segments!Stored(m, v, idx, x)
           q == m.blocks[c].segments
           k == Segments!SegIndex(idx)
           j == Segments!SubIndex(idx)
           y == q[k]
           p == RowsOf(m)
           n == Len(m.cells)
<1>1. /\ p \in [Rows -> Seq(Nodes)] /\ c \in Lists /\ n \in Nat
      /\ m.cells \in Seq(SegmentCells)
      /\ \A r \in Lists : r \in Rows /\ p[r] = m.blocks[r].segments /\ Len(p[r]) \in Nat
    BY SoundFacts DEF Memories
<1>2. Placed(p, n)
    BY DEF MemorySound, InRows
<1>3. OnlyCell(m, m2, y) /\ (y \in 1 .. n => m2.cells[y] = [m.cells[y] EXCEPT ![j] = x])
    <2>1. IsStored(m, m2, y, j, x)
        BY StoredFields, SMTT(30)
    <2> HIDE DEF m2, y, j
    <2> QED
        BY <2>1 DEF IsStored
<1>4. /\ m2.ctrl = m.ctrl /\ m2.blocks = m.blocks
      /\ \A z \in 1 .. n : z # y => m2.cells[z] = m.cells[z]
    BY <1>3 DEF OnlyCell
<1>5. j \in 1 .. SEGMENT_SIZE
    BY <1>1, IndexFits
<1> HIDE DEF m2, p, n, j, k, y
<1>6. \A r \in Rows : \A i \in 1 .. Len(p[r]) : p[r][i] \in 1 .. n
    BY <1>2 DEF Placed, InPlaces
<1>7. p[c] = q /\ k \in 1 .. Len(p[c]) /\ y = p[c][k] /\ y \in 1 .. n
    <2>1. p[c] = q /\ k \in 1 .. Len(p[c]) /\ y = p[c][k]
        BY <1>1 DEF k, y
    <2> QED
        BY <1>1, <1>6, <2>1
<1> HIDE DEF q, c
<1>8. ASSUME NEW u \in Lists \ {v} PROVE Keeps(m, m2, u)
    <2>1. CASE m.ctrl[u] = Null
        BY <1>4, <2>1 DEF Keeps
    <2>2. CASE m.ctrl[u] # Null
        <3> DEFINE r == m.ctrl[u]
        <3>1. r \in Lists /\ r # c
            BY <2>2, SoundFacts DEF Owners, c
        <3> HIDE DEF r
        <3>2. ASSUME NEW i \in 1 .. Len(p[r]) PROVE m2.cells[p[r][i]] = m.cells[p[r][i]]
            <4>1. p[r][i] # y
                BY <1>1, <1>2, <1>7, <3>1, OnePlace
            <4> QED
                BY <1>1, <1>4, <1>6, <3>1, <4>1
        <3> DEFINE t == m.blocks[r].segments
        <3>3. p[r] = t /\ m2.blocks[r] = m.blocks[r] /\ Len(t) \in Nat
            BY <1>1, <1>4, <3>1
        <3>4. \A i \in 1 .. Len(t) : m2.cells[t[i]] = m.cells[t[i]]
            BY <3>2, <3>3
        <3> HIDE DEF t
        <3>5. Len(t) >= Len(t)
            BY <3>3
        <3>6. SameContent(m, m.blocks[r], m2, m2.blocks[r])
            BY <3>3, <3>4, <3>5 DEF SameContent, t
        <3> QED
            BY <1>4, <2>2, <3>6 DEF Keeps, r
    <2> QED
        BY <2>1, <2>2
<1>9. ASSUME NEW i \in 0 .. MaxSize, Segments!SegIndex(i) \in 1 .. Len(q)
      PROVE  ReadAt(m2, c, i) = IF i = idx THEN x ELSE ReadAt(m, c, i)
    <2> DEFINE h == Segments!SegIndex(i)
               l == Segments!SubIndex(i)
    <2>1. /\ ReadAt(m2, c, i) = m2.cells[q[h]][l] /\ ReadAt(m, c, i) = m.cells[q[h]][l]
        BY <1>4 DEF ReadAt, q
    <2>2. l \in 1 .. SEGMENT_SIZE
        BY <1>1, IndexFits
    <2>3. i = idx => h = k /\ l = j
        BY DEF k, j
    <2>4. i # idx => h # k \/ l # j
        BY IndicesDiffer DEF k, j
    <2>5. h \in 1 .. Len(p[c])
        BY <1>7, <1>9
    <2> HIDE DEF h, l
    <2>6. CASE h # k
        <3>1. q[h] # y /\ q[h] \in 1 .. n
            BY <1>1, <1>2, <1>6, <1>7, <2>5, <2>6, OnePlace
        <3> QED
            BY <1>4, <2>1, <2>3, <2>6, <3>1
    <2>7. CASE h = k
        <3>1. q[h] = y /\ m2.cells[y] = [m.cells[y] EXCEPT ![j] = x]
            BY <1>3, <1>7, <2>7
        <3>2. m.cells[y] \in SegmentCells
            BY <1>1, <1>7 DEF n
        <3> DEFINE e == m.cells[y]
        <3>3. [e EXCEPT ![j] = x][l] = IF l = j THEN x ELSE e[l]
            BY <1>5, <2>2, <3>2 DEF SegmentCells
        <3> HIDE DEF e
        <3>4. l = j <=> i = idx
            BY <2>3, <2>4, <2>7
        <3> QED
            BY <2>1, <3>1, <3>3, <3>4 DEF e
    <2> QED
        BY <2>6, <2>7
<1> QED
    BY <1>8, <1>9 DEF m2, q, c

-----------------------------------------------------------------------------
(* m2 is m with one element more said to be in block d. *)
IsLonger(m, m2, d) ==
    /\ MemorySound(m2) /\ m2.ctrl = m.ctrl /\ m2.cells = m.cells
    /\ m2.blocks[d].size = m.blocks[d].size + 1
    /\ m2.blocks[d].segments = m.blocks[d].segments
    /\ \A r \in Lists \ {d} : m2.blocks[r] = m.blocks[r]

LEMMA LongerIsLonger ==
    ASSUME NEW m, MemorySound(m), NEW v \in Lists, NEW d, d = m.ctrl[v], d # Null
    PROVE  IsLonger(m, [m EXCEPT !.blocks[d].size = @ + 1], d)
<1> DEFINE nb == [m.blocks[d] EXCEPT !.size = @ + 1]
           bs == [m.blocks EXCEPT ![d] = nb]
           m2 == [m EXCEPT !.blocks = bs]
           p == RowsOf(m)
<1>1. /\ m \in Memories /\ p \in [Rows -> Seq(Nodes)] /\ p[FreeRow] = m.freed
      /\ m.ctrl \in [Lists -> Lists \cup {Null}] /\ m.blocks \in [Lists -> Blocks]
      /\ FreeRow \in Rows /\ FreeRow \notin Lists
      /\ \A r \in Lists : r \in Rows /\ r # FreeRow /\ p[r] = m.blocks[r].segments
                          /\ m.blocks[r] \in Blocks
    BY SoundFacts
<1>2. d \in Lists /\ m.blocks[d].refCount \in Nat \ {0}
    BY OwnerCounted
<1>3. [m EXCEPT !.blocks[d].size = @ + 1] = m2
    BY <1>1 DEF Memories
<1>4. /\ nb \in Blocks /\ nb.size = m.blocks[d].size + 1 /\ nb.refCount = m.blocks[d].refCount
      /\ nb.segments = m.blocks[d].segments
    <2>1. m.blocks[d] \in Blocks
        BY <1>1, <1>2
    <2> QED
        BY <2>1 DEF Blocks
<1> HIDE DEF nb
<1>5. bs \in [Lists -> Blocks] /\ bs[d] = nb /\ \A r \in Lists \ {d} : bs[r] = m.blocks[r]
    BY <1>1, <1>2, <1>4
<1> HIDE DEF bs, p
<1>6. /\ m2 \in Memories /\ m2.ctrl = m.ctrl /\ m2.blocks = bs /\ m2.cells = m.cells
      /\ m2.freed = m.freed
    BY <1>1, <1>5 DEF Memories
<1> HIDE DEF m2
<1>7. RowsOf(m2) = p
    <2>1. ASSUME NEW r \in Lists PROVE p[r] = m2.blocks[r].segments
        BY <1>1, <1>4, <1>5, <1>6
    <2> QED
        BY <1>1, <1>6, <2>1, RowsAre
<1>8. InRows(m2, RowsOf(m2))
    BY <1>6, <1>7 DEF MemorySound, InRows, p
<1>9. Counted(m2)
    <2>1. ASSUME NEW r \in Lists
          PROVE  /\ bs[r].refCount = Cardinality(Owners(m2, r))
                 /\ bs[r].refCount = 0 => bs[r] = Segments!NoBlock
        <3>1. /\ m.blocks[r].refCount = Cardinality(Owners(m, r))
              /\ m.blocks[r].refCount = 0 => m.blocks[r] = Segments!NoBlock
            BY DEF MemorySound, Counted
        <3>2. Owners(m2, r) = Owners(m, r)
            BY <1>6 DEF Owners
        <3>3. CASE r = d
            BY <1>2, <1>4, <1>5, <3>1, <3>2, <3>3
        <3>4. CASE r # d
            BY <1>5, <3>1, <3>2, <3>4
        <3> QED
            BY <3>3, <3>4
    <2> QED
        BY <1>6, <2>1 DEF Counted
<1>10. IsLonger(m, m2, d)
    BY <1>4, <1>5, <1>6, <1>8, <1>9 DEF IsLonger, MemorySound
<1> QED
    BY <1>3, <1>10

LEMMA LongerKeeps ==
    ASSUME NEW m, MemorySound(m), NEW v \in Lists, NEW m2, IsLonger(m, m2, m.ctrl[v]),
           Owners(m, m.ctrl[v]) = {v}, NEW u \in Lists \ {v}
    PROVE  Keeps(m, m2, u)
<1>1. CASE m.ctrl[u] = Null
    BY <1>1 DEF Keeps, IsLonger
<1>2. CASE m.ctrl[u] # Null
    <2> DEFINE r == m.ctrl[u]
    <2>1. r \in Lists /\ r # m.ctrl[v]
        BY <1>2, SoundFacts DEF Owners
    <2>2. m2.blocks[r] = m.blocks[r] /\ m2.cells = m.cells /\ m2.ctrl[u] = r /\ r # Null
        BY <1>2, <2>1 DEF IsLonger
    <2>3. Len(m.blocks[r].segments) \in Nat
        BY <2>1, SoundFacts
    <2> HIDE DEF r
    <2>4. SameContent(m, m.blocks[r], m2, m2.blocks[r])
        BY <2>2, <2>3 DEF SameContent
    <2> QED
        BY <2>2, <2>4 DEF Keeps, r
<1> QED
    BY <1>1, <1>2

(* push_back() once the block is the vector's own. *)
Roomy(m, v) ==
    IF m.blocks[m.ctrl[v]].size = Len(m.blocks[m.ctrl[v]].segments) * SEGMENT_SIZE
    THEN Segments!WithSegment(m, v) ELSE m

PushedTo(m, v, n, x, d) == [Segments!Stored(m, v, n, x) EXCEPT !.blocks[d].size = @ + 1]

Pushed(m, v, x) ==
    LET e == Segments!Detached(m, v)
    IN  PushedTo(Roomy(e, v), v, e.blocks[e.ctrl[v]].size, x, e.ctrl[v])

IsRoomy(m, m2, v) ==
    /\ MemorySound(m2) /\ m2.ctrl = m.ctrl
    /\ m2.blocks[m.ctrl[v]].size = m.blocks[m.ctrl[v]].size
    /\ \A u \in Lists : Keeps(m, m2, u)

LEMMA RoomMade ==
    ASSUME NEW m, MemorySound(m), NEW v \in Lists, m.ctrl[v] # Null, Available(m) >= 1
    PROVE  IsRoomy(m, Roomy(m, v), v)
<1>1. IsGrown(m, Segments!WithSegment(m, v), v)
    BY GrownIsGrown
<1>2. IsRoomy(m, Segments!WithSegment(m, v), v)
    BY <1>1 DEF IsGrown, IsRoomy
<1>3. IsRoomy(m, m, v)
    BY KeepsItself DEF IsRoomy
<1> QED
    BY <1>2, <1>3 DEF Roomy

LEMMA MemoryStored ==
    ASSUME NEW m, MemorySound(m), NEW v \in Lists, NEW idx, NEW x \in Elements
    PROVE  /\ MemorySound(Segments!Stored(m, v, idx, x))
           /\ Segments!Stored(m, v, idx, x).ctrl = m.ctrl
           /\ Segments!Stored(m, v, idx, x).blocks = m.blocks
<1> DEFINE y == m.blocks[m.ctrl[v]].segments[Segments!SegIndex(idx)]
           j == Segments!SubIndex(idx)
           s == Segments!Stored(m, v, idx, x)
<1>1. IsStored(m, s, y, j, x)
    BY StoredFields
<1> HIDE DEF y, j, s
<1>2. MemorySound(s) /\ s.ctrl = m.ctrl /\ s.blocks = m.blocks
    BY <1>1, SMTT(30) DEF IsStored, OnlyCell
<1> QED
    BY <1>2 DEF s

LEMMA MemoryPushed ==
    ASSUME NEW m, MemorySound(m), NEW v \in Lists, m.ctrl[v] # Null, NEW x \in Elements,
           Available(m) >= Len(m.blocks[m.ctrl[v]].segments) + 1
    PROVE  MemorySound(Pushed(m, v, x))
<1> DEFINE e == Segments!Detached(m, v)
           r == Roomy(e, v)
           n == e.blocks[e.ctrl[v]].size
           s == Segments!Stored(r, v, n, x)
<1>1. IsDetached(m, e, v)
    BY DetachedIsDetached
<1> HIDE DEF e
<1>2. MemorySound(e) /\ e.ctrl[v] \in Lists /\ e.ctrl[v] # Null /\ Available(e) >= 1
    BY <1>1, SegmentsAssumption DEF IsDetached
<1>3. IsRoomy(e, r, v)
    BY <1>2, RoomMade
<1> HIDE DEF r, n
<1>4. MemorySound(r) /\ r.ctrl[v] = e.ctrl[v]
    BY <1>3 DEF IsRoomy
<1>5. MemorySound(s) /\ s.ctrl[v] = e.ctrl[v]
    BY <1>4, MemoryStored
<1> HIDE DEF s
<1>6. IsLonger(s, [s EXCEPT !.blocks[e.ctrl[v]].size = @ + 1], e.ctrl[v])
    BY <1>2, <1>5, LongerIsLonger
<1> QED
    BY <1>6 DEF IsLonger, Pushed, PushedTo, s, r, n, e

(* Where the element that is pushed goes, there is room. *)
LEMMA RoomFits ==
    ASSUME IndicesAreExact, NEW m, MemorySound(m), NEW v \in Lists, m.ctrl[v] # Null,
           Available(m) >= 1, NEW s, Content(m, v, s),
           m.blocks[m.ctrl[v]].size < MaxSize
    PROVE  Segments!SegIndex(m.blocks[m.ctrl[v]].size)
               \in 1 .. Len(Roomy(m, v).blocks[m.ctrl[v]].segments)
<1> DEFINE d == m.ctrl[v]
           n == m.blocks[d].size
           k == Len(m.blocks[d].segments)
           k2 == Len(Roomy(m, v).blocks[d].segments)
           z == SEGMENT_SIZE
<1>1. d \in Lists /\ k \in Nat /\ n \in 0 .. MaxSize /\ MaxSize \in Nat /\ z \in Nat \ {0}
    BY SoundFacts, SegmentsAssumption DEF Content
<1>2. IsGrown(m, Segments!WithSegment(m, v), v)
    BY GrownIsGrown
<1>3. n = k * z => k2 = k + 1
    <2>1. Len(Segments!WithSegment(m, v).blocks[d].segments) = k + 1
        BY <1>2 DEF IsGrown
    <2> QED
        BY <2>1 DEF Roomy
<1>4. n # k * z => k2 = k
    BY DEF Roomy
<1>5. n - 1 \in Nat => Segments!SegIndex(n - 1) \in 1 .. k
    <2>1. \A i \in 0 .. n - 1 : Segments!SegIndex(i) \in 1 .. k
        BY DEF Content
    <2> HIDE DEF n, k
    <2> QED
        BY <1>1, <2>1
<1> HIDE DEF n, k, k2, z, d
<1>6. n - 1 \in Nat => n - 1 < k * z
    <2>1. ASSUME n - 1 \in Nat PROVE n - 1 < k * z
        <3>1. n - 1 \in 0 .. MaxSize
            BY <1>1, <2>1
        <3> QED
            BY <1>1, <1>5, <2>1, <3>1, IndexFits DEF z
    <2> QED
        BY <2>1
<1> DEFINE f == k * z
           g == k2 * z
<1>7. f \in Nat /\ (k2 = k => g = f) /\ (k2 = k + 1 => g = f + z)
    BY <1>1
<1>8. (n = f => k2 = k + 1) /\ (n # f => k2 = k) /\ (n - 1 \in Nat => n - 1 < f)
    BY <1>3, <1>4, <1>6
<1> HIDE DEF f, g
<1>9. n < g
    BY <1>1, <1>7, <1>8
<1>10. k2 \in Nat
    BY <1>1, <1>8
<1>11. Segments!SegIndex(n) \in 1 .. k2
    BY <1>1, <1>9, <1>10, IndexFits DEF g, z
<1> QED
    BY <1>11 DEF n, k2, d

LEMMA ContentsPushedTo ==
    ASSUME IndicesAreExact, NEW m, MemorySound(m), NEW v \in Lists, NEW d, d = m.ctrl[v], d # Null,
           Owners(m, d) = {v}, NEW q, Contents(m, q), NEW x \in Elements,
           NEW n, n = m.blocks[d].size, n < MaxSize,
           Segments!SegIndex(n) \in 1 .. Len(m.blocks[d].segments)
    PROVE  Contents(PushedTo(m, v, n, x, d), [q EXCEPT ![v] = Append(@, x)])
<1> DEFINE s == Segments!Stored(m, v, n, x)
           m2 == PushedTo(m, v, n, x, d)
           q2 == [q EXCEPT ![v] = Append(@, x)]
<1>1. MemorySound(s) /\ s.ctrl = m.ctrl /\ s.blocks = m.blocks
    BY MemoryStored
<1>2. q \in [Lists -> Seq(Elements)] /\ \A u \in Lists : Content(m, u, q[u])
    BY SMTT(30) DEF Contents
<1>3. /\ n = Len(q[v]) /\ n \in 0 .. MaxSize
      /\ \A i \in 0 .. n - 1 :
             Segments!SegIndex(i) \in 1 .. Len(m.blocks[d].segments) /\ ReadAt(m, d, i) = q[v][i + 1]
    BY <1>2 DEF Content
<1>4. /\ \A u \in Lists \ {v} : Keeps(m, s, u)
      /\ \A i \in 0 .. MaxSize :
             Segments!SegIndex(i) \in 1 .. Len(m.blocks[d].segments) =>
                 ReadAt(s, d, i) = IF i = n THEN x ELSE ReadAt(m, d, i)
    BY <1>3, StoredRead, SMTT(30)
<1> HIDE DEF s
<1>5. IsLonger(s, m2, d)
    BY <1>1, LongerIsLonger DEF PushedTo, s
<1> HIDE DEF m2
<1>6. /\ MemorySound(m2) /\ m2.ctrl = m.ctrl /\ m2.cells = s.cells /\ m2.blocks[d].size = n + 1
      /\ m2.blocks[d].segments = m.blocks[d].segments
    BY <1>1, <1>5 DEF IsLonger
<1>7. /\ q2 \in [Lists -> Seq(Elements)] /\ q2[v] = Append(q[v], x)
      /\ \A u \in Lists \ {v} : q2[u] = q[u]
    BY <1>2
<1> HIDE DEF q2
<1>8. ASSUME NEW u \in Lists \ {v} PROVE Content(m2, u, q2[u])
    <2>1. Content(m, u, q[u]) /\ Keeps(m, s, u)
        BY <1>2, <1>4
    <2>2. Content(s, u, q[u])
        BY <1>1, <2>1, ContentKept
    <2>3. Owners(s, s.ctrl[v]) = {v} /\ IsLonger(s, m2, s.ctrl[v])
        BY <1>1, <1>5 DEF Owners
    <2>4. Keeps(s, m2, u)
        BY <1>1, <2>3, LongerKeeps
    <2>5. Content(m2, u, q[u])
        BY <1>1, <1>6, <2>2, <2>4, ContentKept
    <2> QED
        BY <1>7, <2>5
<1>9. Content(m2, v, q2[v])
    <2> DEFINE t == q[v]
               t2 == q2[v]
    <2>1. t \in Seq(Elements) /\ t2 = Append(t, x) /\ n = Len(t) /\ n \in Nat
        BY <1>2, <1>3, <1>7
    <2> HIDE DEF t, t2
    <2>2. Len(t2) = n + 1 /\ t2[n + 1] = x /\ \A i \in 1 .. n : t2[i] = t[i]
        BY <2>1, AppendProperties
    <2>3. n + 1 \in 0 .. MaxSize
        BY <1>3, SegmentsAssumption
    <2>4. ASSUME NEW i \in 0 .. (n + 1) - 1
          PROVE  /\ Segments!SegIndex(i) \in 1 .. Len(m2.blocks[d].segments)
                 /\ ReadAt(m2, d, i) = t2[i + 1]
        <3>1. i \in 0 .. MaxSize
            BY <1>3, SegmentsAssumption
        <3>2. ReadAt(m2, d, i) = ReadAt(s, d, i)
            BY <1>1, <1>6, SMTT(30) DEF ReadAt
        <3>3. CASE i = n
            BY <1>4, <1>6, <2>2, <3>1, <3>2, <3>3
        <3>4. CASE i # n
            <4>1. i \in 0 .. n - 1 /\ i + 1 \in 1 .. n
                BY <2>1, <3>4
            <4>2. /\ Segments!SegIndex(i) \in 1 .. Len(m.blocks[d].segments)
                  /\ ReadAt(m, d, i) = t[i + 1]
                BY <1>3, <4>1 DEF t
            <4> QED
                BY <1>4, <1>6, <2>2, <3>1, <3>2, <3>4, <4>1, <4>2
        <3> QED
            BY <3>3, <3>4
    <2> QED
        BY <1>6, <2>2, <2>3, <2>4 DEF Content, t2
<1> QED
    BY <1>7, <1>8, <1>9 DEF Contents, m2, q2

LEMMA ContentsKept ==
    ASSUME NEW m, MemorySound(m), NEW m2, MemorySound(m2), NEW q, Contents(m, q),
           \A u \in Lists : Keeps(m, m2, u)
    PROVE  Contents(m2, q)
BY ContentKept DEF Contents

LEMMA ContentsPushed ==
    ASSUME IndicesAreExact, NEW m, MemorySound(m), NEW v \in Lists, m.ctrl[v] # Null,
           NEW x \in Elements, Available(m) >= Len(m.blocks[m.ctrl[v]].segments) + 1,
           NEW q, Contents(m, q), m.blocks[m.ctrl[v]].size < MaxSize
    PROVE  Contents(Pushed(m, v, x), [q EXCEPT ![v] = Append(@, x)])
<1> DEFINE e == Segments!Detached(m, v)
           d == e.ctrl[v]
           r == Roomy(e, v)
           n == e.blocks[d].size
<1>1. IsDetached(m, e, v)
    BY DetachedIsDetached
<1> HIDE DEF e
<1>2. /\ MemorySound(e) /\ d \in Lists /\ d # Null /\ Available(e) >= 1 /\ Owners(e, d) = {v}
      /\ \A u \in Lists : Keeps(m, e, u)
    BY <1>1, SegmentsAssumption DEF IsDetached
<1>3. IsRoomy(e, r, v)
    BY <1>2, RoomMade
<1>4. Contents(e, q)
    BY <1>2, ContentsKept
<1>5. n = m.blocks[m.ctrl[v]].size
    BY <1>2 DEF Keeps, SameContent
<1>6. Segments!SegIndex(n) \in 1 .. Len(r.blocks[d].segments)
    <2>1. Content(e, v, q[v])
        BY <1>4 DEF Contents
    <2> QED
        BY <1>2, <1>5, <2>1, RoomFits
<1> HIDE DEF r
<1>7. /\ MemorySound(r) /\ r.ctrl = e.ctrl /\ r.blocks[d].size = n
      /\ \A u \in Lists : Keeps(e, r, u)
    BY <1>3 DEF IsRoomy
<1>8. Contents(r, q)
    BY <1>2, <1>4, <1>7, ContentsKept
<1>9. Owners(r, d) = {v}
    BY <1>2, <1>7 DEF Owners
<1> HIDE DEF n, d
<1>10. Contents(PushedTo(r, v, n, x, d), [q EXCEPT ![v] = Append(@, x)])
    BY <1>2, <1>5, <1>6, <1>7, <1>8, <1>9, ContentsPushedTo DEF d
<1> QED
    BY <1>10 DEF Pushed, r, n, d, e

(* The store through the reference that operator[] gave of the one owner   *)
(* of a block.                                                             *)
LEMMA ContentsStored ==
    ASSUME IndicesAreExact, NEW e, MemorySound(e), NEW v \in Lists, e.ctrl[v] # Null,
           Owners(e, e.ctrl[v]) = {v}, NEW x \in Elements,
           NEW q, Contents(e, q), NEW idx \in 0 .. MaxSize, idx < e.blocks[e.ctrl[v]].size
    PROVE  Contents(Segments!Stored(e, v, idx, x), [q EXCEPT ![v][idx + 1] = x])
<1> DEFINE d == e.ctrl[v]
           n == e.blocks[d].size
           s == Segments!Stored(e, v, idx, x)
           t == [q[v] EXCEPT ![idx + 1] = x]
           q2 == [q EXCEPT ![v] = t]
<1>2. d \in Lists /\ d # Null /\ Owners(e, d) = {v} /\ idx < n
    BY SoundFacts
<1>5. q \in [Lists -> Seq(Elements)] /\ \A u \in Lists : Content(e, u, q[u])
    BY DEF Contents
<1>6. /\ n = Len(q[v]) /\ n \in 0 .. MaxSize
      /\ \A i \in 0 .. n - 1 :
             Segments!SegIndex(i) \in 1 .. Len(e.blocks[d].segments) /\ ReadAt(e, d, i) = q[v][i + 1]
    BY <1>2, <1>5 DEF Content
<1> HIDE DEF n, d
<1>7. idx \in 0 .. n - 1 /\ Segments!SegIndex(idx) \in 1 .. Len(e.blocks[d].segments)
    <2>1. idx \in 0 .. n - 1
        BY <1>2, <1>6
    <2> QED
        BY <1>6, <2>1
<1>8. /\ \A u \in Lists \ {v} : Keeps(e, s, u)
      /\ \A i \in 0 .. MaxSize :
             Segments!SegIndex(i) \in 1 .. Len(e.blocks[d].segments) =>
                 ReadAt(s, d, i) = IF i = idx THEN x ELSE ReadAt(e, d, i)
    BY <1>2, <1>7, StoredRead DEF d
<1>9. MemorySound(s) /\ s.ctrl = e.ctrl /\ s.blocks = e.blocks
    BY <1>2, MemoryStored
<1> HIDE DEF s
<1>10. /\ t \in Seq(Elements) /\ Len(t) = n
       /\ \A i \in 1 .. n : t[i] = IF i = idx + 1 THEN x ELSE q[v][i]
    <2>1. q[v] \in Seq(Elements) /\ idx + 1 \in 1 .. Len(q[v])
        BY <1>5, <1>6, <1>7
    <2> DEFINE o == q[v]
    <2> HIDE DEF o
    <2>2. o \in Seq(Elements) /\ n = Len(o) /\ idx + 1 \in 1 .. Len(o)
        BY <1>6, <2>1 DEF o
    <2>3. /\ [o EXCEPT ![idx + 1] = x] \in Seq(Elements) /\ Len([o EXCEPT ![idx + 1] = x]) = Len(o)
          /\ \A i \in 1 .. Len(o) : [o EXCEPT ![idx + 1] = x][i] = IF i = idx + 1 THEN x ELSE o[i]
        BY <2>2, ExceptSeq
    <2> QED
        BY <2>2, <2>3 DEF o
<1>11. [q EXCEPT ![v][idx + 1] = x] = q2
    BY <1>5
<1> HIDE DEF t
<1>12. q2 \in [Lists -> Seq(Elements)] /\ q2[v] = t /\ \A u \in Lists \ {v} : q2[u] = q[u]
    BY <1>5, <1>10
<1> HIDE DEF q2
<1>13. ASSUME NEW u \in Lists \ {v} PROVE Content(s, u, q2[u])
    <2>1. Content(e, u, q[u]) /\ Keeps(e, s, u)
        BY <1>5, <1>8
    <2> QED
        BY <1>2, <1>9, <1>12, <2>1, ContentKept
<1>14. Content(s, v, t)
    <2>1. ASSUME NEW i \in 0 .. n - 1
          PROVE  /\ Segments!SegIndex(i) \in 1 .. Len(e.blocks[d].segments)
                 /\ ReadAt(s, d, i) = t[i + 1]
        <3>1. i \in 0 .. MaxSize /\ i + 1 \in 1 .. n /\ (i + 1 = idx + 1 <=> i = idx)
            BY <1>6, <1>7, SegmentsAssumption
        <3>2. /\ Segments!SegIndex(i) \in 1 .. Len(e.blocks[d].segments)
              /\ ReadAt(e, d, i) = q[v][i + 1]
            BY <1>6
        <3> QED
            BY <1>8, <1>10, <3>1, <3>2
    <2> QED
        BY <1>6, <1>9, <1>10, <2>1 DEF Content, n, d
<1>15. Contents(s, q2)
    BY <1>12, <1>13, <1>14 DEF Contents
<1> QED
    BY <1>11, <1>15 DEF s

-----------------------------------------------------------------------------
(* m2 is m with other owners and counts. *)
Reowned(m, cs, bs, m2) ==
    /\ InRows(m2, RowsOf(m2)) /\ m2.ctrl = cs /\ m2.blocks = bs
    /\ m2.cells = m.cells /\ m2.freed = m.freed

LEMMA RowsStay ==
    ASSUME NEW m, MemorySound(m), NEW cs \in [Lists -> Lists \cup {Null}],
           NEW bs \in [Lists -> Blocks], \A r \in Lists : bs[r].segments = m.blocks[r].segments
    PROVE  Reowned(m, cs, bs, [m EXCEPT !.blocks = bs, !.ctrl = cs])
<1> DEFINE m2 == [m EXCEPT !.blocks = bs, !.ctrl = cs]
           p == RowsOf(m)
<1>1. /\ m \in Memories /\ p \in [Rows -> Seq(Nodes)] /\ p[FreeRow] = m.freed
      /\ \A r \in Lists : p[r] = m.blocks[r].segments
    BY SoundFacts
<1> HIDE DEF p
<1>2. /\ m2 \in Memories /\ m2.ctrl = cs /\ m2.blocks = bs /\ m2.cells = m.cells
      /\ m2.freed = m.freed
    BY <1>1 DEF Memories
<1> HIDE DEF m2
<1>3. RowsOf(m2) = p
    BY <1>1, <1>2, RowsAre
<1>4. InRows(m2, RowsOf(m2))
    BY <1>2, <1>3 DEF MemorySound, InRows, p
<1> QED
    BY <1>2, <1>4 DEF Reowned, m2

(* A vector without a block gets a new one, and the others keep theirs. *)
IsGiven(m, m2, v, c) ==
    /\ MemorySound(m2) /\ m2.ctrl[v] = c
    /\ \A u \in Lists \ {v} : m2.ctrl[u] = m.ctrl[u] /\ Keeps(m, m2, u)

LEMMA BlockGiven ==
    ASSUME NEW m, MemorySound(m), NEW v \in Lists, m.ctrl[v] = Null, NEW c \in Lists,
           Owners(m, c) = {}, m.blocks[c] = Segments!NoBlock
    PROVE  LET m2 == [m EXCEPT !.blocks[c] = Segments!NewBlock, !.ctrl[v] = c]
           IN  IsGiven(m, m2, v, c) /\ m2.blocks[c].size = 0
<1> DEFINE bs == [m.blocks EXCEPT ![c] = Segments!NewBlock]
           cs == [m.ctrl EXCEPT ![v] = c]
           m2 == [m EXCEPT !.blocks = bs, !.ctrl = cs]
<1>1. /\ m \in Memories /\ m.ctrl \in [Lists -> Lists \cup {Null}] /\ m.blocks \in [Lists -> Blocks]
      /\ Null \notin Lists /\ \A r \in Lists : Len(m.blocks[r].segments) \in Nat
    BY SoundFacts
<1>2. /\ Segments!NewBlock \in Blocks /\ Segments!NewBlock.segments = Segments!NoBlock.segments
      /\ Segments!NewBlock.refCount = 1 /\ Segments!NewBlock.size = 0
    <2>1. Segments!NewBlock = [size |-> 0, segments |-> << >>, refCount |-> 1]
        BY DEF Segments!NewBlock, Segments!NoBlock
    <2> QED
        BY <2>1 DEF Blocks, Segments!NoBlock
<1>3. [m EXCEPT !.blocks[c] = Segments!NewBlock, !.ctrl[v] = c] = m2
    BY <1>1 DEF Memories
<1>4. /\ bs \in [Lists -> Blocks] /\ bs[c] = Segments!NewBlock
      /\ \A r \in Lists \ {c} : bs[r] = m.blocks[r]
    BY <1>1, <1>2
<1>5. /\ cs \in [Lists -> Lists \cup {Null}] /\ cs[v] = c
      /\ \A u \in Lists \ {v} : cs[u] = m.ctrl[u]
    BY <1>1
<1> HIDE DEF bs, cs
<1>6. \A r \in Lists : bs[r].segments = m.blocks[r].segments
    BY <1>2, <1>4
<1>7. Reowned(m, cs, bs, m2)
    BY <1>4, <1>5, <1>6, RowsStay
<1> HIDE DEF m2
<1>8. InRows(m2, RowsOf(m2)) /\ m2.ctrl = cs /\ m2.blocks = bs /\ m2.cells = m.cells
    BY <1>7 DEF Reowned
<1>9. Owners(m2, c) = {v} /\ \A r \in Lists \ {c} : Owners(m2, r) = Owners(m, r)
    <2>1. \A u \in Lists : m2.ctrl[u] = c <=> u = v
        BY <1>5, <1>8 DEF Owners
    <2>2. ASSUME NEW r \in Lists \ {c} PROVE Owners(m2, r) = Owners(m, r)
        <3>1. \A u \in Lists : m2.ctrl[u] = r <=> m.ctrl[u] = r
            BY <1>1, <1>5, <1>8
        <3> QED
            BY <3>1 DEF Owners
    <2> QED
        BY <2>1, <2>2 DEF Owners
<1>10. ASSUME NEW r \in Lists
       PROVE  /\ bs[r].refCount = Cardinality(Owners(m2, r))
              /\ bs[r].refCount = 0 => bs[r] = Segments!NoBlock
    <2>1. /\ m.blocks[r].refCount = Cardinality(Owners(m, r))
          /\ m.blocks[r].refCount = 0 => m.blocks[r] = Segments!NoBlock
        BY DEF MemorySound, Counted
    <2>2. Cardinality({v}) = 1
        BY FS_Singleton
    <2>3. CASE r = c
        BY <1>2, <1>4, <1>9, <2>2, <2>3
    <2>4. CASE r # c
        BY <1>4, <1>9, <2>1, <2>4
    <2> QED
        BY <2>3, <2>4
<1>11. MemorySound(m2)
    BY <1>8, <1>10 DEF MemorySound, Counted
<1>12. ASSUME NEW u \in Lists \ {v} PROVE Keeps(m, m2, u)
    <2>1. CASE m.ctrl[u] = Null
        BY <1>5, <1>8, <2>1 DEF Keeps
    <2>2. CASE m.ctrl[u] # Null
        <3> DEFINE r == m.ctrl[u]
        <3>1. r \in Lists \ {c} /\ m2.ctrl[u] = r /\ r # Null
            BY <1>1, <1>5, <1>8, <2>2 DEF Owners
        <3> HIDE DEF r
        <3>2. SameContent(m, m.blocks[r], m2, m2.blocks[r])
            BY <1>1, <1>4, <1>8, <3>1 DEF SameContent
        <3> QED
            BY <3>1, <3>2 DEF Keeps, r
    <2> QED
        BY <2>1, <2>2
<1>13. IsGiven(m, m2, v, c) /\ m2.blocks[c].size = 0
    BY <1>2, <1>4, <1>5, <1>8, <1>11, <1>12 DEF IsGiven
<1> QED
    BY <1>3, <1>13

(* A vector without a block becomes one more owner of another's. *)
LEMMA BlockShared ==
    ASSUME NEW m, MemorySound(m), NEW v \in Lists, m.ctrl[v] = Null, NEW w \in Lists,
           NEW c \in Lists, m.ctrl[w] = c
    PROVE  IsGiven(m, [m EXCEPT !.ctrl[v] = c, !.blocks[c].refCount = @ + 1], v, c)
<1> DEFINE nb == [m.blocks[c] EXCEPT !.refCount = @ + 1]
           bs == [m.blocks EXCEPT ![c] = nb]
           cs == [m.ctrl EXCEPT ![v] = c]
           m2 == [m EXCEPT !.blocks = bs, !.ctrl = cs]
<1>1. /\ m \in Memories /\ m.ctrl \in [Lists -> Lists \cup {Null}] /\ m.blocks \in [Lists -> Blocks]
      /\ Null \notin Lists /\ \A r \in Lists : Len(m.blocks[r].segments) \in Nat
    BY SoundFacts
<1>2. /\ nb \in Blocks /\ nb.segments = m.blocks[c].segments /\ nb.size = m.blocks[c].size
      /\ nb.refCount = m.blocks[c].refCount + 1
    <2>1. m.blocks[c] \in Blocks
        BY <1>1
    <2> QED
        BY <2>1 DEF Blocks
<1>3. [m EXCEPT !.ctrl[v] = c, !.blocks[c].refCount = @ + 1] = m2
    BY <1>1 DEF Memories
<1> HIDE DEF nb
<1>4. bs \in [Lists -> Blocks] /\ bs[c] = nb /\ \A r \in Lists \ {c} : bs[r] = m.blocks[r]
    BY <1>1, <1>2
<1>5. /\ cs \in [Lists -> Lists \cup {Null}] /\ cs[v] = c
      /\ \A u \in Lists \ {v} : cs[u] = m.ctrl[u]
    BY <1>1
<1> HIDE DEF bs, cs
<1>6. \A r \in Lists : bs[r].segments = m.blocks[r].segments
    BY <1>2, <1>4
<1>7. Reowned(m, cs, bs, m2)
    BY <1>4, <1>5, <1>6, RowsStay
<1> HIDE DEF m2
<1>8. InRows(m2, RowsOf(m2)) /\ m2.ctrl = cs /\ m2.blocks = bs /\ m2.cells = m.cells
    BY <1>7 DEF Reowned
<1>9. /\ Owners(m2, c) = Owners(m, c) \cup {v} /\ v \notin Owners(m, c)
      /\ \A r \in Lists \ {c} : Owners(m2, r) = Owners(m, r)
    <2>1. \A u \in Lists : m2.ctrl[u] = c <=> u = v \/ m.ctrl[u] = c
        BY <1>5, <1>8
    <2>2. ASSUME NEW r \in Lists \ {c} PROVE Owners(m2, r) = Owners(m, r)
        <3>1. \A u \in Lists : m2.ctrl[u] = r <=> m.ctrl[u] = r
            BY <1>1, <1>5, <1>8
        <3> QED
            BY <3>1 DEF Owners
    <2>3. Owners(m2, c) = Owners(m, c) \cup {v}
        BY <2>1 DEF Owners
    <2>4. v \notin Owners(m, c)
        BY <1>1 DEF Owners
    <2> QED
        BY <2>2, <2>3, <2>4
<1>10. ASSUME NEW r \in Lists
       PROVE  /\ bs[r].refCount = Cardinality(Owners(m2, r))
              /\ bs[r].refCount = 0 => bs[r] = Segments!NoBlock
    <2>1. /\ m.blocks[r].refCount = Cardinality(Owners(m, r))
          /\ m.blocks[r].refCount = 0 => m.blocks[r] = Segments!NoBlock
        BY DEF MemorySound, Counted
    <2>2. CASE r = c
        <3>1. /\ Cardinality(Owners(m2, c)) = Cardinality(Owners(m, c)) + 1
              /\ Cardinality(Owners(m, c)) \in Nat
            BY <1>9, OwnersCounted, FS_AddElement, ZenonT(60)
        <3> QED
            BY <1>2, <1>4, <2>1, <2>2, <3>1
    <2>3. CASE r # c
        BY <1>4, <1>9, <2>1, <2>3
    <2> QED
        BY <2>2, <2>3
<1>11. MemorySound(m2)
    BY <1>8, <1>10 DEF MemorySound, Counted
<1>12. ASSUME NEW u \in Lists \ {v} PROVE Keeps(m, m2, u)
    <2>1. CASE m.ctrl[u] = Null
        BY <1>5, <1>8, <2>1 DEF Keeps
    <2>2. CASE m.ctrl[u] # Null
        <3> DEFINE r == m.ctrl[u]
        <3>1. r \in Lists /\ m2.ctrl[u] = r /\ r # Null
            BY <1>1, <1>5, <1>8, <2>2
        <3> HIDE DEF r
        <3>2. bs[r].size = m.blocks[r].size
            BY <1>2, <1>4, <3>1
        <3>3. SameContent(m, m.blocks[r], m2, m2.blocks[r])
            BY <1>1, <1>6, <1>8, <3>1, <3>2 DEF SameContent
        <3> QED
            BY <3>1, <3>3 DEF Keeps, r
    <2> QED
        BY <2>1, <2>2
<1>13. IsGiven(m, m2, v, c)
    BY <1>5, <1>8, <1>11, <1>12 DEF IsGiven
<1> QED
    BY <1>3, <1>13

(* A vector without a block takes what another has. *)
IsMoved(m, m2, v, w) ==
    /\ MemorySound(m2) /\ m2.ctrl[v] = m.ctrl[w] /\ m2.ctrl[w] = Null
    /\ m2.blocks = m.blocks /\ m2.cells = m.cells
    /\ \A u \in Lists \ {v, w} : Keeps(m, m2, u)

LEMMA BlockMoved ==
    ASSUME NEW m, MemorySound(m), NEW v \in Lists, m.ctrl[v] = Null, NEW w \in Lists \ {v},
           NEW c, c = m.ctrl[w]
    PROVE  IsMoved(m, [m EXCEPT !.ctrl[v] = c, !.ctrl[w] = Null], v, w)
<1> DEFINE cs == [[m.ctrl EXCEPT ![v] = c] EXCEPT ![w] = Null]
           bs == m.blocks
           m2 == [m EXCEPT !.blocks = bs, !.ctrl = cs]
<1>1. /\ m \in Memories /\ m.ctrl \in [Lists -> Lists \cup {Null}] /\ bs \in [Lists -> Blocks]
      /\ Null \notin Lists /\ \A r \in Lists : Len(m.blocks[r].segments) \in Nat
    BY SoundFacts
<1>2. [m EXCEPT !.ctrl[v] = c, !.ctrl[w] = Null] = m2
    BY <1>1 DEF Memories
<1>3. /\ cs \in [Lists -> Lists \cup {Null}] /\ cs[v] = c /\ cs[w] = Null
      /\ \A u \in Lists \ {v, w} : cs[u] = m.ctrl[u]
    BY <1>1
<1> HIDE DEF cs
<1>4. Reowned(m, cs, bs, m2)
    BY <1>1, <1>3, RowsStay
<1> HIDE DEF m2
<1>5. InRows(m2, RowsOf(m2)) /\ m2.ctrl = cs /\ m2.blocks = bs /\ m2.cells = m.cells
    BY <1>4 DEF Reowned
<1>6. ASSUME NEW r \in Lists
      PROVE  Cardinality(Owners(m2, r)) = Cardinality(Owners(m, r))
    <2>1. CASE r = c
        <3>1. Owners(m2, r) = (Owners(m, r) \ {w}) \cup {v}
            <4>1. \A u \in Lists : m2.ctrl[u] = r <=> u = v \/ (u # w /\ m.ctrl[u] = r)
                BY <1>1, <1>3, <1>5, <2>1
            <4> QED
                BY <4>1 DEF Owners
        <3>2. w \in Owners(m, r) /\ v \notin Owners(m, r)
            BY <1>1, <2>1 DEF Owners
        <3> DEFINE O == Owners(m, r)
                   P == O \ {w}
        <3>3. IsFiniteSet(O) /\ Cardinality(O) \in Nat
            BY OwnersCounted
        <3> HIDE DEF O
        <3>4. IsFiniteSet(P) /\ Cardinality(P) = Cardinality(O) - 1
            BY <3>2, <3>3, FS_RemoveElement DEF O
        <3>5. v \notin P
            BY <3>2 DEF O
        <3> HIDE DEF P
        <3>6. Cardinality(P \cup {v}) = Cardinality(P) + 1
            BY <3>4, <3>5, FS_AddElement
        <3>7. Owners(m2, r) = P \cup {v}
            BY <3>1 DEF P, O
        <3> QED
            BY <3>3, <3>4, <3>6, <3>7 DEF O
    <2>2. CASE r # c
        <3>1. \A u \in Lists : m2.ctrl[u] = r <=> m.ctrl[u] = r
            BY <1>1, <1>3, <1>5, <2>2
        <3> QED
            BY <3>1 DEF Owners
    <2> QED
        BY <2>1, <2>2
<1>7. MemorySound(m2)
    BY <1>5, <1>6 DEF MemorySound, Counted
<1>8. ASSUME NEW u \in Lists \ {v, w} PROVE Keeps(m, m2, u)
    <2>1. Keeps(m, m, u)
        BY KeepsItself
    <2> QED
        BY <1>3, <1>5, <2>1 DEF Keeps, SameContent
<1>9. IsMoved(m, m2, v, w)
    BY <1>3, <1>5, <1>7, <1>8 DEF IsMoved
<1> QED
    BY <1>2, <1>9

-----------------------------------------------------------------------------
(* What the calls do to the memory. *)
LEMMA PushBackMemory ==
    ASSUME MemorySound(mem), NEW v \in Lists, NEW x \in Elements, Segments!PushBack(v, x)
    PROVE  /\ mem.ctrl[v] # Null /\ Available(mem) >= Len(mem.blocks[mem.ctrl[v]].segments) + 1
           /\ mem.blocks[mem.ctrl[v]].size < MaxSize
           /\ mem' = Pushed(mem, v, x) /\ sseqs' = [sseqs EXCEPT ![v] = Append(@, x)]
           /\ crashed' = crashed
<1>1. /\ Segments!Writable(v) /\ Segments!BlockOf(v).size < MaxSize
      /\ sseqs' = [sseqs EXCEPT ![v] = Append(@, x)] /\ crashed' = crashed
    BY ZenonT(60) DEF Segments!PushBack
<1>2. mem' = Pushed(mem, v, x)
    BY DEF Segments!PushBack, Pushed, PushedTo, Roomy
<1>3. /\ mem.ctrl[v] # Null /\ Available(mem) >= Len(mem.blocks[mem.ctrl[v]].segments) + 1
    <2>1. /\ mem.ctrl[v] # Null
          /\ Len(mem.blocks[mem.ctrl[v]].segments) + 1 <= Available(mem)
        BY <1>1 DEF Segments!Writable, Segments!HasSegments, Segments!BlockOf, Available
    <2>2. Len(mem.blocks[mem.ctrl[v]].segments) \in Nat /\ Available(mem) \in Int
        BY <2>1, SoundFacts
    <2> QED
        BY <2>1, <2>2
<1> QED
    BY <1>1, <1>2, <1>3, SMTT(30) DEF Segments!BlockOf

LEMMA AccessMemory ==
    ASSUME MemorySound(mem), NEW v \in Lists, NEW idx, Segments!Access(v, idx)
    PROVE  /\ mem.ctrl[v] # Null /\ Available(mem) >= Len(mem.blocks[mem.ctrl[v]].segments) + 1
           /\ idx < mem.blocks[mem.ctrl[v]].size
           /\ mem' = Segments!Detached(mem, v) /\ IsDetached(mem, mem', v)
           /\ sseqs' = sseqs /\ crashed' = crashed
           /\ ref' = [of |-> v, idx |-> idx,
                      segment |-> mem'.blocks[mem'.ctrl[v]].segments[Segments!SegIndex(idx)]]
<1>1. /\ Segments!Writable(v) /\ idx < Segments!BlockOf(v).size
      /\ sseqs' = sseqs /\ crashed' = crashed
    BY DEF Segments!Access
<1>2. /\ mem' = Segments!Detached(mem, v)
      /\ ref' = [of |-> v, idx |-> idx,
                 segment |-> mem'.blocks[mem'.ctrl[v]].segments[Segments!SegIndex(idx)]]
    BY DEF Segments!Access
<1>3. /\ mem.ctrl[v] # Null /\ Available(mem) >= Len(mem.blocks[mem.ctrl[v]].segments) + 1
    <2>1. /\ mem.ctrl[v] # Null
          /\ Len(mem.blocks[mem.ctrl[v]].segments) + 1 <= Available(mem)
        BY <1>1 DEF Segments!Writable, Segments!HasSegments, Segments!BlockOf, Available
    <2>2. Len(mem.blocks[mem.ctrl[v]].segments) \in Nat /\ Available(mem) \in Int
        BY <2>1, SoundFacts
    <2> QED
        BY <2>1, <2>2
<1>4. IsDetached(mem, mem', v)
    BY <1>2, <1>3, DetachedIsDetached
<1> QED
    BY <1>1, <1>2, <1>3, <1>4 DEF Segments!BlockOf

LEMMA StoreMemory ==
    ASSUME MemorySound(mem), NEW x \in Elements, Segments!Store(x)
    PROVE  MemorySound(mem') /\ mem'.ctrl = mem.ctrl /\ mem'.blocks = mem.blocks
<1>1. mem' = StoredAt(mem, ref.segment, Segments!SubIndex(ref.idx), x)
    BY DEF Segments!Store, StoredAt
<1>2. IsStored(mem, mem', ref.segment, Segments!SubIndex(ref.idx), x)
    BY <1>1, StoredAtFields
<1> QED
    BY <1>2 DEF IsStored, OnlyCell

LEMMA RenewMemory ==
    ASSUME MemorySound(mem), NEW v \in Lists, Segments!Renew(v)
    PROVE  /\ MemorySound(mem')
           /\ \A q : Contents(mem, q) => Contents(mem', [q EXCEPT ![v] = << >>])
<1> DEFINE m == Segments!Released(mem, v)
           c == Segments!FreeBlock(m)
           n == [m EXCEPT !.blocks[c] = Segments!NewBlock, !.ctrl[v] = c]
<1>1. mem' = n
    BY DEF Segments!Renew
<1>2. IsReleased(mem, m, v)
    BY ReleasedIsReleased
<1> HIDE DEF m
<1>3. MemorySound(m) /\ m.ctrl[v] = Null /\ \A u \in Lists \ {v} : Keeps(mem, m, u)
    BY <1>2, SoundFacts DEF IsReleased
<1>4. c \in Lists /\ Owners(m, c) = {} /\ m.blocks[c] = Segments!NoBlock
    BY <1>3, FreeBlockThere
<1> HIDE DEF c
<1>5. IsGiven(m, n, v, c) /\ n.blocks[c].size = 0
    BY <1>3, <1>4, BlockGiven
<1> HIDE DEF n
<1>6. MemorySound(n) /\ n.ctrl[v] = c /\ \A u \in Lists \ {v} : Keeps(m, n, u)
    BY <1>5 DEF IsGiven
<1>7. ASSUME NEW q, Contents(mem, q) PROVE Contents(n, [q EXCEPT ![v] = << >>])
    <2> DEFINE q2 == [q EXCEPT ![v] = << >>]
    <2>1. q \in [Lists -> Seq(Elements)] /\ \A u \in Lists : Content(mem, u, q[u])
        BY <1>7 DEF Contents
    <2>2. /\ q2 \in [Lists -> Seq(Elements)] /\ q2[v] = << >> /\ Len(q2[v]) = 0
          /\ \A u \in Lists \ {v} : q2[u] = q[u]
        BY <2>1
    <2> HIDE DEF q2
    <2>3. Content(n, v, q2[v])
        <3>1. 0 \in 0 .. MaxSize /\ 0 .. 0 - 1 = {}
            BY SegmentsAssumption
        <3> QED
            BY <1>5, <1>6, <2>2, <3>1 DEF Content
    <2>4. ASSUME NEW u \in Lists \ {v} PROVE Content(n, u, q2[u])
        <3>1. Content(m, u, q[u])
            BY <1>3, <2>1, ContentKept
        <3> QED
            BY <1>3, <1>6, <2>2, <3>1, ContentKept
    <2> QED
        BY <2>2, <2>3, <2>4 DEF Contents, q2
<1> QED
    BY <1>1, <1>6, <1>7

LEMMA CopyAssignMemory ==
    ASSUME MemorySound(mem), NEW v \in Lists, NEW w \in Lists, Segments!CopyAssign(v, w)
    PROVE  /\ MemorySound(mem')
           /\ \A q : Contents(mem, q) => Contents(mem', [q EXCEPT ![v] = q[w]])
<1> DEFINE m == Segments!Released(mem, v)
           c == mem.ctrl[w]
           n == [m EXCEPT !.ctrl[v] = c, !.blocks[c].refCount = @ + 1]
<1>1. mem' = n /\ v # w /\ c # Null
    BY DEF Segments!CopyAssign
<1>2. IsReleased(mem, m, v)
    BY ReleasedIsReleased
<1> HIDE DEF m
<1>3. /\ MemorySound(m) /\ m.ctrl[v] = Null /\ m.ctrl[w] = c /\ c \in Lists
      /\ \A u \in Lists \ {v} : Keeps(mem, m, u)
    BY <1>1, <1>2, SoundFacts DEF IsReleased
<1> HIDE DEF c
<1>4. IsGiven(m, n, v, c)
    BY <1>3, BlockShared
<1> HIDE DEF n
<1>5. /\ MemorySound(n) /\ n.ctrl[v] = c
      /\ \A u \in Lists \ {v} : n.ctrl[u] = m.ctrl[u] /\ Keeps(m, n, u)
    BY <1>4 DEF IsGiven
<1>6. ASSUME NEW q, Contents(mem, q) PROVE Contents(n, [q EXCEPT ![v] = q[w]])
    <2> DEFINE q2 == [q EXCEPT ![v] = q[w]]
    <2>1. q \in [Lists -> Seq(Elements)] /\ \A u \in Lists : Content(mem, u, q[u])
        BY <1>6 DEF Contents
    <2>2. /\ q2 \in [Lists -> Seq(Elements)] /\ q2[v] = q[w]
          /\ \A u \in Lists \ {v} : q2[u] = q[u]
        BY <2>1
    <2> HIDE DEF q2
    <2>3. ASSUME NEW u \in Lists \ {v} PROVE Content(n, u, q2[u])
        <3>1. Content(m, u, q[u])
            BY <1>3, <2>1, ContentKept
        <3> QED
            BY <1>3, <1>5, <2>2, <3>1, ContentKept
    <2>4. Content(n, v, q2[v])
        <3>1. Content(n, w, q[w]) /\ w \in Lists \ {v}
            BY <1>1, <2>2, <2>3
        <3>2. Content(m, w, q[w])
            BY <1>3, <2>1, <3>1, ContentKept
        <3>3. n.ctrl[w] = n.ctrl[v]
            BY <1>3, <1>5, <3>1
        <3> QED
            BY <2>2, <3>1, <3>3 DEF Content
    <2> QED
        BY <2>2, <2>3, <2>4 DEF Contents, q2
<1> QED
    BY <1>1, <1>5, <1>6

LEMMA MoveAssignMemory ==
    ASSUME MemorySound(mem), NEW v \in Lists, NEW w \in Lists, Segments!MoveAssign(v, w)
    PROVE  /\ MemorySound(mem')
           /\ \A q : Contents(mem, q) => Contents(mem', [q EXCEPT ![v] = q[w], ![w] = << >>])
<1> DEFINE m == Segments!Released(mem, v)
           c == mem.ctrl[w]
           n == [m EXCEPT !.ctrl[v] = c, !.ctrl[w] = Null]
<1>1. mem' = n /\ v # w
    BY DEF Segments!MoveAssign
<1>2. IsReleased(mem, m, v)
    BY ReleasedIsReleased
<1> HIDE DEF m
<1>3. /\ MemorySound(m) /\ m.ctrl[v] = Null /\ m.ctrl[w] = c
      /\ \A u \in Lists \ {v} : Keeps(mem, m, u)
    BY <1>1, <1>2, SoundFacts DEF IsReleased
<1> HIDE DEF c
<1>4. IsMoved(m, n, v, w)
    BY <1>1, <1>3, BlockMoved
<1> HIDE DEF n
<1>5. /\ MemorySound(n) /\ n.ctrl[v] = c /\ n.ctrl[w] = Null /\ n.blocks = m.blocks
      /\ n.cells = m.cells /\ \A u \in Lists \ {v, w} : Keeps(m, n, u)
    BY <1>3, <1>4 DEF IsMoved
<1>6. ASSUME NEW q, Contents(mem, q) PROVE Contents(n, [q EXCEPT ![v] = q[w], ![w] = << >>])
    <2> DEFINE q2 == [q EXCEPT ![v] = q[w], ![w] = << >>]
    <2>1. q \in [Lists -> Seq(Elements)] /\ \A u \in Lists : Content(mem, u, q[u])
        BY <1>6 DEF Contents
    <2>2. /\ q2 \in [Lists -> Seq(Elements)] /\ q2[v] = q[w]
          /\ \A u \in Lists \ {v, w} : q2[u] = q[u]
        <3>1. q[w] \in Seq(Elements) /\ << >> \in Seq(Elements)
            BY <2>1
        <3> DEFINE o == q[w]
                   e == << >>
        <3>2. q2 = [[q EXCEPT ![v] = o] EXCEPT ![w] = e]
            OBVIOUS
        <3> HIDE DEF q2, o, e
        <3>3. /\ q2 \in [Lists -> Seq(Elements)]
              /\ \A u \in Lists : q2[u] = IF u = w THEN e ELSE IF u = v THEN o ELSE q[u]
            BY <2>1, <3>1, <3>2 DEF o, e
        <3> QED
            BY <1>1, <3>3 DEF o
    <2> HIDE DEF q2
    <2>3. ASSUME NEW u \in Lists \ {v} PROVE Content(m, u, q[u])
        BY <1>3, <2>1, ContentKept
    <2>4. ASSUME NEW u \in Lists \ {v, w} PROVE Content(n, u, q2[u])
        BY <1>3, <1>5, <2>2, <2>3, ContentKept
    <2>5. Content(n, w, q2[w])
        BY <1>5 DEF Content
    <2>6. Content(n, v, q2[v])
        <3>1. Content(m, w, q[w])
            BY <1>1, <2>3
        <3> QED
            BY <1>3, <1>5, <2>2, <3>1 DEF Content, ReadAt
    <2> QED
        BY <2>2, <2>4, <2>5, <2>6 DEF Contents, q2
<1> QED
    BY <1>1, <1>5, <1>6

-----------------------------------------------------------------------------
(* While operator[]'s reference is used, the vector it was asked of owns    *)
(* its block alone, and it leads to the element that was asked for.        *)
RefersInto(m, r) ==
    LET c == m.ctrl[r.of]
    IN  /\ r.of \in Lists /\ c # Null /\ Owners(m, c) = {r.of}
        /\ r.idx \in 0 .. MaxSize /\ r.idx < m.blocks[c].size
        /\ r.segment = m.blocks[c].segments[Segments!SegIndex(r.idx)]

RefInv == ref = Segments!NoRef \/ RefersInto(mem, ref)

LEMMA SegmentsInit ==
    ASSUME Segments!Init
    PROVE  MemorySound(mem) /\ Contents(mem, sseqs) /\ crashed = FALSE /\ RefInv
<1>7. RefInv
    BY DEF Segments!Init, RefInv
<1>1. /\ mem = [ctrl |-> [v \in Lists |-> v], blocks |-> [c \in Lists |-> Segments!NewBlock],
                cells |-> << >>, freed |-> << >>]
      /\ crashed = FALSE /\ sseqs = [v \in Lists |-> << >>]
    BY DEF Segments!Init
<1>2. Segments!NewBlock = [size |-> 0, segments |-> << >>, refCount |-> 1]
    BY DEF Segments!NewBlock, Segments!NoBlock
<1>3. /\ mem.ctrl \in [Lists -> Lists \cup {Null}] /\ mem.blocks \in [Lists -> Blocks]
      /\ mem \in Memories /\ mem.cells = << >> /\ mem.freed = << >>
      /\ \A c \in Lists : mem.ctrl[c] = c /\ mem.blocks[c] = Segments!NewBlock
    BY <1>1, <1>2 DEF Memories, Blocks
<1>4. InRows(mem, RowsOf(mem))
    <2> DEFINE p == [r \in Rows |-> << >>]
    <2>1. RowsOf(mem) = p
        <3>1. p \in [Rows -> Seq(Nodes)] /\ p[FreeRow] = mem.freed
            BY <1>3 DEF Rows
        <3>2. ASSUME NEW c \in Lists PROVE p[c] = mem.blocks[c].segments
            BY <1>2, <1>3 DEF Rows
        <3> HIDE DEF p
        <3> QED
            BY <3>1, <3>2, RowsAre
    <2>2. Placed(p, 0)
        <3>1. InPlaces(p, 0, [x \in 1 .. 0 |-> FreeRow], [x \in 1 .. 0 |-> 0])
            BY DEF InPlaces
        <3> QED
            BY <3>1 DEF Placed
    <2>3. p[FreeRow] = << >>
        BY DEF Rows
    <2> HIDE DEF p
    <2> QED
        BY <1>3, <2>1, <2>2, <2>3, NodesAssumption DEF InRows
<1>5. Counted(mem)
    <2>1. ASSUME NEW c \in Lists PROVE Owners(mem, c) = {c} /\ Cardinality({c}) = 1
        BY <1>3, FS_Singleton DEF Owners
    <2>2. ASSUME NEW c \in Lists PROVE mem.blocks[c].refCount = 1
        BY <1>2, <1>3
    <2>3. ASSUME NEW c \in Lists
          PROVE  /\ mem.blocks[c].refCount = Cardinality(Owners(mem, c))
                 /\ mem.blocks[c].refCount # 0
        <3>1. Owners(mem, c) = {c} /\ Cardinality({c}) = 1 /\ mem.blocks[c].refCount = 1
            BY <2>1, <2>2
        <3> QED
            BY <3>1
    <2> QED
        BY <2>3 DEF Counted
<1>6. Contents(mem, sseqs)
    <2>1. 0 \in 0 .. MaxSize /\ 0 .. 0 - 1 = {}
        BY SegmentsAssumption
    <2>2. ASSUME NEW v \in Lists PROVE Content(mem, v, sseqs[v])
        <3>1. sseqs[v] = << >> /\ mem.ctrl[v] = v /\ mem.blocks[v].size = 0
            BY <1>1, <1>2, <1>3
        <3> QED
            BY <2>1, <3>1 DEF Content
    <2> QED
        BY <1>1, <2>2 DEF Contents
<1> QED
    BY <1>1, <1>4, <1>5, <1>6, <1>7 DEF MemorySound

SegmentsInv == MemorySound(mem)

LEMMA SegmentsStep ==
    ASSUME SegmentsInv, [Segments!Next]_(Segments!vars)
    PROVE  SegmentsInv'
<1>1. CASE UNCHANGED Segments!vars
    BY <1>1 DEF Segments!vars, SegmentsInv
<1>2. ASSUME NEW v \in Lists, NEW x \in Elements, Segments!PushBack(v, x) PROVE SegmentsInv'
    BY <1>2, PushBackMemory, MemoryPushed DEF SegmentsInv
<1>3. ASSUME NEW v \in Lists, NEW idx, Segments!Access(v, idx) PROVE SegmentsInv'
    BY <1>3, AccessMemory DEF IsDetached, SegmentsInv
<1>7. ASSUME NEW x \in Elements, Segments!Store(x) PROVE SegmentsInv'
    BY <1>7, StoreMemory DEF SegmentsInv
<1>4. ASSUME NEW v \in Lists, Segments!Renew(v) PROVE SegmentsInv'
    BY <1>4, RenewMemory DEF SegmentsInv
<1>5. ASSUME NEW v \in Lists, NEW w \in Lists, Segments!CopyAssign(v, w) PROVE SegmentsInv'
    BY <1>5, CopyAssignMemory DEF SegmentsInv
<1>6. ASSUME NEW v \in Lists, NEW w \in Lists, Segments!MoveAssign(v, w) PROVE SegmentsInv'
    BY <1>6, MoveAssignMemory DEF SegmentsInv
<1> QED
    BY <1>1, <1>2, <1>3, <1>4, <1>5, <1>6, <1>7 DEF Segments!Next

ValuesInv == Contents(mem, sseqs) /\ crashed = FALSE /\ RefInv

LEMMA NoReferenceLeft ==
    ASSUME KeepsReferences = FALSE, NEW vs, ref' = Segments!RefWithout(vs)
    PROVE  RefInv'
BY DEF Segments!RefWithout, RefInv

LEMMA AccessValues ==
    ASSUME SegmentsInv, ValuesInv, NEW v \in Lists, NEW idx \in 0 .. MaxSize,
           Segments!Access(v, idx)
    PROVE  ValuesInv'
<1>1. /\ MemorySound(mem) /\ IsDetached(mem, mem', v) /\ idx < mem.blocks[mem.ctrl[v]].size
      /\ mem.ctrl[v] # Null /\ sseqs' = sseqs /\ crashed' = crashed
      /\ ref' = [of |-> v, idx |-> idx,
                 segment |-> mem'.blocks[mem'.ctrl[v]].segments[Segments!SegIndex(idx)]]
    BY AccessMemory DEF SegmentsInv
<1>2. /\ MemorySound(mem') /\ mem'.ctrl[v] # Null /\ Owners(mem', mem'.ctrl[v]) = {v}
      /\ \A u \in Lists : Keeps(mem, mem', u)
    BY <1>1, SegmentsAssumption DEF IsDetached
<1>3. Contents(mem', sseqs')
    BY <1>1, <1>2, ContentsKept DEF ValuesInv
<1>4. idx < mem'.blocks[mem'.ctrl[v]].size
    BY <1>1, <1>2 DEF Keeps, SameContent
<1>5. ref'.of = v /\ ref'.idx = idx
      /\ ref'.segment = mem'.blocks[mem'.ctrl[v]].segments[Segments!SegIndex(idx)]
    BY <1>1
<1>6. RefersInto(mem', ref')
    BY <1>2, <1>4, <1>5 DEF RefersInto
<1> QED
    BY <1>1, <1>3, <1>6 DEF ValuesInv, RefInv

LEMMA StoreValues ==
    ASSUME IndicesAreExact, SegmentsInv, ValuesInv, NEW x \in Elements, Segments!Store(x)
    PROVE  ValuesInv'
<1> DEFINE v == ref.of
           idx == ref.idx
<1>1. RefersInto(mem, ref) /\ MemorySound(mem) /\ Contents(mem, sseqs)
    BY DEF Segments!Store, ValuesInv, RefInv, SegmentsInv
<1>2. /\ mem' = Segments!Stored(mem, v, idx, x) /\ sseqs' = [sseqs EXCEPT ![v][idx + 1] = x]
      /\ crashed' = crashed /\ ref' = ref
    BY <1>1 DEF Segments!Store, Segments!Stored, RefersInto
<1>3. Contents(mem', sseqs')
    BY <1>1, <1>2, ContentsStored DEF RefersInto
<1>4. mem'.ctrl = mem.ctrl /\ mem'.blocks = mem.blocks
    BY <1>1, StoreMemory
<1>5. RefersInto(mem', ref')
    BY <1>1, <1>2, <1>4 DEF RefersInto, Owners
<1> QED
    BY <1>2, <1>3, <1>5 DEF ValuesInv, RefInv

LEMMA ValuesStep ==
    ASSUME AssignsToMoved = FALSE, KeepsReferences = FALSE, IndicesAreExact,
           SegmentsInv, ValuesInv, [Segments!Next]_(Segments!vars)
    PROVE  ValuesInv'
<1>1. CASE UNCHANGED Segments!vars
    BY <1>1 DEF Segments!vars, ValuesInv, RefInv
<1>2. ASSUME NEW v \in Lists, NEW x \in Elements, Segments!PushBack(v, x) PROVE ValuesInv'
    <2>1. RefInv'
        BY <1>2, NoReferenceLeft DEF Segments!PushBack
    <2> QED
        BY <1>2, <2>1, PushBackMemory, ContentsPushed DEF SegmentsInv, ValuesInv
<1>3. ASSUME NEW v \in Lists, NEW idx \in 0 .. MaxSize, Segments!Access(v, idx) PROVE ValuesInv'
    BY <1>3, AccessValues
<1>7. ASSUME NEW x \in Elements, Segments!Store(x) PROVE ValuesInv'
    BY <1>7, StoreValues
<1>4. ASSUME NEW v \in Lists, Segments!Renew(v) PROVE ValuesInv'
    <2>1. sseqs' = [sseqs EXCEPT ![v] = << >>] /\ crashed' = crashed /\ RefInv'
        BY <1>4, NoReferenceLeft DEF Segments!Renew
    <2> QED
        BY <1>4, <2>1, RenewMemory DEF SegmentsInv, ValuesInv
<1>5. ASSUME NEW v \in Lists, NEW w \in Lists, Segments!CopyAssign(v, w) PROVE ValuesInv'
    <2>1. sseqs' = [sseqs EXCEPT ![v] = sseqs[w]] /\ RefInv'
        BY <1>5, NoReferenceLeft DEF Segments!CopyAssign
    <2>2. crashed' = FALSE
        BY <1>5 DEF Segments!CopyAssign, ValuesInv
    <2> QED
        BY <1>5, <2>1, <2>2, CopyAssignMemory DEF SegmentsInv, ValuesInv
<1>6. ASSUME NEW v \in Lists, NEW w \in Lists, Segments!MoveAssign(v, w) PROVE ValuesInv'
    <2>1. sseqs' = [sseqs EXCEPT ![v] = sseqs[w], ![w] = << >>] /\ crashed' = crashed /\ RefInv'
        BY <1>6, NoReferenceLeft DEF Segments!MoveAssign
    <2> QED
        BY <1>6, <2>1, MoveAssignMemory DEF SegmentsInv, ValuesInv
<1> QED
    BY <1>1, <1>2, <1>3, <1>4, <1>5, <1>6, <1>7 DEF Segments!Next

-----------------------------------------------------------------------------
LEMMA SegmentsCardinality == \A S : Segments!Cardinality(S) = Cardinality(S)
BY DEF Segments!Cardinality, Cardinality

LEMMA MemoryIsOwnedOnce == SegmentsInv => SegmentsOwnedOnce
<1> SUFFICES ASSUME MemorySound(mem) PROVE Segments!SegmentsOwnedOnce
    BY DEF SegmentsInv, SegmentsOwnedOnce
<1> DEFINE owned == {c \in Lists : mem.blocks[c].refCount > 0}
           places == {p \in owned \X (1 .. MaxNodes) : p[2] <= Len(mem.blocks[p[1]].segments)}
           rows == RowsOf(mem)
           n == Len(mem.cells)
           inLists == {t \in Lists \X Nodes : t[2] <= Len(rows[t[1]])}
           held == {mem.blocks[p[1]].segments[p[2]] : p \in places}
           f == mem.freed
<1>1. /\ mem.blocks \in [Lists -> Blocks] /\ n \in Nat /\ mem.cells \in Seq(SegmentCells)
      /\ FreeRow \in Rows /\ rows[FreeRow] = f /\ rows \in [Rows -> Seq(Nodes)]
      /\ \A c \in Lists : c \in Rows /\ rows[c] = mem.blocks[c].segments /\ Len(rows[c]) \in Nat
                          /\ mem.blocks[c] \in Blocks
    BY SoundFacts DEF Memories
<1>2. Placed(rows, n) /\ n <= MaxNodes
    BY DEF MemorySound, InRows
<1>3. ASSUME NEW c \in Lists
      PROVE  /\ mem.blocks[c].refCount = Cardinality({v \in Lists : mem.ctrl[v] = c})
             /\ mem.blocks[c].refCount > 0 \/ Len(mem.blocks[c].segments) = 0
    <2>1. /\ mem.blocks[c].refCount = Cardinality(Owners(mem, c))
          /\ mem.blocks[c].refCount = 0 => mem.blocks[c] = Segments!NoBlock
        BY DEF MemorySound, Counted
    <2>2. mem.blocks[c].refCount \in Nat
        BY <1>1 DEF Blocks
    <2>3. mem.blocks[c].refCount = 0 => Len(mem.blocks[c].segments) = 0
        BY <2>1 DEF Segments!NoBlock
    <2> QED
        BY <2>1, <2>2, <2>3 DEF Owners
<1> HIDE DEF rows, n
<1>4. places = inLists
    <2>1. ASSUME NEW c \in Lists, NEW i \in Nodes
          PROVE  (mem.blocks[c].refCount > 0 /\ i <= Len(mem.blocks[c].segments)) <=> i <= Len(rows[c])
        <3>1. rows[c] = mem.blocks[c].segments
            BY <1>1
        <3>2. i \in Nat \ {0}
            BY NodesAssumption DEF Nodes
        <3> DEFINE k == Len(mem.blocks[c].segments)
                   h == mem.blocks[c].refCount > 0
        <3>3. k = Len(rows[c]) /\ k \in Nat /\ (h \/ k = 0)
            BY <1>1, <1>3, <3>1
        <3> HIDE DEF k, h
        <3>4. (h /\ i <= k) <=> i <= Len(rows[c])
            BY <3>2, <3>3
        <3> QED
            BY <3>4 DEF h, k
    <2>2. Nodes = 1 .. MaxNodes
        BY DEF Nodes
    <2>3. \A t \in Lists \X Nodes : t \in places <=> t \in inLists
        BY <2>1, <2>2
    <2>4. places \subseteq Lists \X Nodes /\ inLists \subseteq Lists \X Nodes
        BY <2>2
    <2> QED
        BY <2>3, <2>4
<1>5. Cardinality(places) \in Nat /\ Cardinality(places) + Len(f) = n
    <2>1. Cardinality(inLists) \in Nat /\ Cardinality(inLists) + Len(rows[FreeRow]) = n
        BY <1>1, <1>2, PlacesCounted
    <2> QED
        BY <1>1, <1>4, <2>1
<1>6. \A r \in Rows : \A i \in 1 .. Len(rows[r]) : rows[r][i] \in 1 .. n
    BY <1>2 DEF Placed, InPlaces
<1>7. \A x \in 1 .. n : \E r \in Rows : \E i \in 1 .. Len(rows[r]) : rows[r][i] = x
    <2>1. PICK row, pos : InPlaces(rows, n, row, pos)
        BY <1>2 DEF Placed
    <2>2. ASSUME NEW x \in 1 .. n
          PROVE  row[x] \in Rows /\ pos[x] \in 1 .. Len(rows[row[x]]) /\ rows[row[x]][pos[x]] = x
        BY <2>1 DEF InPlaces
    <2> QED
        BY <2>2
<1>8. Segments!Range(f) = {f[i] : i \in 1 .. Len(f)}
    <2>1. f \in Seq(Nodes)
        BY <1>1
    <2> HIDE DEF f
    <2>2. DOMAIN f = 1 .. Len(f)
        BY <2>1
    <2> QED
        BY <2>2 DEF Segments!Range
<1>9. held \cup Segments!Range(f) = 1 .. n
    <2>1. ASSUME NEW x \in held PROVE x \in 1 .. n
        <3>1. PICK t \in inLists : x = mem.blocks[t[1]].segments[t[2]]
            BY <1>4
        <3>2. t[1] \in Lists /\ t[2] \in Nodes /\ t[2] <= Len(rows[t[1]])
            OBVIOUS
        <3> DEFINE c == t[1]
                   i == t[2]
        <3> HIDE DEF c, i
        <3>3. c \in Lists /\ i \in Nodes /\ i <= Len(rows[c]) /\ x = mem.blocks[c].segments[i]
            BY <3>1, <3>2 DEF c, i
        <3>4. i \in 1 .. Len(rows[c]) /\ x = rows[c][i] /\ c \in Rows
            BY <1>1, <3>3, NodesAssumption DEF Nodes
        <3> QED
            BY <1>6, <3>4
    <2>2. ASSUME NEW x \in Segments!Range(f) PROVE x \in 1 .. n
        <3>1. PICK i \in 1 .. Len(f) : x = f[i]
            BY <1>8
        <3> HIDE DEF f
        <3> QED
            BY <1>1, <1>6, <3>1
    <2>3. ASSUME NEW x \in 1 .. n PROVE x \in held \cup Segments!Range(f)
        <3>0. PICK r \in Rows : \E i \in 1 .. Len(rows[r]) : rows[r][i] = x
            BY <1>7
        <3>1. PICK i \in 1 .. Len(rows[r]) : rows[r][i] = x
            BY <3>0
        <3>2. CASE r = FreeRow
            <4>1. i \in 1 .. Len(f) /\ f[i] = x
                BY <1>1, <3>1, <3>2
            <4> HIDE DEF f
            <4> QED
                BY <1>8, <4>1
        <3>3. CASE r # FreeRow
            <4>1. r \in Lists /\ rows[r] = mem.blocks[r].segments /\ Len(rows[r]) \in 0 .. n
                BY <1>1, <1>2, <3>3, RowBound DEF Rows
            <4>2. i \in 1 .. MaxNodes /\ i <= Len(rows[r])
                BY <1>1, <1>2, <3>1, <4>1, NodesAssumption
            <4>3. <<r, i>> \in inLists
                BY <4>1, <4>2 DEF Nodes
            <4>4. mem.blocks[r].segments[i] \in held
                BY <1>4, <4>3
            <4> QED
                BY <3>1, <4>1, <4>4
        <3> QED
            BY <3>2, <3>3
    <2> QED
        BY <2>1, <2>2, <2>3
<1>10. DOMAIN mem.cells = 1 .. n
    BY <1>1 DEF n
<1>11. /\ \A c \in Lists :
              mem.blocks[c].refCount = Segments!Cardinality({v \in Lists : mem.ctrl[v] = c})
       /\ held \cup Segments!Range(mem.freed) = DOMAIN mem.cells
       /\ Segments!Cardinality(places) + Len(mem.freed) = Len(mem.cells)
    <2>1. \A c \in Lists :
              mem.blocks[c].refCount = Segments!Cardinality({v \in Lists : mem.ctrl[v] = c})
        BY <1>3, SegmentsCardinality
    <2> HIDE DEF places
    <2>2. Segments!Cardinality(places) + Len(mem.freed) = Len(mem.cells)
        BY <1>5, SegmentsCardinality DEF n
    <2> QED
        BY <1>9, <1>10, <2>1, <2>2
<1> QED
    BY <1>11 DEF Segments!SegmentsOwnedOnce

LEMMA ContentsAreValues == SegmentsInv /\ ValuesInv => VectorsAreValues
<1> SUFFICES ASSUME MemorySound(mem), Contents(mem, sseqs), crashed = FALSE
             PROVE  Segments!VectorsAreValues
    BY DEF SegmentsInv, ValuesInv, VectorsAreValues
<1>1. ASSUME NEW v \in Lists, mem.ctrl[v] # Null
      PROVE  [i \in 1 .. Segments!BlockOf(v).size |-> Segments!Read(v, i - 1)] = sseqs[v]
    <2> DEFINE c == mem.ctrl[v]
               n == mem.blocks[c].size
               s == sseqs[v]
    <2>1. s \in Seq(Elements) /\ n = Len(s) /\ n \in Nat
          /\ \A i \in 0 .. n - 1 : ReadAt(mem, c, i) = s[i + 1]
        BY <1>1 DEF Contents, Content
    <2>2. Segments!BlockOf(v).size = n /\ \A i : Segments!Read(v, i) = ReadAt(mem, c, i)
        BY DEF Segments!BlockOf, Segments!Read, ReadAt
    <2> HIDE DEF s, n, c
    <2>3. ASSUME NEW i \in 1 .. n PROVE Segments!Read(v, i - 1) = s[i]
        <3>1. i - 1 \in 0 .. n - 1 /\ (i - 1) + 1 = i
            BY <2>1
        <3> QED
            BY <2>1, <2>2, <3>1
    <2>4. s = [i \in 1 .. n |-> s[i]]
        BY <2>1
    <2>5. [i \in 1 .. n |-> Segments!Read(v, i - 1)] = [i \in 1 .. n |-> s[i]]
        BY <2>3
    <2> QED
        BY <2>2, <2>4, <2>5 DEF s
<1> QED
    BY <1>1 DEF Segments!VectorsAreValues

(* However its calls share, copy and release, every control block of a    *)
(* SegVector counts its owners, and every segment that was allocated is in *)
(* one block that has an owner or once on the stack of free ones.          *)
THEOREM SegmentsAreOwnedOnce == AllSpec => []SegmentsOwnedOnce
<1>1. AllInit => SegmentsInv
    BY SegmentsInit DEF AllInit, SegmentsInv
<1>2. SegmentsInv /\ [AllNext]_allVars => SegmentsInv'
    <2>1. [AllNext]_allVars => [Segments!Next]_(Segments!vars)
        BY DEF AllNext, allVars, segmentVars, Segments!vars
    <2> QED
        BY <2>1, SegmentsStep
<1>3. SegmentsInv => SegmentsOwnedOnce
    BY MemoryIsOwnedOnce
<1> QED
    BY <1>1, <1>2, <1>3, PTL DEF AllSpec

(* Vectors that share their segments until one of them is written to read  *)
(* as if each had elements of its own, when the size of a segment is one   *)
(* that a shift and a mask divide by, no vector that was moved from is     *)
(* assigned a copy, and a reference that operator[] returned is not used   *)
(* after a later call.                                                     *)
THEOREM VectorsReadTheirOwn ==
    ASSUME AssignsToMoved = FALSE, KeepsReferences = FALSE, IndicesAreExact
    PROVE  AllSpec => []VectorsAreValues
<1>1. AllInit => SegmentsInv /\ ValuesInv
    BY SegmentsInit DEF AllInit, SegmentsInv, ValuesInv
<1>2. SegmentsInv /\ ValuesInv /\ [AllNext]_allVars => SegmentsInv' /\ ValuesInv'
    <2>1. [AllNext]_allVars => [Segments!Next]_(Segments!vars)
        BY DEF AllNext, allVars, segmentVars, Segments!vars
    <2> QED
        BY <2>1, SegmentsStep, ValuesStep
<1>3. SegmentsInv /\ ValuesInv => VectorsAreValues
    BY ContentsAreValues
<1> QED
    BY <1>1, <1>2, <1>3, PTL DEF AllSpec
=============================================================================
