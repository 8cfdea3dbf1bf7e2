------------------------- MODULE PooledNodesProofs -------------------------
(***************************************************************************)
(* What the operators of PooledNodes do to lists that are laid out in      *)
(* nodes, for the proofs about the lists built from them.                  *)
(***************************************************************************)
EXTENDS PooledNodes, FiniteSetTheorems, SequenceTheorems, WellFoundedInduction, TLAPS

-----------------------------------------------------------------------------
(* Recursion over numbers                                                  *)

LEMMA LeastNat ==
    ASSUME NEW T, T \subseteq Nat, T # {}
    PROVE  \E x \in T : \A y \in T : x <= y
<1>1. PICK x \in T : \A y \in T : ~(<<y, x>> \in OpToRel(<, Nat))
    BY NatLessThanWellFounded, WFMin
<1>2. \A y \in T : ~(y < x)
    BY <1>1 DEF OpToRel
<1> QED
    BY <1>2

(* What has a first number and, with one number, the next has them all: by *)
(* the least one that is missing.                                          *)
LEMMA Induction ==
    ASSUME NEW n \in Nat, NEW T, 0 \in T,
           \A i \in 1 .. n : i - 1 \in T => i \in T
    PROVE  \A i \in 0 .. n : i \in T
<1> DEFINE Missing == (0 .. n) \ T
<1>1. SUFFICES ASSUME Missing # {} PROVE FALSE
    OBVIOUS
<1>2. Missing \subseteq Nat
    OBVIOUS
<1>3. PICK x \in Missing : \A y \in Missing : x <= y
    <2> HIDE DEF Missing
    <2> QED
        BY <1>1, <1>2, LeastNat
<1>4. x \in 1 .. n
    OBVIOUS
<1>5. x - 1 \in 0 .. n /\ x - 1 \notin Missing
    BY <1>3, <1>4
<1> QED
    BY <1>4, <1>5

(* A sequence between the first k elements of another and the rest. *)
LEMMA Spliced ==
    ASSUME NEW S, NEW s \in Seq(S), NEW t \in Seq(S), NEW k \in 0 .. Len(s)
    PROVE  LET r == SubSeq(s, 1, k) \o t \o SubSeq(s, k + 1, Len(s))
           IN  /\ r \in Seq(S) /\ Len(r) = Len(s) + Len(t)
               /\ \A i \in 1 .. k : r[i] = s[i]
               /\ \A i \in 1 .. Len(t) : r[k + i] = t[i]
               /\ \A i \in (k + 1) .. Len(s) : r[Len(t) + i] = s[i]
<1> DEFINE a == SubSeq(s, 1, k)
           b == SubSeq(s, k + 1, Len(s))
           at == a \o t
<1>1. Len(s) \in Nat /\ Len(t) \in Nat /\ k \in Nat
    OBVIOUS
<1>2. a \in Seq(S) /\ Len(a) = k /\ \A i \in 1 .. k : a[i] = s[i]
    <2>1. \A i \in 1 .. k : s[i] \in S
        BY <1>1
    <2> QED
        BY <1>1, <2>1, SubSeqProperties
<1>3. b \in Seq(S) /\ Len(b) = Len(s) - k /\ \A i \in 1 .. Len(s) - k : b[i] = s[k + i]
    <2>1. \A i \in (k + 1) .. Len(s) : s[i] \in S
        BY <1>1
    <2>2. /\ b \in Seq(S)
          /\ Len(b) = IF k + 1 <= Len(s) THEN Len(s) - (k + 1) + 1 ELSE 0
          /\ \A i \in 1 .. Len(s) - (k + 1) + 1 : b[i] = s[k + 1 + i - 1]
        BY <1>1, <2>1, SubSeqProperties
    <2> HIDE DEF b
    <2>3. \A i \in 1 .. Len(s) - k : i \in 1 .. Len(s) - (k + 1) + 1 /\ k + 1 + i - 1 = k + i
        BY <1>1
    <2>4. Len(b) = Len(s) - k
        BY <1>1, <2>2
    <2> QED
        BY <2>2, <2>3, <2>4
<1> HIDE DEF a, b
<1>4. /\ at \in Seq(S) /\ Len(at) = Len(a) + Len(t)
      /\ \A i \in 1 .. Len(a) + Len(t) : at[i] = IF i <= Len(a) THEN a[i] ELSE t[i - Len(a)]
    BY <1>2, ConcatProperties
<1> HIDE DEF at
<1> DEFINE r == at \o b
<1>5. /\ r \in Seq(S) /\ Len(r) = Len(at) + Len(b)
      /\ \A i \in 1 .. Len(at) + Len(b) : r[i] = IF i <= Len(at) THEN at[i] ELSE b[i - Len(at)]
    <2>1. at \in Seq(S) /\ b \in Seq(S)
        BY <1>3, <1>4
    <2> QED
        BY <2>1, ConcatProperties
<1> HIDE DEF r
<1>6. ASSUME NEW i \in 1 .. k PROVE r[i] = s[i]
    <2>1. /\ i \in 1 .. Len(at) + Len(b) /\ i <= Len(at)
          /\ i \in 1 .. Len(a) + Len(t) /\ i <= Len(a)
        BY <1>1, <1>2, <1>3, <1>4
    <2>2. r[i] = at[i] /\ at[i] = a[i]
        BY <1>4, <1>5, <2>1
    <2> QED
        BY <1>2, <2>2
<1>7. ASSUME NEW i \in 1 .. Len(t) PROVE r[k + i] = t[i]
    <2>1. /\ k + i \in 1 .. Len(at) + Len(b) /\ k + i <= Len(at)
          /\ k + i \in 1 .. Len(a) + Len(t) /\ ~(k + i <= Len(a)) /\ (k + i) - Len(a) = i
        BY <1>1, <1>2, <1>3, <1>4
    <2> QED
        BY <1>4, <1>5, <2>1
<1>8. ASSUME NEW i \in (k + 1) .. Len(s) PROVE r[Len(t) + i] = s[i]
    <2>1. i - k \in 1 .. Len(s) - k /\ k + (i - k) = i
        BY <1>1
    <2>2. /\ Len(t) + i \in 1 .. Len(at) + Len(b) /\ ~(Len(t) + i <= Len(at))
          /\ (Len(t) + i) - Len(at) = i - k
        BY <1>1, <1>2, <1>3, <1>4
    <2>3. r[Len(t) + i] = b[i - k]
        BY <1>5, <2>2
    <2> QED
        BY <1>3, <2>1, <2>3
<1>9. Len(r) = Len(s) + Len(t)
    BY <1>1, <1>2, <1>3, <1>4, <1>5
<1> QED
    BY <1>5, <1>6, <1>7, <1>8, <1>9 DEF a, b, at, r

LEMMA Removed ==
    ASSUME NEW S, NEW s \in Seq(S), NEW k \in 0 .. Len(s) - 1
    PROVE  LET r == SubSeq(s, 1, k) \o SubSeq(s, k + 2, Len(s))
           IN  /\ r \in Seq(S) /\ Len(r) = Len(s) - 1
               /\ \A i \in 1 .. k : r[i] = s[i]
               /\ \A i \in (k + 1) .. Len(s) - 1 : r[i] = s[i + 1]
<1> DEFINE a == SubSeq(s, 1, k)
           b == SubSeq(s, k + 2, Len(s))
<1>1. Len(s) \in Nat /\ k \in Nat /\ k < Len(s)
    OBVIOUS
<1>2. a \in Seq(S) /\ Len(a) = k /\ \A i \in 1 .. k : a[i] = s[i]
    <2>1. \A i \in 1 .. k : s[i] \in S
        BY <1>1
    <2> QED
        BY <1>1, <2>1, SubSeqProperties
<1>3. /\ b \in Seq(S) /\ Len(b) = Len(s) - k - 1
      /\ \A i \in 1 .. Len(s) - k - 1 : b[i] = s[k + 1 + i]
    <2>1. \A i \in (k + 2) .. Len(s) : s[i] \in S
        BY <1>1
    <2>2. /\ b \in Seq(S)
          /\ Len(b) = IF k + 2 <= Len(s) THEN Len(s) - (k + 2) + 1 ELSE 0
          /\ \A i \in 1 .. Len(s) - (k + 2) + 1 : b[i] = s[k + 2 + i - 1]
        BY <1>1, <2>1, SubSeqProperties
    <2> HIDE DEF b
    <2>3. \A i \in 1 .. Len(s) - k - 1 : i \in 1 .. Len(s) - (k + 2) + 1 /\ k + 2 + i - 1 = k + 1 + i
        BY <1>1
    <2>4. Len(b) = Len(s) - k - 1
        BY <1>1, <2>2
    <2> QED
        BY <2>2, <2>3, <2>4
<1> HIDE DEF a, b
<1> DEFINE r == a \o b
<1>4. /\ r \in Seq(S) /\ Len(r) = Len(a) + Len(b)
      /\ \A i \in 1 .. Len(a) + Len(b) : r[i] = IF i <= Len(a) THEN a[i] ELSE b[i - Len(a)]
    BY <1>2, <1>3, ConcatProperties
<1> HIDE DEF r
<1>5. ASSUME NEW i \in 1 .. k PROVE r[i] = s[i]
    <2>1. i \in 1 .. Len(a) + Len(b) /\ i <= Len(a)
        BY <1>1, <1>2, <1>3
    <2> QED
        BY <1>2, <1>4, <2>1
<1>6. ASSUME NEW i \in (k + 1) .. Len(s) - 1 PROVE r[i] = s[i + 1]
    <2>1. i - k \in 1 .. Len(s) - k - 1 /\ k + 1 + (i - k) = i + 1
        BY <1>1
    <2>2. i \in 1 .. Len(a) + Len(b) /\ ~(i <= Len(a)) /\ i - Len(a) = i - k
        BY <1>1, <1>2, <1>3
    <2>3. r[i] = b[i - k]
        BY <1>4, <2>2
    <2> QED
        BY <1>3, <2>1, <2>3
<1>7. Len(r) = Len(s) - 1
    BY <1>1, <1>2, <1>3, <1>4
<1> QED
    BY <1>4, <1>5, <1>6, <1>7 DEF a, b, r

(* The first n of these steps lead from S to S; g is what they make of s.  *)
StaysIn(n, S, Step) == \A i \in 1 .. n, x \in S : Step[i][x] \in S

RunOf(g, n, S, s, Step) ==
    g \in [0 .. n -> S] /\ g[0] = s /\ \A i \in 1 .. n : g[i] = Step[i][g[i - 1]]

(* The function a loop of n steps defines. *)
LEMMA Recursion ==
    ASSUME NEW n \in Nat, NEW S, NEW s \in S, NEW Step, StaysIn(n, S, Step)
    PROVE  \E g : RunOf(g, n, S, s, Step)
<1> USE DEF StaysIn, RunOf
<1> DEFINE Runs(g, m) == /\ g \in [0 .. m -> S] /\ g[0] = s
                         /\ \A i \in 1 .. m : g[i] = Step[i][g[i - 1]]
           T == {m \in 0 .. n : \E g : Runs(g, m)}
<1>1. 0 \in T
    <2>1. Runs([i \in 0 .. 0 |-> s], 0)
        OBVIOUS
    <2> HIDE DEF Runs
    <2> QED
        BY <2>1
<1>2. ASSUME NEW m \in 1 .. n, m - 1 \in T PROVE m \in T
    <2>1. PICK g : Runs(g, m - 1)
        BY <1>2
    <2> DEFINE h == [i \in 0 .. m |-> IF i = m THEN Step[m][g[m - 1]] ELSE g[i]]
    <2>2. \A i \in 0 .. (m - 1) : h[i] = g[i]
        OBVIOUS
    <2>3. h[m] = Step[m][g[m - 1]] /\ h[m] \in S
        BY <2>1
    <2>4. h \in [0 .. m -> S]
        BY <2>1, <2>3
    <2>5. \A i \in 1 .. m : h[i] = Step[i][h[i - 1]]
        <3> HIDE DEF h
        <3>1. ASSUME NEW i \in 1 .. m PROVE h[i] = Step[i][h[i - 1]]
            <4>1. h[i - 1] = g[i - 1]
                BY <2>2
            <4>2. CASE i = m
                BY <2>3, <4>1, <4>2
            <4>3. CASE i # m
                BY <2>1, <2>2, <4>1, <4>3
            <4> QED
                BY <4>2, <4>3
        <3> QED
            BY <3>1
    <2>6. h[0] = s
        BY <2>1
    <2>7. Runs(h, m)
        <3> HIDE DEF h
        <3> QED
            BY <2>4, <2>5, <2>6
    <2> HIDE DEF Runs
    <2> QED
        BY <2>7
<1>3. n \in T
    <2> HIDE DEF T
    <2> QED
        BY <1>1, <1>2, Induction
<1> QED
    BY <1>3

AppendsAfter(s, t, x) == Append(s \o t, x) = s \o Append(t, x)

LEMMA AppendAfter ==
    ASSUME NEW S, NEW s \in Seq(S), NEW t \in Seq(S), NEW x \in S
    PROVE  AppendsAfter(s, t, x)
<1>1. s \o t \in Seq(S) /\ <<x>> \in Seq(S)
    BY ConcatProperties
<1>2. Append(s \o t, x) = (s \o t) \o <<x>> /\ Append(t, x) = t \o <<x>>
    BY <1>1, AppendIsConcat
<1>3. (s \o t) \o <<x>> = s \o (t \o <<x>>)
    BY <1>1, ConcatAssociative
<1> QED
    BY <1>2, <1>3, Zenon DEF AppendsAfter

(* Sequences are compared by their lengths and elements. *)
LEMMA SameSequence ==
    ASSUME NEW S, NEW T, NEW s \in Seq(S), NEW t \in Seq(T), Len(s) = Len(t),
           \A i \in 1 .. Len(s) : s[i] = t[i]
    PROVE  s = t
OBVIOUS

-----------------------------------------------------------------------------
(* Lists laid out in nodes                                                 *)

Links == Nodes \cup {Null}

NodeRecords(V) ==
    [free : Seq(Nodes), made : Nat, segments : Nat, live : Int,
     prev : [Nodes -> Links], next : [Nodes -> Links], val : [Nodes -> V],
     head : [Lists -> Links], tail : [Lists -> Links], size : [Lists -> Nat]]

(* The rows of nodes: the lists and the free stack. *)
FreeRow == CHOOSE r : r \notin Lists
Rows == Lists \cup {FreeRow}

(* Each of the nodes 1 .. n is once in one of the rows: row says in which  *)
(* and pos at which position.                                              *)
InPlaces(p, n, row, pos) ==
    /\ row \in [1 .. n -> Rows] /\ pos \in [1 .. n -> Nat]
    /\ \A x \in 1 .. n : pos[x] \in 1 .. Len(p[row[x]]) /\ p[row[x]][pos[x]] = x
    /\ \A r \in Rows : \A i \in 1 .. Len(p[r]) :
           p[r][i] \in 1 .. n /\ row[p[r][i]] = r /\ pos[p[r][i]] = i

Placed(p, n) == p \in [Rows -> Seq(Nodes)] /\ \E row, pos : InPlaces(p, n, row, pos)

(* The node at position i, or no node. *)
At(q, i) == IF i \in 1 .. Len(q) THEN q[i] ELSE Null

Linked(next, prev, q) ==
    \A i \in 1 .. Len(q) : next[q[i]] = At(q, i + 1) /\ prev[q[i]] = At(q, i - 1)

IsList(s, l, q) ==
    /\ s.head[l] = At(q, 1) /\ s.tail[l] = At(q, Len(q)) /\ s.size[l] = Len(q)
    /\ Linked(s.next, s.prev, q)

Shows(s, q, sq) == Len(sq) = Len(q) /\ \A i \in 1 .. Len(q) : s.val[q[i]] = sq[i]

(* The rows p are the lists and the free stack of s, and hold sq. *)
LaidOut(s, V, p, sq) ==
    /\ s \in NodeRecords(V) /\ sq \in [Lists -> Seq(V)]
    /\ Placed(p, s.made) /\ s.made <= MaxNodes
    /\ p[FreeRow] = s.free
    /\ s.live = s.made - Len(s.free)
    /\ s.made <= s.segments * SegmentCapacity
    /\ \A l \in Lists : IsList(s, l, p[l]) /\ Shows(s, p[l], sq[l])

Splice(q, b, t) == SubSeq(q, 1, b) \o t \o SubSeq(q, b + 1, Len(q))

LEMMA FreeRowIsNoList == FreeRow \notin Lists
BY NoSetContainsEverything DEF FreeRow

LEMMA AtIsLink ==
    ASSUME NEW q \in Seq(Nodes), NEW i \in Int
    PROVE  At(q, i) \in Links /\ (i \in 1 .. Len(q) => At(q, i) = q[i])
BY DEF At, Links

(* A part of row m, of k nodes after the first a, goes to row l, where it  *)
(* stands after the first b.                                               *)
MovesPart(p, p2, m, a, k, l, b) ==
    /\ p2 \in [Rows -> Seq(Nodes)]
    /\ \A r \in Rows \ {l, m} : p2[r] = p[r]
    /\ Len(p2[m]) = Len(p[m]) - k
    /\ \A i \in 1 .. a : p2[m][i] = p[m][i]
    /\ \A i \in (a + 1) .. (Len(p[m]) - k) : p2[m][i] = p[m][i + k]
    /\ Len(p2[l]) = Len(p[l]) + k
    /\ \A i \in 1 .. b : p2[l][i] = p[l][i]
    /\ \A i \in 1 .. k : p2[l][b + i] = p[m][a + i]
    /\ \A i \in (b + 1) .. Len(p[l]) : p2[l][k + i] = p[l][i]

LEMMA PartMoved ==
    ASSUME NEW p, NEW n \in Nat, Placed(p, n),
           NEW m \in Rows, NEW l \in Rows, l # m,
           NEW a \in Nat, NEW k \in Nat, a + k <= Len(p[m]), NEW b \in 0 .. Len(p[l]),
           NEW p2, MovesPart(p, p2, m, a, k, l, b)
    PROVE  Placed(p2, n)
<1>1. PICK row, pos : InPlaces(p, n, row, pos)
    BY DEF Placed
<1> DEFINE moves(x) == row[x] = m /\ pos[x] \in (a + 1) .. (a + k)
           row2 == [x \in 1 .. n |-> IF moves(x) THEN l ELSE row[x]]
           pos2 == [x \in 1 .. n |->
                       IF moves(x) THEN b + (pos[x] - a)
                       ELSE IF row[x] = m /\ pos[x] > a THEN pos[x] - k
                       ELSE IF row[x] = l /\ pos[x] > b THEN pos[x] + k
                       ELSE pos[x]]
<1>2. p \in [Rows -> Seq(Nodes)] /\ \A r \in Rows : Len(p[r]) \in Nat
    BY DEF Placed
<1>0. /\ Len(p2[m]) = Len(p[m]) - k /\ Len(p2[l]) = Len(p[l]) + k
      /\ Len(p[m]) \in Nat /\ Len(p[l]) \in Nat /\ b \in Nat /\ a \in Nat /\ k \in Nat
      /\ a + k <= Len(p[m]) /\ b <= Len(p[l])
    BY <1>2 DEF MovesPart
<1>3. /\ row \in [1 .. n -> Rows] /\ pos \in [1 .. n -> Nat]
      /\ \A x \in 1 .. n : pos[x] \in 1 .. Len(p[row[x]]) /\ p[row[x]][pos[x]] = x
    BY <1>1 DEF InPlaces
<1>4. row2 \in [1 .. n -> Rows]
    BY <1>3
<1>5. pos2 \in [1 .. n -> Nat]
    <2>1. ASSUME NEW x \in 1 .. n PROVE pos2[x] \in Nat
        <3>1. pos[x] \in Nat
            BY <1>3
        <3>2. CASE moves(x)
            BY <1>0, <3>1, <3>2, SMTT(30)
        <3>3. CASE ~moves(x) /\ row[x] = m /\ pos[x] > a
            <4>1. pos[x] - k \in Nat /\ pos2[x] = pos[x] - k
                BY <1>0, <3>1, <3>3, SMTT(30)
            <4> QED
                BY <4>1
        <3>4. CASE ~moves(x) /\ ~(row[x] = m /\ pos[x] > a)
            BY <1>0, <3>1, <3>4
        <3> QED
            BY <3>2, <3>3, <3>4
    <2> HIDE DEF pos2
    <2>2. pos2 = [x \in 1 .. n |-> pos2[x]]
        BY DEF pos2
    <2> QED
        BY <2>1, <2>2
<1>6. ASSUME NEW x \in 1 .. n
      PROVE  pos2[x] \in 1 .. Len(p2[row2[x]]) /\ p2[row2[x]][pos2[x]] = x
    <2> DEFINE i == pos[x]
    <2>1. i \in 1 .. Len(p[row[x]]) /\ p[row[x]][i] = x /\ row[x] \in Rows /\ i \in Nat
        BY <1>3
    <2>2. CASE moves(x)
        <3>1. row2[x] = l /\ pos2[x] = b + (i - a) /\ row[x] = m /\ i - a \in 1 .. k
            BY <1>2, <2>1, <2>2, SMTT(30)
        <3> HIDE DEF row2, pos2, moves
        <3>2. p2[l][b + (i - a)] = p[m][a + (i - a)]
            BY <3>1 DEF MovesPart
        <3>3. a + (i - a) = i /\ b \in Nat
            BY <1>2, <2>1
        <3>4. b + (i - a) \in 1 .. Len(p2[l])
            <4>1. \A c \in 1 .. k : b + c \in 1 .. Len(p2[l])
                BY <1>0
            <4> QED
                BY <3>1, <4>1
        <3> QED
            BY <2>1, <3>1, <3>2, <3>3, <3>4
    <2>3. CASE ~moves(x) /\ row[x] = m /\ i > a
        <3>1. row2[x] = m /\ pos2[x] = i - k /\ i - k \in (a + 1) .. (Len(p[m]) - k)
              /\ (i - k) + k = i
            BY <1>2, <2>1, <2>3, SMTT(30)
        <3> HIDE DEF row2, pos2, moves
        <3>2. p2[m][i - k] = p[m][(i - k) + k]
            BY <3>1 DEF MovesPart
        <3>3. i - k \in 1 .. Len(p2[m])
            BY <1>2, <3>1 DEF MovesPart
        <3> QED
            BY <2>1, <2>3, <3>1, <3>2, <3>3
    <2>4. CASE row[x] = m /\ i <= a
        <3>1. row2[x] = m /\ pos2[x] = i /\ i \in 1 .. a
            BY <1>2, <2>1, <2>4
        <3> HIDE DEF row2, pos2
        <3> QED
            BY <1>2, <2>1, <2>4, <3>1 DEF MovesPart
    <2>5. CASE row[x] = l /\ i > b
        <3>1. row2[x] = l /\ pos2[x] = i + k /\ i \in (b + 1) .. Len(p[l]) /\ i + k = k + i
            BY <1>2, <2>1, <2>5
        <3> HIDE DEF row2, pos2, moves
        <3>2. p2[l][k + i] = p[l][i]
            BY <3>1 DEF MovesPart
        <3>3. i + k \in 1 .. Len(p2[l])
            BY <1>2, <3>1, SMTT(30) DEF MovesPart
        <3> QED
            BY <2>1, <2>5, <3>1, <3>2, <3>3
    <2>6. CASE row[x] = l /\ i <= b
        <3>1. row2[x] = l /\ pos2[x] = i /\ i \in 1 .. b
            BY <1>2, <2>1, <2>6
        <3> HIDE DEF row2, pos2
        <3> QED
            BY <1>2, <2>1, <2>6, <3>1 DEF MovesPart
    <2>7. CASE row[x] \notin {l, m}
        <3>1. row2[x] = row[x] /\ pos2[x] = i /\ p2[row[x]] = p[row[x]]
            BY <1>2, <2>1, <2>7 DEF MovesPart
        <3> HIDE DEF row2, pos2
        <3> QED
            BY <2>1, <3>1
    <2> QED
        BY <2>1, <2>2, <2>3, <2>4, <2>5, <2>6, <2>7
<1>7. ASSUME NEW r \in Rows, NEW i \in 1 .. Len(p2[r])
      PROVE  p2[r][i] \in 1 .. n /\ row2[p2[r][i]] = r /\ pos2[p2[r][i]] = i
    <2>0. Len(p[l]) \in Nat /\ Len(p[m]) \in Nat /\ b \in Nat /\ i \in Nat \ {0}
        BY <1>2 DEF MovesPart
    <2>1. \A q \in Rows : \A j \in 1 .. Len(p[q]) :
              p[q][j] \in 1 .. n /\ row[p[q][j]] = q /\ pos[p[q][j]] = j
        BY <1>1 DEF InPlaces
    <2>2. CASE r \notin {l, m}
        <3>1. p2[r] = p[r] /\ i \in 1 .. Len(p[r])
            BY <2>2 DEF MovesPart
        <3>2. p2[r][i] \in 1 .. n /\ row[p2[r][i]] = r /\ pos[p2[r][i]] = i
            BY <2>1, <3>1
        <3> QED
            BY <2>2, <3>2
    <2>3. CASE r = m /\ i <= a
        <3>1. i \in 1 .. Len(p[m]) /\ p2[r][i] = p[m][i]
            BY <2>0, <2>3 DEF MovesPart
        <3> QED
            BY <2>0, <2>1, <2>3, <3>1, SMTT(30)
    <2>4. CASE r = m /\ i > a
        <3>1. i \in (a + 1) .. (Len(p[m]) - k)
            BY <2>0, <2>4, SMTT(30) DEF MovesPart
        <3>2. i + k \in 1 .. Len(p[m]) /\ p2[r][i] = p[m][i + k] /\ (i + k) - k = i
              /\ i + k > a + k
            BY <2>0, <2>4, <3>1 DEF MovesPart
        <3> QED
            BY <2>0, <2>1, <2>4, <3>2, SMTT(30)
    <2>5. CASE r = l /\ i <= b
        <3>1. i \in 1 .. Len(p[l]) /\ p2[r][i] = p[l][i]
            BY <2>0, <2>5 DEF MovesPart
        <3> QED
            BY <2>0, <2>1, <2>5, <3>1, SMTT(30)
    <2>6. CASE r = l /\ i > b /\ i <= b + k
        <3>1. i - b \in 1 .. k /\ b + (i - b) = i
            BY <2>0, <2>6
        <3>2. /\ a + (i - b) \in 1 .. Len(p[m])
              /\ b + ((a + (i - b)) - a) = i /\ a + (i - b) \in (a + 1) .. (a + k)
            BY <1>0, <2>0, <3>1, SMTT(30)
        <3>4. p2[r][i] = p[m][a + (i - b)]
            <4>1. p2[l][b + (i - b)] = p[m][a + (i - b)]
                BY <3>1 DEF MovesPart
            <4> QED
                BY <2>6, <3>1, <4>1
        <3> DEFINE y == p[m][a + (i - b)]
        <3>5. row[y] = m /\ pos[y] = a + (i - b) /\ y \in 1 .. n
            BY <2>1, <3>2
        <3> HIDE DEF y
        <3>6. p2[r][i] = y
            BY <3>4 DEF y
        <3>3. row[p2[r][i]] = m /\ pos[p2[r][i]] = a + (i - b) /\ p2[r][i] \in 1 .. n
            BY <3>5, <3>6
        <3> QED
            BY <2>6, <3>2, <3>3
    <2>7. CASE r = l /\ i > b + k
        <3>1. i - k \in (b + 1) .. Len(p[l]) /\ k + (i - k) = i /\ (i - k) + k = i
            BY <1>0, <2>0, <2>7
        <3>2. i - k \in 1 .. Len(p[l]) /\ i - k > b
            BY <1>0, <3>1
        <3>3. p2[l][k + (i - k)] = p[l][i - k]
            BY <3>1 DEF MovesPart
        <3>4. p2[r][i] = p[l][i - k]
            BY <2>7, <3>1, <3>3
        <3> DEFINE y == p[l][i - k]
        <3>5. row[y] = l /\ pos[y] = i - k /\ y \in 1 .. n
            BY <2>1, <3>2
        <3> HIDE DEF y
        <3>6. p2[r][i] = y
            BY <3>4 DEF y
        <3>7. row[p2[r][i]] = l /\ pos[p2[r][i]] = i - k /\ p2[r][i] \in 1 .. n
            BY <3>5, <3>6
        <3> QED
            BY <2>7, <3>1, <3>2, <3>7
    <2> QED
        BY <2>0, <2>2, <2>3, <2>4, <2>5, <2>6, <2>7
<1>8. p2 \in [Rows -> Seq(Nodes)]
    BY DEF MovesPart
<1> HIDE DEF row2, pos2
<1>9. InPlaces(p2, n, row2, pos2)
    BY <1>4, <1>5, <1>6, <1>7 DEF InPlaces
<1> QED
    BY <1>8, <1>9 DEF Placed

-----------------------------------------------------------------------------
(* Nodes that change rows                                                  *)

Cut(q, k) == SubSeq(q, 1, k) \o SubSeq(q, k + 2, Len(q))

IsSplice(r, q, b, t, S) ==
    /\ r \in Seq(S) /\ Len(r) = Len(q) + Len(t)
    /\ \A i \in 1 .. b : r[i] = q[i]
    /\ \A i \in 1 .. Len(t) : r[b + i] = t[i]
    /\ \A i \in (b + 1) .. Len(q) : r[Len(t) + i] = q[i]

IsCut(r, q, k, S) ==
    /\ r \in Seq(S) /\ Len(r) = Len(q) - 1
    /\ \A i \in 1 .. k : r[i] = q[i]
    /\ \A i \in (k + 1) .. Len(q) - 1 : r[i] = q[i + 1]

(* Row l becomes q, and row m becomes t. *)
Rearranged(p, l, q, m, t) == [r \in Rows |-> IF r = l THEN q ELSE IF r = m THEN t ELSE p[r]]

LEMMA SpliceProperties ==
    ASSUME NEW S, NEW q \in Seq(S), NEW t \in Seq(S), NEW b \in 0 .. Len(q)
    PROVE  IsSplice(Splice(q, b, t), q, b, t, S)
BY Spliced, ZenonT(30) DEF Splice, IsSplice

LEMMA CutProperties ==
    ASSUME NEW S, NEW q \in Seq(S), NEW k \in 0 .. Len(q) - 1
    PROVE  IsCut(Cut(q, k), q, k, S)
BY Removed DEF Cut, IsCut

LEMMA OnePlace ==
    ASSUME NEW p, NEW n \in Nat, Placed(p, n), NEW r \in Rows, NEW u \in Rows,
           NEW i \in 1 .. Len(p[r]), NEW j \in 1 .. Len(p[u]), p[r][i] = p[u][j]
    PROVE  r = u /\ i = j
<1>1. PICK row, pos : InPlaces(p, n, row, pos)
    BY DEF Placed
<1>2. row[p[r][i]] = r /\ pos[p[r][i]] = i
    BY <1>1 DEF InPlaces
<1>3. row[p[u][j]] = u /\ pos[p[u][j]] = j
    BY <1>1 DEF InPlaces
<1> QED
    BY <1>2, <1>3

LEMMA RowsMove ==
    ASSUME NEW p, NEW n \in Nat, Placed(p, n), NEW l \in Rows, NEW m \in Rows, l # m,
           NEW b \in 0 .. Len(p[l])
    PROVE  Placed(Rearranged(p, l, Splice(p[l], b, p[m]), m, << >>), n)
<1> DEFINE p2 == Rearranged(p, l, Splice(p[l], b, p[m]), m, << >>)
<1>1. p \in [Rows -> Seq(Nodes)] /\ Len(p[m]) \in Nat /\ 0 \in Nat /\ 0 + Len(p[m]) <= Len(p[m])
    BY DEF Placed
<1>2. IsSplice(Splice(p[l], b, p[m]), p[l], b, p[m], Nodes)
    <2>1. p[l] \in Seq(Nodes) /\ p[m] \in Seq(Nodes)
        BY <1>1
    <2> QED
        BY <2>1, SpliceProperties
<1>3. p2[l] = Splice(p[l], b, p[m]) /\ p2[m] = << >> /\ \A r \in Rows \ {l, m} : p2[r] = p[r]
    BY DEF Rearranged
<1>4. p2 \in [Rows -> Seq(Nodes)]
    <2>1. << >> \in Seq(Nodes)
        OBVIOUS
    <2> QED
        BY <1>1, <1>2, <2>1 DEF Rearranged, IsSplice
<1> HIDE DEF p2
<1>5. MovesPart(p, p2, m, 0, Len(p[m]), l, b)
    <2>1. Len(p2[m]) = Len(p[m]) - Len(p[m]) /\ \A i \in 1 .. Len(p[m]) : 0 + i = i
        BY <1>1, <1>3
    <2> QED
        BY <1>1, <1>2, <1>3, <1>4, <2>1 DEF MovesPart, IsSplice
<1>6. Placed(p2, n)
    BY <1>1, <1>5, PartMoved
<1> QED
    BY <1>6 DEF p2

LEMMA SlotFreed ==
    ASSUME NEW p, NEW n \in Nat, Placed(p, n), NEW l \in Rows, NEW m \in Rows, l # m,
           NEW k \in 0 .. Len(p[l]) - 1
    PROVE  Placed(Rearranged(p, l, Cut(p[l], k), m, Append(p[m], p[l][k + 1])), n)
<1> DEFINE x == p[l][k + 1]
           p2 == Rearranged(p, l, Cut(p[l], k), m, Append(p[m], x))
<1>1. /\ p \in [Rows -> Seq(Nodes)] /\ Len(p[m]) \in Nat /\ Len(p[l]) \in Nat
      /\ k \in Nat /\ 1 \in Nat /\ k + 1 <= Len(p[l])
    BY DEF Placed
<1>2. x \in Nodes
    BY <1>1
<1> HIDE DEF x
<1>3. IsCut(Cut(p[l], k), p[l], k, Nodes)
    BY <1>1, CutProperties
<1>4. /\ Append(p[m], x) \in Seq(Nodes) /\ Len(Append(p[m], x)) = Len(p[m]) + 1
      /\ \A i \in 1 .. Len(p[m]) : Append(p[m], x)[i] = p[m][i]
      /\ Append(p[m], x)[Len(p[m]) + 1] = x
    BY <1>1, <1>2, AppendProperties
<1>5. p2[l] = Cut(p[l], k) /\ p2[m] = Append(p[m], x) /\ \A r \in Rows \ {l, m} : p2[r] = p[r]
    BY DEF Rearranged
<1>6. p2 \in [Rows -> Seq(Nodes)]
    BY <1>1, <1>3, <1>4 DEF Rearranged, IsCut
<1> HIDE DEF p2
<1>7. MovesPart(p, p2, l, k, 1, m, Len(p[m]))
    <2>1. \A i \in 1 .. 1 : p2[m][Len(p[m]) + i] = p[l][k + i]
        BY <1>4, <1>5 DEF x
    <2>2. (Len(p[m]) + 1) .. Len(p[m]) = {}
        BY <1>1
    <2> QED
        BY <1>1, <1>3, <1>4, <1>5, <1>6, <2>1, <2>2 DEF MovesPart, IsCut
<1>8. Len(p[m]) \in 0 .. Len(p[m])
    BY <1>1
<1>9. Placed(p2, n)
    BY <1>1, <1>7, <1>8, PartMoved
<1> QED
    BY <1>9 DEF p2, x

(* A slot that was never used joins the free stack. *)
LEMMA SlotMade ==
    ASSUME NEW p, NEW n \in Nat, Placed(p, n), NEW m \in Rows, p[m] = << >>, n + 1 \in Nodes
    PROVE  Placed([p EXCEPT ![m] = <<n + 1>>], n + 1)
<1> DEFINE p2 == [p EXCEPT ![m] = <<n + 1>>]
<1>1. PICK row, pos : InPlaces(p, n, row, pos)
    BY DEF Placed
<1> DEFINE row2 == [x \in 1 .. (n + 1) |-> IF x = n + 1 THEN m ELSE row[x]]
           pos2 == [x \in 1 .. (n + 1) |-> IF x = n + 1 THEN 1 ELSE pos[x]]
<1>2. p \in [Rows -> Seq(Nodes)]
    BY DEF Placed
<1>3. <<n + 1>> \in Seq(Nodes) /\ Len(<<n + 1>>) = 1 /\ <<n + 1>>[1] = n + 1
    OBVIOUS
<1>4. p2 \in [Rows -> Seq(Nodes)] /\ p2[m] = <<n + 1>> /\ \A r \in Rows \ {m} : p2[r] = p[r]
    BY <1>2, <1>3
<1>5. row2 \in [1 .. (n + 1) -> Rows] /\ pos2 \in [1 .. (n + 1) -> Nat]
    BY <1>1 DEF InPlaces
<1>6. ASSUME NEW x \in 1 .. (n + 1)
      PROVE  pos2[x] \in 1 .. Len(p2[row2[x]]) /\ p2[row2[x]][pos2[x]] = x
    <2>1. CASE x = n + 1
        BY <1>3, <1>4, <2>1
    <2>2. CASE x # n + 1
        <3>1. x \in 1 .. n
            BY <2>2
        <3>2. row[x] \in Rows /\ pos[x] \in 1 .. Len(p[row[x]]) /\ p[row[x]][pos[x]] = x
            BY <1>1, <3>1 DEF InPlaces
        <3>3. row[x] # m
            BY <3>2
        <3>4. row2[x] = row[x] /\ pos2[x] = pos[x] /\ p2[row[x]] = p[row[x]]
            BY <1>4, <2>2, <3>2, <3>3
        <3> QED
            BY <3>2, <3>4
    <2> QED
        BY <2>1, <2>2
<1>7. ASSUME NEW r \in Rows, NEW i \in 1 .. Len(p2[r])
      PROVE  p2[r][i] \in 1 .. (n + 1) /\ row2[p2[r][i]] = r /\ pos2[p2[r][i]] = i
    <2>1. CASE r = m
        BY <1>3, <1>4, <2>1
    <2>2. CASE r # m
        <3>1. i \in 1 .. Len(p[r]) /\ p2[r][i] = p[r][i]
            BY <1>4, <2>2
        <3>2. p[r][i] \in 1 .. n /\ row[p[r][i]] = r /\ pos[p[r][i]] = i
            BY <1>1, <3>1 DEF InPlaces
        <3> QED
            BY <3>1, <3>2
    <2> QED
        BY <2>1, <2>2
<1> HIDE DEF row2, pos2, p2
<1>8. InPlaces(p2, n + 1, row2, pos2)
    BY <1>5, <1>6, <1>7 DEF InPlaces
<1>9. Placed(p2, n + 1)
    BY <1>4, <1>8 DEF Placed
<1> QED
    BY <1>9 DEF p2

MadeThen(s) == IF s.free # << >> THEN s.made ELSE s.made + 1

(* The rows when the next slot has become the node after the first b of l. *)
Taken(s, p, l, b) == Rearranged(p, l, Splice(p[l], b, <<NextSlot(s)>>), FreeRow, PopFree(s))

LEMMA SlotTaken ==
    ASSUME NEW V, NEW s \in NodeRecords(V), NEW p, Placed(p, s.made), p[FreeRow] = s.free,
           HasRoom(s), NEW l \in Lists, NEW b \in 0 .. Len(p[l])
    PROVE  /\ NextSlot(s) \in Nodes
           /\ Placed(Taken(s, p, l, b), MadeThen(s))
           /\ \A r \in Lists : \A i \in 1 .. Len(p[r]) : p[r][i] # NextSlot(s)
<1> DEFINE x == NextSlot(s)
           rest == PopFree(s)
           n == MadeThen(s)
           q == IF s.free # << >> THEN p ELSE [p EXCEPT ![FreeRow] = <<s.made + 1>>]
<1>1. /\ s.free \in Seq(Nodes) /\ s.made \in Nat /\ n \in Nat /\ x \in Nodes
      /\ p \in [Rows -> Seq(Nodes)] /\ FreeRow \in Rows /\ l \in Rows /\ l # FreeRow
    BY FreeRowIsNoList DEF NodeRecords, HasRoom, MadeThen, Placed, Rows
<1>2. /\ Placed(q, n) /\ \A r \in Rows \ {FreeRow} : q[r] = p[r]
      /\ rest \in Seq(Nodes) /\ Len(q[FreeRow]) = Len(rest) + 1
      /\ \A i \in 1 .. Len(rest) : q[FreeRow][i] = rest[i]
      /\ q[FreeRow][Len(rest) + 1] = x
    <2>1. CASE s.free # << >>
        <3>1. Len(s.free) \in Nat \ {0} /\ q = p /\ n = s.made
            BY <1>1, <2>1 DEF MadeThen
        <3>2. rest = SubSeq(s.free, 1, Len(s.free) - 1) /\ x = s.free[Len(s.free)]
            BY <2>1 DEF PopFree, NextSlot, Front, Last
        <3>3. \A i \in 1 .. (Len(s.free) - 1) : s.free[i] \in Nodes
            BY <1>1, <3>1
        <3>4. /\ rest \in Seq(Nodes) /\ Len(rest) = Len(s.free) - 1
              /\ \A i \in 1 .. (Len(s.free) - 1) : rest[i] = s.free[i]
            BY <1>1, <3>1, <3>2, <3>3, SubSeqProperties
        <3> HIDE DEF rest, x, q, n
        <3> QED
            BY <3>1, <3>2, <3>4
    <2>2. CASE s.free = << >>
        <3>1. rest = << >> /\ x = s.made + 1 /\ n = s.made + 1
              /\ q = [p EXCEPT ![FreeRow] = <<s.made + 1>>]
            BY <2>2 DEF PopFree, NextSlot, MadeThen
        <3>2. Placed([p EXCEPT ![FreeRow] = <<s.made + 1>>], s.made + 1)
            BY <1>1, <2>2, <3>1, SlotMade
        <3>3. q[FreeRow] = <<s.made + 1>> /\ Len(<<s.made + 1>>) = 1 /\ <<s.made + 1>>[1] = s.made + 1
            BY <1>1, <3>1
        <3>4. \A r \in Rows \ {FreeRow} : q[r] = p[r]
            BY <1>1, <3>1
        <3> HIDE DEF rest, x, q, n
        <3> QED
            BY <3>1, <3>2, <3>3, <3>4
    <2> QED
        BY <2>1, <2>2
<1> HIDE DEF q, rest, n, x
<1>3. q[l] = p[l] /\ p[l] \in Seq(Nodes) /\ <<x>> \in Seq(Nodes) /\ Len(<<x>>) = 1 /\ <<x>>[1] = x
    BY <1>1, <1>2
<1>4. IsSplice(Splice(p[l], b, <<x>>), p[l], b, <<x>>, Nodes)
    BY <1>3, SpliceProperties
<1> DEFINE p2 == Rearranged(p, l, Splice(p[l], b, <<x>>), FreeRow, rest)
<1>5. p2[l] = Splice(p[l], b, <<x>>) /\ p2[FreeRow] = rest
      /\ \A r \in Rows \ {l, FreeRow} : p2[r] = p[r]
    BY <1>1 DEF Rearranged
<1>6. p2 \in [Rows -> Seq(Nodes)]
    BY <1>1, <1>2, <1>4 DEF Rearranged, IsSplice
<1> HIDE DEF p2
<1>7. MovesPart(q, p2, FreeRow, Len(rest), 1, l, b)
    <2>1. /\ Len(p2[FreeRow]) = Len(q[FreeRow]) - 1 /\ Len(rest) \in Nat
          /\ (Len(rest) + 1) .. (Len(q[FreeRow]) - 1) = {}
        BY <1>2, <1>5
    <2>2. \A i \in 1 .. 1 : p2[l][b + i] = q[FreeRow][Len(rest) + i]
        BY <1>2, <1>3, <1>4, <1>5, SMTT(30) DEF IsSplice
    <2>3. /\ \A r \in Rows \ {l, FreeRow} : p2[r] = q[r]
          /\ Len(p2[l]) = Len(q[l]) + 1
          /\ \A i \in 1 .. b : p2[l][i] = q[l][i]
          /\ \A i \in (b + 1) .. Len(q[l]) : p2[l][1 + i] = q[l][i]
        BY <1>2, <1>3, <1>4, <1>5, ZenonT(30) DEF IsSplice
    <2> QED
        BY <1>2, <1>5, <1>6, <2>1, <2>2, <2>3 DEF MovesPart
<1>8. Placed(p2, n)
    <2>1. Len(rest) \in Nat /\ 1 \in Nat /\ Len(rest) + 1 <= Len(q[FreeRow]) /\ b \in 0 .. Len(q[l])
        BY <1>2, <1>3
    <2> QED
        BY <1>1, <1>2, <1>7, <2>1, PartMoved
<1>9. ASSUME NEW r \in Lists, NEW i \in 1 .. Len(p[r]), p[r][i] = x PROVE FALSE
    <2>1. r \in Rows /\ r # FreeRow /\ q[r] = p[r]
        BY <1>2, FreeRowIsNoList DEF Rows
    <2>2. Len(rest) + 1 \in 1 .. Len(q[FreeRow]) /\ q[FreeRow][Len(rest) + 1] = q[r][i]
        BY <1>2, <1>9, <2>1
    <2>3. i \in 1 .. Len(q[r]) /\ Placed(q, n) /\ n \in Nat /\ FreeRow \in Rows /\ r \in Rows
        BY <1>1, <1>2, <2>1
    <2>4. FreeRow = r
        BY <2>2, <2>3, OnePlace
    <2> QED
        BY <2>1, <2>4
<1> QED
    BY <1>1, <1>8, <1>9 DEF Taken, p2, x, rest, n

-----------------------------------------------------------------------------
(* Links                                                                   *)

(* The nodes of t, which are linked, are put between those of q. *)
LinksInto(next, prev, q, b, t, next2, prev2) ==
    /\ \A y \in Nodes :
           next2[y] = IF y = At(q, b) THEN t[1] ELSE IF y = t[Len(t)] THEN At(q, b + 1) ELSE next[y]
    /\ \A y \in Nodes :
           prev2[y] = IF y = At(q, b + 1) THEN t[Len(t)] ELSE IF y = t[1] THEN At(q, b) ELSE prev[y]

NoNodeTwice(q) == \A i, j \in 1 .. Len(q) : q[i] = q[j] => i = j

LEMMA LinkedSplice ==
    ASSUME NEW next, NEW prev, NEW next2, NEW prev2, Null \notin Nodes,
           NEW q \in Seq(Nodes), NEW t \in Seq(Nodes), Len(t) > 0, NEW b \in 0 .. Len(q),
           Linked(next, prev, q), NoNodeTwice(q), NoNodeTwice(t),
           \A i \in 1 .. Len(q), j \in 1 .. Len(t) : q[i] # t[j],
           \A i \in 1 .. (Len(t) - 1) : next[t[i]] = t[i + 1] /\ prev[t[i + 1]] = t[i],
           LinksInto(next, prev, q, b, t, next2, prev2),
           NEW r, IsSplice(r, q, b, t, Nodes)
    PROVE  Linked(next2, prev2, r)
<1> DEFINE m == Len(t)
<1>1. Len(q) \in Nat /\ m \in Nat \ {0} /\ b \in Nat /\ b <= Len(q) /\ Len(r) = Len(q) + m
    BY DEF IsSplice
<1>2. \A i \in 1 .. Len(q) : q[i] \in Nodes /\ At(q, i) = q[i]
    BY DEF At
<1>3. \A i \in 1 .. m : t[i] \in Nodes
    OBVIOUS
<1>4. At(q, 0) = Null /\ At(r, 0) = Null /\ At(q, Len(q) + 1) = Null /\ At(r, Len(q) + m + 1) = Null
    BY <1>1 DEF At
<1>5. \A j \in 1 .. b : At(r, j) = q[j] /\ r[j] = q[j]
    BY <1>1 DEF At, IsSplice
<1>6. \A j \in 1 .. m : At(r, b + j) = t[j] /\ r[b + j] = t[j]
    BY <1>1 DEF At, IsSplice
<1>7. \A j \in (b + 1) .. Len(q) : At(r, m + j) = q[j] /\ r[m + j] = q[j]
    BY <1>1 DEF At, IsSplice
<1> DEFINE good(i) == next2[r[i]] = At(r, i + 1) /\ prev2[r[i]] = At(r, i - 1)
<1>8. ASSUME NEW i \in 1 .. b PROVE good(i)
    <2>1. i \in 1 .. Len(q) /\ q[i] \in Nodes /\ r[i] = q[i]
        BY <1>1, <1>2, <1>5
    <2>2. next[q[i]] = At(q, i + 1) /\ prev[q[i]] = At(q, i - 1)
        BY <2>1 DEF Linked
    <2>3. q[i] # t[1] /\ q[i] # t[m]
        BY <1>1, <2>1
    <2>4. q[i] # At(q, b + 1)
        <3>1. CASE b + 1 \in 1 .. Len(q)
            BY <1>1, <1>2, <2>1, <3>1 DEF NoNodeTwice
        <3>2. CASE b + 1 \notin 1 .. Len(q)
            BY <2>1, <3>2 DEF At
        <3> QED
            BY <3>1, <3>2
    <2>5. prev2[q[i]] = At(r, i - 1)
        <3>1. prev2[q[i]] = At(q, i - 1)
            BY <2>1, <2>2, <2>3, <2>4 DEF LinksInto
        <3>2. CASE i = 1
            BY <1>4, <3>1, <3>2
        <3>3. CASE i > 1
            <4>1. i - 1 \in 1 .. b /\ i - 1 \in 1 .. Len(q)
                BY <1>1, <3>3
            <4> QED
                BY <1>2, <1>5, <3>1, <4>1
        <3> QED
            BY <3>2, <3>3
    <2>6. CASE i = b
        <3>1. At(q, b) = q[i] /\ At(r, b + 1) = t[1]
            BY <1>1, <1>2, <1>6, <2>1, <2>6
        <3> QED
            BY <2>1, <2>5, <2>6, <3>1 DEF LinksInto
    <2>7. CASE i < b
        <3>1. i + 1 \in 1 .. b /\ i + 1 \in 1 .. Len(q) /\ b \in 1 .. Len(q)
            BY <1>1, <2>7
        <3>2. At(q, b) = q[b] /\ q[i] # q[b]
            BY <1>2, <2>1, <2>7, <3>1 DEF NoNodeTwice
        <3>3. next2[q[i]] = At(q, i + 1)
            BY <2>1, <2>2, <2>3, <3>2 DEF LinksInto
        <3> QED
            BY <1>2, <1>5, <2>1, <2>5, <3>1, <3>3
    <2> QED
        BY <2>6, <2>7
<1>9. ASSUME NEW j \in 1 .. m PROVE good(b + j)
    <2>1. r[b + j] = t[j] /\ t[j] \in Nodes
        BY <1>3, <1>6
    <2>2. t[j] # At(q, b) /\ t[j] # At(q, b + 1)
        BY <2>1 DEF At
    <2>3. next2[t[j]] = At(r, b + j + 1)
        <3>1. CASE j = m
            <4>1. next2[t[j]] = At(q, b + 1)
                BY <2>1, <2>2, <3>1 DEF LinksInto
            <4>2. CASE b = Len(q)
                <5>1. Len(q) + m + 1 = b + j + 1
                    BY <1>1, <3>1, <4>2
                <5> QED
                    BY <1>4, <4>1, <4>2, <5>1
            <4>3. CASE b < Len(q)
                <5>1. b + 1 \in (b + 1) .. Len(q) /\ b + 1 \in 1 .. Len(q) /\ m + (b + 1) = b + j + 1
                    BY <1>1, <3>1, <4>3
                <5>2. At(r, m + (b + 1)) = q[b + 1] /\ At(q, b + 1) = q[b + 1]
                    BY <1>2, <1>7, <5>1
                <5> QED
                    BY <4>1, <5>1, <5>2
            <4> QED
                BY <1>1, <4>2, <4>3
        <3>2. CASE j < m
            <4>1. j \in 1 .. (m - 1) /\ j + 1 \in 1 .. m /\ m \in 1 .. m /\ b + (j + 1) = b + j + 1
                BY <1>1, <3>2
            <4>2. t[j] # t[m]
                BY <3>2, <4>1 DEF NoNodeTwice
            <4>3. next2[t[j]] = t[j + 1]
                BY <2>1, <2>2, <4>1, <4>2 DEF LinksInto
            <4>4. At(r, b + (j + 1)) = t[j + 1]
                BY <1>6, <4>1
            <4> QED
                BY <4>1, <4>3, <4>4
        <3> QED
            BY <1>1, <3>1, <3>2
    <2>4. prev2[t[j]] = At(r, b + j - 1)
        <3>1. CASE j = 1
            <4>1. prev2[t[j]] = At(q, b) /\ b + j - 1 = b
                BY <1>1, <2>1, <2>2, <3>1 DEF LinksInto
            <4>2. CASE b = 0
                BY <1>4, <4>1, <4>2
            <4>3. CASE b > 0
                <5>1. b \in 1 .. b /\ b \in 1 .. Len(q)
                    BY <1>1, <4>3
                <5> QED
                    BY <1>2, <1>5, <4>1, <5>1
            <4> QED
                BY <1>1, <4>2, <4>3
        <3>2. CASE j > 1
            <4>1. /\ j - 1 \in 1 .. (m - 1) /\ j - 1 \in 1 .. m /\ 1 \in 1 .. m
                  /\ b + (j - 1) = b + j - 1 /\ (j - 1) + 1 = j
                BY <1>1, <3>2
            <4>2. t[j] # t[1]
                BY <3>2, <4>1 DEF NoNodeTwice
            <4>3. prev2[t[j]] = t[j - 1]
                BY <2>1, <2>2, <4>1, <4>2 DEF LinksInto
            <4>4. At(r, b + (j - 1)) = t[j - 1]
                BY <1>6, <4>1
            <4> QED
                BY <4>1, <4>3, <4>4
        <3> QED
            BY <3>1, <3>2
    <2> QED
        BY <2>1, <2>3, <2>4
<1>10. ASSUME NEW j \in (b + 1) .. Len(q) PROVE good(m + j)
    <2>1. j \in 1 .. Len(q) /\ q[j] \in Nodes /\ r[m + j] = q[j]
        BY <1>1, <1>2, <1>7
    <2>2. next[q[j]] = At(q, j + 1) /\ prev[q[j]] = At(q, j - 1)
        BY <2>1 DEF Linked
    <2>3. q[j] # t[1] /\ q[j] # t[m]
        BY <1>1, <2>1
    <2>4. q[j] # At(q, b)
        <3>1. CASE b \in 1 .. Len(q)
            BY <1>1, <1>2, <2>1, <3>1 DEF NoNodeTwice
        <3>2. CASE b \notin 1 .. Len(q)
            BY <2>1, <3>2 DEF At
        <3> QED
            BY <3>1, <3>2
    <2>5. next2[q[j]] = At(r, m + j + 1)
        <3>1. next2[q[j]] = At(q, j + 1)
            BY <2>1, <2>2, <2>3, <2>4 DEF LinksInto
        <3>2. CASE j = Len(q)
            <4>1. m + j + 1 = Len(q) + m + 1
                BY <1>1, <3>2
            <4> QED
                BY <1>4, <3>1, <3>2, <4>1
        <3>3. CASE j < Len(q)
            <4>1. j + 1 \in (b + 1) .. Len(q) /\ j + 1 \in 1 .. Len(q) /\ m + (j + 1) = m + j + 1
                BY <1>1, <3>3
            <4>2. At(r, m + (j + 1)) = q[j + 1] /\ At(q, j + 1) = q[j + 1]
                BY <1>2, <1>7, <4>1
            <4> QED
                BY <3>1, <4>1, <4>2
        <3> QED
            BY <1>1, <3>2, <3>3
    <2>6. CASE j = b + 1
        <3>1. At(q, b + 1) = q[j] /\ m \in 1 .. m /\ m + j - 1 = b + m
            BY <1>1, <1>2, <2>1, <2>6
        <3>2. At(r, b + m) = t[m]
            BY <1>6, <3>1
        <3>3. prev2[q[j]] = t[m]
            BY <2>1, <3>1 DEF LinksInto
        <3> QED
            BY <2>1, <2>5, <3>1, <3>2, <3>3
    <2>7. CASE j > b + 1
        <3>1. /\ j - 1 \in (b + 1) .. Len(q) /\ j - 1 \in 1 .. Len(q) /\ b + 1 \in 1 .. Len(q)
              /\ m + (j - 1) = m + j - 1
            BY <1>1, <2>7
        <3>2. At(q, b + 1) = q[b + 1] /\ q[j] # q[b + 1]
            BY <1>2, <2>1, <2>7, <3>1 DEF NoNodeTwice
        <3>3. prev2[q[j]] = At(q, j - 1)
            BY <2>1, <2>2, <2>3, <3>2 DEF LinksInto
        <3>4. At(r, m + (j - 1)) = q[j - 1] /\ At(q, j - 1) = q[j - 1]
            BY <1>2, <1>7, <3>1
        <3> QED
            BY <2>1, <2>5, <3>1, <3>3, <3>4
    <2> QED
        BY <1>1, <2>6, <2>7
<1> HIDE DEF good
<1>11. ASSUME NEW i \in 1 .. Len(r) PROVE good(i)
    <2>1. CASE i <= b
        BY <1>1, <1>8, <2>1
    <2>2. CASE i > b /\ i <= b + m
        <3>1. i - b \in 1 .. m /\ b + (i - b) = i
            BY <1>1, <2>2
        <3>2. good(b + (i - b))
            BY <1>9, <3>1
        <3> QED
            BY <3>1, <3>2
    <2>3. CASE i > b + m
        <3>1. i - m \in (b + 1) .. Len(q) /\ m + (i - m) = i
            BY <1>1, <2>3
        <3>2. good(m + (i - m))
            BY <1>10, <3>1
        <3> QED
            BY <3>1, <3>2
    <2> QED
        BY <1>1, <2>1, <2>2, <2>3
<1> QED
    BY <1>11 DEF Linked, good

(* What is left of q when its node after the first k is taken out. *)
LinksWithout(next, prev, q, k, next2, prev2) ==
    /\ \A y \in Nodes :
           y # q[k + 1] => next2[y] = IF y = At(q, k) THEN At(q, k + 2) ELSE next[y]
    /\ \A y \in Nodes :
           y # q[k + 1] => prev2[y] = IF y = At(q, k + 2) THEN At(q, k) ELSE prev[y]

LEMMA LinkedCut ==
    ASSUME NEW next, NEW prev, NEW next2, NEW prev2, Null \notin Nodes,
           NEW q \in Seq(Nodes), NEW k \in 0 .. Len(q) - 1,
           Linked(next, prev, q), NoNodeTwice(q), LinksWithout(next, prev, q, k, next2, prev2),
           NEW r, IsCut(r, q, k, Nodes)
    PROVE  Linked(next2, prev2, r)
<1>1. /\ Len(q) \in Nat /\ k \in Nat /\ k < Len(q) /\ Len(r) = Len(q) - 1
      /\ k + 1 \in 1 .. Len(q)
    BY DEF IsCut
<1>2. \A i \in 1 .. Len(q) : q[i] \in Nodes /\ At(q, i) = q[i]
    BY DEF At
<1>3. \A i \in 1 .. Len(q) : i # k + 1 => q[i] # q[k + 1]
    BY <1>1 DEF NoNodeTwice
<1>4. At(q, 0) = Null /\ At(r, 0) = Null /\ At(q, Len(q) + 1) = Null /\ At(r, Len(q)) = Null
    BY <1>1 DEF At
<1>5. \A j \in 1 .. k : At(r, j) = q[j] /\ r[j] = q[j]
    BY <1>1 DEF At, IsCut
<1>6. \A j \in (k + 1) .. Len(q) - 1 : At(r, j) = q[j + 1] /\ r[j] = q[j + 1]
    BY <1>1 DEF At, IsCut
<1>7. \A j \in (k + 1) .. Len(q) : At(r, j) = At(q, j + 1)
    <2>1. ASSUME NEW j \in (k + 1) .. Len(q) PROVE At(r, j) = At(q, j + 1)
        <3>1. CASE j = Len(q)
            BY <1>4, <3>1
        <3>2. CASE j < Len(q)
            <4>1. j \in (k + 1) .. Len(q) - 1 /\ j + 1 \in 1 .. Len(q)
                BY <1>1, <3>2
            <4> QED
                BY <1>2, <1>6, <4>1
        <3> QED
            BY <1>1, <3>1, <3>2
    <2> QED
        BY <2>1
<1>8. \A j \in 0 .. k : At(r, j) = At(q, j)
    <2>1. ASSUME NEW j \in 0 .. k PROVE At(r, j) = At(q, j)
        <3>1. CASE j = 0
            BY <1>4, <3>1
        <3>2. CASE j > 0
            <4>1. j \in 1 .. k /\ j \in 1 .. Len(q)
                BY <1>1, <3>2
            <4> QED
                BY <1>2, <1>5, <4>1
        <3> QED
            BY <1>1, <3>1, <3>2
    <2> QED
        BY <2>1
<1> DEFINE good(i) == next2[r[i]] = At(r, i + 1) /\ prev2[r[i]] = At(r, i - 1)
<1>9. ASSUME NEW i \in 1 .. k PROVE good(i)
    <2>1. i \in 1 .. Len(q) /\ q[i] \in Nodes /\ r[i] = q[i] /\ q[i] # q[k + 1]
        BY <1>1, <1>2, <1>3, <1>5
    <2>2. next[q[i]] = At(q, i + 1) /\ prev[q[i]] = At(q, i - 1)
        BY <2>1 DEF Linked
    <2>3. q[i] # At(q, k + 2)
        <3>1. CASE k + 2 \in 1 .. Len(q)
            BY <1>1, <1>2, <2>1, <3>1 DEF NoNodeTwice
        <3>2. CASE k + 2 \notin 1 .. Len(q)
            BY <2>1, <3>2 DEF At
        <3> QED
            BY <3>1, <3>2
    <2>4. prev2[q[i]] = At(q, i - 1) /\ i - 1 \in 0 .. k
        BY <1>1, <2>1, <2>2, <2>3 DEF LinksWithout
    <2>5. CASE i = k
        <3>1. At(q, k) = q[i] /\ k + 1 \in (k + 1) .. Len(q) /\ (k + 1) + 1 = k + 2
            BY <1>1, <1>2, <2>1, <2>5
        <3>2. next2[q[i]] = At(q, k + 2) /\ At(r, k + 1) = At(q, k + 2)
            BY <1>7, <2>1, <3>1 DEF LinksWithout
        <3> QED
            BY <1>8, <2>1, <2>4, <2>5, <3>2
    <2>6. CASE i < k
        <3>1. i + 1 \in 0 .. k /\ k \in 1 .. Len(q)
            BY <1>1, <2>6
        <3>2. At(q, k) = q[k] /\ q[i] # q[k]
            BY <1>2, <2>1, <2>6, <3>1 DEF NoNodeTwice
        <3>3. next2[q[i]] = At(q, i + 1)
            BY <2>1, <2>2, <3>2 DEF LinksWithout
        <3> QED
            BY <1>8, <2>1, <2>4, <3>1, <3>3
    <2> QED
        BY <2>5, <2>6
<1>10. ASSUME NEW j \in (k + 1) .. Len(q) - 1 PROVE good(j)
    <2>1. /\ j + 1 \in 1 .. Len(q) /\ q[j + 1] \in Nodes /\ r[j] = q[j + 1] /\ q[j + 1] # q[k + 1]
          /\ j \in Nat
        BY <1>1, <1>2, <1>3, <1>6
    <2>2. next[q[j + 1]] = At(q, j + 2) /\ prev[q[j + 1]] = At(q, j)
        <3>1. (j + 1) + 1 = j + 2 /\ (j + 1) - 1 = j
            BY <2>1
        <3> QED
            BY <2>1, <3>1 DEF Linked
    <2>3. q[j + 1] # At(q, k)
        <3>1. CASE k \in 1 .. Len(q)
            BY <1>1, <1>2, <2>1, <3>1 DEF NoNodeTwice
        <3>2. CASE k \notin 1 .. Len(q)
            BY <2>1, <3>2 DEF At
        <3> QED
            BY <3>1, <3>2
    <2>4. next2[q[j + 1]] = At(r, j + 1)
        <3>1. j + 1 \in (k + 1) .. Len(q) /\ (j + 1) + 1 = j + 2
            BY <1>1, <2>1
        <3> QED
            BY <1>7, <2>1, <2>2, <2>3, <3>1 DEF LinksWithout
    <2>5. CASE j = k + 1
        <3>1. j + 1 = k + 2 /\ j - 1 = k /\ k \in 0 .. k
            BY <1>1, <2>5
        <3>2. At(q, k + 2) = q[j + 1]
            BY <1>2, <2>1, <3>1
        <3>3. prev2[q[j + 1]] = At(q, k)
            BY <2>1, <3>2 DEF LinksWithout
        <3> QED
            BY <1>8, <2>1, <2>4, <3>1, <3>3
    <2>6. CASE j > k + 1
        <3>1. k + 2 \in 1 .. Len(q) /\ j - 1 \in (k + 1) .. Len(q) /\ (j - 1) + 1 = j /\ j + 1 # k + 2
            BY <1>1, <2>1, <2>6
        <3>2. At(q, k + 2) = q[k + 2] /\ q[j + 1] # q[k + 2]
            BY <1>2, <2>1, <3>1 DEF NoNodeTwice
        <3>3. prev2[q[j + 1]] = At(q, j)
            BY <2>1, <2>2, <3>2 DEF LinksWithout
        <3> QED
            BY <1>7, <2>1, <2>4, <3>1, <3>3
    <2> QED
        BY <1>1, <2>5, <2>6
<1> HIDE DEF good
<1>11. ASSUME NEW i \in 1 .. Len(r) PROVE good(i)
    BY <1>1, <1>9, <1>10
<1> QED
    BY <1>11 DEF Linked, good

LEMMA LinkedStill ==
    ASSUME NEW next, NEW prev, NEW next2, NEW prev2, NEW q, Linked(next, prev, q),
           \A i \in 1 .. Len(q) : next2[q[i]] = next[q[i]] /\ prev2[q[i]] = prev[q[i]]
    PROVE  Linked(next2, prev2, q)
BY DEF Linked

-----------------------------------------------------------------------------
(* Walks                                                                   *)

Path(f, link, x, count) ==
    /\ f = [i \in 0 .. count |-> f[i]]
    /\ f[0] = x /\ \A i \in 1 .. count : f[i] = link[f[i - 1]]

(* A walk meets the nodes that the links lead through. *)
LEMMA WalkIs ==
    ASSUME NEW link, NEW x, NEW count \in Nat, NEW f, Path(f, link, x, count)
    PROVE  Walk(link, x, count) = f[count]
<1> DEFINE D(g, i) == IF i = 0 THEN x ELSE link[g[i - 1]]
           Loop(g) == g = [i \in 0 .. count |-> D(g, i)]
           at == CHOOSE g : Loop(g)
<1>1. Walk(link, x, count) = at[count]
    BY DEF Walk
<1>2. Loop(f)
    <2>1. ASSUME NEW i \in 0 .. count PROVE f[i] = D(f, i)
        <3>1. CASE i = 0
            BY <3>1 DEF Path
        <3>2. CASE i # 0
            <4>1. i \in 1 .. count
                BY <3>2
            <4>2. f[i] = link[f[i - 1]]
                BY <4>1 DEF Path
            <4> QED
                BY <3>2, <4>2, Zenon
        <3> QED
            BY <3>1, <3>2
    <2> HIDE DEF D
    <2>2. f = [i \in 0 .. count |-> f[i]]
        BY DEF Path
    <2>3. [i \in 0 .. count |-> f[i]] = [i \in 0 .. count |-> D(f, i)]
        BY <2>1
    <2> QED
        BY <2>2, <2>3, Zenon
<1>3. Loop(at)
    <2> HIDE DEF Loop
    <2> QED
        BY <1>2
<1>4. at[0] = x /\ \A i \in 1 .. count : at[i] = link[at[i - 1]]
    <2>1. \A i \in 0 .. count : at[i] = D(at, i)
        <3> HIDE DEF D, at
        <3> QED
            BY <1>3
    <2> HIDE DEF at
    <2>2. \A i \in 1 .. count : i \in 0 .. count /\ i # 0
        OBVIOUS
    <2> QED
        BY <2>1, <2>2
<1> HIDE DEF at, Loop, D
<1> DEFINE T == {i \in 0 .. count : at[i] = f[i]}
<1>5. 0 \in T
    BY <1>4 DEF Path
<1>6. ASSUME NEW i \in 1 .. count, i - 1 \in T PROVE i \in T
    <2>1. at[i] = link[at[i - 1]] /\ f[i] = link[f[i - 1]] /\ at[i - 1] = f[i - 1]
        BY <1>4, <1>6 DEF Path
    <2>2. i \in 0 .. count
        OBVIOUS
    <2> QED
        BY <2>1, <2>2
<1>7. count \in T
    <2> HIDE DEF T
    <2>1. \A i \in 0 .. count : i \in T
        BY <1>5, <1>6, Induction
    <2> QED
        BY <2>1
<1> QED
    BY <1>1, <1>7

LEMMA WalkForward ==
    ASSUME NEW next, NEW prev, NEW q \in Seq(Nodes), Linked(next, prev, q),
           NEW k \in 1 .. Len(q), NEW count \in 0 .. Len(q) - k
    PROVE  Walk(next, q[k], count) = q[k + count]
<1> DEFINE f == [i \in 0 .. count |-> q[k + i]]
<1>1. count \in Nat /\ f = [i \in 0 .. count |-> f[i]] /\ f[0] = q[k] /\ f[count] = q[k + count]
    OBVIOUS
<1>2. ASSUME NEW i \in 1 .. count PROVE f[i] = next[f[i - 1]]
    <2>1. /\ k + (i - 1) \in 1 .. Len(q) /\ (k + (i - 1)) + 1 = k + i /\ k + i \in 1 .. Len(q)
          /\ i - 1 \in 0 .. count
        OBVIOUS
    <2>2. next[q[k + (i - 1)]] = At(q, k + i)
        BY <2>1 DEF Linked
    <2> QED
        BY <2>1, <2>2 DEF At
<1> HIDE DEF f
<1>3. Path(f, next, q[k], count)
    BY <1>1, <1>2, Zenon DEF Path
<1> QED
    BY <1>1, <1>3, WalkIs

LEMMA WalkBack ==
    ASSUME NEW next, NEW prev, NEW q \in Seq(Nodes), Linked(next, prev, q),
           NEW k \in 1 .. Len(q), NEW count \in 0 .. k - 1
    PROVE  Walk(prev, q[k], count) = q[k - count]
<1> DEFINE f == [i \in 0 .. count |-> q[k - i]]
<1>1. count \in Nat /\ f = [i \in 0 .. count |-> f[i]] /\ f[0] = q[k] /\ f[count] = q[k - count]
    OBVIOUS
<1>2. ASSUME NEW i \in 1 .. count PROVE f[i] = prev[f[i - 1]]
    <2>1. /\ k - (i - 1) \in 1 .. Len(q) /\ (k - (i - 1)) - 1 = k - i /\ k - i \in 1 .. Len(q)
          /\ i - 1 \in 0 .. count
        OBVIOUS
    <2>2. prev[q[k - (i - 1)]] = At(q, k - i)
        BY <2>1 DEF Linked
    <2> QED
        BY <2>1, <2>2 DEF At
<1> HIDE DEF f
<1>3. Path(f, prev, q[k], count)
    BY <1>1, <1>2, Zenon DEF Path
<1> QED
    BY <1>1, <1>3, WalkIs

(* nodeAt() finds the node at its index. *)
LEMMA NodeAtIs ==
    ASSUME NEW s, NEW l, NEW q \in Seq(Nodes), IsList(s, l, q), NEW idx \in Nat
    PROVE  NodeAt(s, l, idx) = At(q, idx + 1)
<1>1. s.size[l] = Len(q) /\ Len(q) \in Nat /\ Linked(s.next, s.prev, q)
    BY DEF IsList
<1>2. CASE idx >= Len(q)
    BY <1>1, <1>2 DEF NodeAt, At
<1>3. CASE idx < Len(q)
    <2>1. /\ idx + 1 \in 1 .. Len(q) /\ Len(q) \in 1 .. Len(q) /\ 1 \in 1 .. Len(q)
          /\ s.head[l] = q[1] /\ s.tail[l] = q[Len(q)] /\ At(q, idx + 1) = q[idx + 1]
        BY <1>1, <1>3 DEF IsList, At
    <2>2. Walk(s.next, s.head[l], idx) = q[idx + 1]
        <3>1. idx \in 0 .. Len(q) - 1 /\ 1 + idx = idx + 1
            BY <1>1, <1>3
        <3>2. Walk(s.next, q[1], idx) = q[1 + idx]
            BY <1>1, <2>1, <3>1, WalkForward
        <3> QED
            BY <2>1, <3>1, <3>2
    <2>3. Walk(s.prev, s.tail[l], StepsBack(s, l, idx)) = q[idx + 1]
        <3>1. /\ StepsBack(s, l, idx) \in 0 .. Len(q) - 1
              /\ Len(q) - StepsBack(s, l, idx) = idx + 1
            BY <1>1, <1>3 DEF StepsBack
        <3>2. Walk(s.prev, q[Len(q)], StepsBack(s, l, idx)) = q[Len(q) - StepsBack(s, l, idx)]
            BY <1>1, <2>1, <3>1, WalkBack
        <3> QED
            BY <2>1, <3>1, <3>2
    <2> QED
        BY <1>1, <1>3, <2>1, <2>2, <2>3 DEF NodeAt
<1> QED
    BY <1>1, <1>2, <1>3

(* The nodes of a list, as its links show them. *)
LEMMA ChainIs ==
    ASSUME NEW s, NEW l, NEW q \in Seq(Nodes), IsList(s, l, q)
    PROVE  Chain(s, l) = q
<1>1. s.size[l] = Len(q) /\ Len(q) \in Nat /\ Linked(s.next, s.prev, q)
    BY DEF IsList
<1>2. ASSUME NEW i \in 1 .. Len(q) PROVE Walk(s.next, s.head[l], i - 1) = q[i]
    <2>1. /\ 1 \in 1 .. Len(q) /\ s.head[l] = q[1] /\ i - 1 \in 0 .. Len(q) - 1 /\ 1 + (i - 1) = i
        BY <1>1 DEF IsList, At
    <2>2. Walk(s.next, q[1], i - 1) = q[1 + (i - 1)]
        BY <1>1, <2>1, WalkForward
    <2> QED
        BY <2>1, <2>2
<1>3. q = [i \in 1 .. Len(q) |-> q[i]]
    OBVIOUS
<1> QED
    BY <1>1, <1>2, <1>3 DEF Chain

-----------------------------------------------------------------------------
(* What the properties say of lists that are laid out so                   *)

LEMMA BijectionIs ==
    ASSUME NEW S, NEW T, NEW f \in [S -> T], \A x, y \in S : f[x] = f[y] => x = y,
           \A t \in T : \E x \in S : f[x] = t
    PROVE  ExistsBijection(S, T)
BY DEF ExistsBijection, Bijection, Injection, IsInjective, Surjection

LEMMA IntervalSize ==
    ASSUME NEW n \in Nat
    PROVE  IsFiniteSet(1 .. n) /\ Cardinality(1 .. n) = n
BY FS_Interval

LEMMA RowBound ==
    ASSUME NEW p, NEW n \in Nat, Placed(p, n), NEW r \in Rows
    PROVE  Len(p[r]) \in 0 .. n
<1> DEFINE f == [i \in 1 .. Len(p[r]) |-> p[r][i]]
<1>1. Len(p[r]) \in Nat /\ \A i \in 1 .. Len(p[r]) : p[r][i] \in 1 .. n
    BY DEF Placed, InPlaces
<1>2. \A i, j \in 1 .. Len(p[r]) : p[r][i] = p[r][j] => i = j
    BY OnePlace
<1>3. f \in Injection(1 .. Len(p[r]), 1 .. n)
    BY <1>1, <1>2 DEF Injection, IsInjective
<1>4. IsFiniteSet(1 .. n) /\ Cardinality(1 .. n) = n
    BY IntervalSize
<1>5. Cardinality(1 .. Len(p[r])) = Len(p[r])
    BY <1>1, IntervalSize
<1>6. Cardinality(1 .. Len(p[r])) <= Cardinality(1 .. n)
    <2> HIDE DEF f
    <2> QED
        BY <1>3, <1>4, FS_Injection
<1> QED
    BY <1>1, <1>4, <1>5, <1>6

(* The nodes in the lists are those that are not on the free stack. *)
LEMMA PlacesCounted ==
    ASSUME NEW p, NEW n \in Nat, Placed(p, n), n <= MaxNodes,
           NEW inLists, inLists = {t \in Lists \X Nodes : t[2] <= Len(p[t[1]])}
    PROVE  Cardinality(inLists) \in Nat /\ Cardinality(inLists) + Len(p[FreeRow]) = n
<1>1. PICK row, pos : InPlaces(p, n, row, pos)
    BY DEF Placed
<1>2. /\ row \in [1 .. n -> Rows] /\ pos \in [1 .. n -> Nat]
      /\ \A x \in 1 .. n : pos[x] \in 1 .. Len(p[row[x]]) /\ p[row[x]][pos[x]] = x
      /\ \A r \in Rows : \A i \in 1 .. Len(p[r]) :
             p[r][i] \in 1 .. n /\ row[p[r][i]] = r /\ pos[p[r][i]] = i
    BY <1>1 DEF InPlaces
<1> DEFINE B == {x \in 1 .. n : row[x] = FreeRow}
           A == (1 .. n) \ B
           f == [x \in A |-> <<row[x], pos[x]>>]
           g == [x \in B |-> pos[x]]
<1>3. IsFiniteSet(1 .. n) /\ Cardinality(1 .. n) = n
    BY IntervalSize
<1>4. FreeRow \in Rows /\ FreeRow \notin Lists /\ MaxNodes \in Nat
    BY FreeRowIsNoList, NodesAssumption DEF Rows
<1>5. ExistsBijection(A, inLists)
    <2>1. ASSUME NEW x \in A PROVE f[x] \in inLists
        <3>1. row[x] \in Lists /\ pos[x] \in 1 .. Len(p[row[x]]) /\ row[x] \in Rows
            BY <1>2 DEF Rows
        <3>2. Len(p[row[x]]) \in 0 .. n
            BY <3>1, RowBound
        <3>3. pos[x] \in Nodes /\ pos[x] <= Len(p[row[x]])
            BY <1>4, <3>1, <3>2 DEF Nodes
        <3> QED
            BY <3>1, <3>3
    <2>2. ASSUME NEW x \in A, NEW y \in A, f[x] = f[y] PROVE x = y
        <3>1. row[x] = row[y] /\ pos[x] = pos[y]
            BY <2>2
        <3> QED
            BY <1>2, <3>1, SMTT(30)
    <2>3. ASSUME NEW t \in inLists PROVE \E x \in A : f[x] = t
        <3>1. t[1] \in Lists /\ t[2] \in Nodes /\ t[2] <= Len(p[t[1]]) /\ t = <<t[1], t[2]>>
            OBVIOUS
        <3>2. t[1] \in Rows /\ t[1] # FreeRow /\ Len(p[t[1]]) \in 0 .. n
            BY <1>4, <3>1, RowBound DEF Rows
        <3>3. t[2] \in 1 .. Len(p[t[1]])
            BY <3>1, <3>2, <1>4 DEF Nodes
        <3> DEFINE x == p[t[1]][t[2]]
        <3>4. x \in 1 .. n /\ row[x] = t[1] /\ pos[x] = t[2]
            BY <1>2, <3>2, <3>3
        <3> HIDE DEF x
        <3>5. x \in A /\ f[x] = t
            BY <3>1, <3>2, <3>4
        <3> QED
            BY <3>5
    <2>4. f \in [A -> inLists]
        BY <2>1
    <2> HIDE DEF f, A
    <2> QED
        BY <2>2, <2>3, <2>4, BijectionIs
<1>6. ExistsBijection(B, 1 .. Len(p[FreeRow]))
    <2>1. g \in [B -> 1 .. Len(p[FreeRow])]
        BY <1>2
    <2>2. \A x, y \in B : g[x] = g[y] => x = y
        BY <1>2
    <2>3. ASSUME NEW i \in 1 .. Len(p[FreeRow]) PROVE \E x \in B : g[x] = i
        <3>1. p[FreeRow][i] \in B /\ pos[p[FreeRow][i]] = i
            BY <1>2, <1>4
        <3> QED
            BY <3>1
    <2> HIDE DEF g, B
    <2> QED
        BY <2>1, <2>2, <2>3, BijectionIs
<1>7. B \in SUBSET (1 .. n)
    OBVIOUS
<1>8. Len(p[FreeRow]) \in Nat
    BY <1>4 DEF Placed
<1> HIDE DEF B
<1>9. /\ IsFiniteSet(A) /\ IsFiniteSet(B) /\ Cardinality(B) \in Nat
      /\ Cardinality(A) = n - Cardinality(B)
    <2>1. IsFiniteSet(B)
        BY <1>3, <1>7, FS_Subset
    <2>2. (1 .. n) \cap B = B
        BY <1>7
    <2>3. IsFiniteSet(A) /\ Cardinality(A) = Cardinality(1 .. n) - Cardinality((1 .. n) \cap B)
        BY <1>3, FS_Difference
    <2> QED
        BY <1>3, <2>1, <2>2, <2>3, FS_CardinalityType
<1> HIDE DEF A
<1>10. Cardinality(inLists) \in Nat /\ Cardinality(inLists) = Cardinality(A)
    BY <1>5, <1>9, FS_Bijection, FS_CardinalityType
<1>11. Cardinality(1 .. Len(p[FreeRow])) = Cardinality(B)
    BY <1>6, <1>9, FS_Bijection
<1>12. Cardinality(1 .. Len(p[FreeRow])) = Len(p[FreeRow])
    BY <1>8, IntervalSize
<1> QED
    BY <1>8, <1>9, <1>10, <1>11, <1>12

LEMMA ListsInHolds ==
    ASSUME NEW s, NEW V, NEW p, NEW sq, LaidOut(s, V, p, sq), NEW l \in Lists
    PROVE  /\ l \in Rows /\ l # FreeRow /\ p[l] \in Seq(Nodes) /\ Len(p[l]) \in Nat
           /\ IsList(s, l, p[l]) /\ Shows(s, p[l], sq[l])
           /\ s.size[l] = Len(p[l]) /\ Chain(s, l) = p[l]
<1>1. l \in Rows /\ l # FreeRow
    BY FreeRowIsNoList DEF Rows
<1>2. p[l] \in Seq(Nodes)
    BY <1>1 DEF LaidOut, Placed
<1>3. IsList(s, l, p[l]) /\ Shows(s, p[l], sq[l])
    BY DEF LaidOut
<1> QED
    BY <1>1, <1>2, <1>3, ChainIs DEF IsList

LEMMA HoldsIsSound ==
    ASSUME NEW s, NEW V, NEW p, NEW sq, LaidOut(s, V, p, sq), Null \notin Nodes
    PROVE  /\ \A l \in Lists : WellLinked(s, l) /\ Sequence(s, l) = sq[l]
           /\ EverySlotOnce(s)
<1>1. ASSUME NEW l \in Lists PROVE WellLinked(s, l)
    <2> DEFINE q == p[l]
    <2>1. /\ q \in Seq(Nodes) /\ Len(q) \in Nat /\ IsList(s, l, q) /\ s.size[l] = Len(q)
          /\ Chain(s, l) = q
        BY ListsInHolds
    <2> HIDE DEF q
    <2>2. CASE Len(q) = 0
        BY <2>1, <2>2 DEF WellLinked, IsList, At
    <2>3. CASE Len(q) > 0
        <3>1. /\ 1 \in 1 .. Len(q) /\ Len(q) \in 1 .. Len(q)
              /\ 1 - 1 \notin 1 .. Len(q) /\ Len(q) + 1 \notin 1 .. Len(q)
            BY <2>1, <2>3
        <3>2. q[1] = s.head[l] /\ q[Len(q)] = s.tail[l]
            BY <2>1, <3>1 DEF IsList, At
        <3>3. s.prev[q[1]] = Null /\ s.next[q[Len(q)]] = Null
            <4>1. s.prev[q[1]] = At(q, 1 - 1) /\ s.next[q[Len(q)]] = At(q, Len(q) + 1)
                BY <2>1, <3>1 DEF IsList, Linked
            <4> QED
                BY <3>1, <4>1 DEF At
        <3>4. ASSUME NEW i \in 2 .. Len(q) PROVE s.prev[q[i]] = q[i - 1]
            <4>1. i \in 1 .. Len(q) /\ i - 1 \in 1 .. Len(q)
                BY <2>1
            <4>2. s.prev[q[i]] = At(q, i - 1)
                BY <2>1, <4>1 DEF IsList, Linked
            <4> QED
                BY <4>1, <4>2 DEF At
        <3>5. Range(q) \subseteq Nodes
            BY <2>1 DEF Range
        <3> QED
            BY <2>1, <2>3, <3>2, <3>3, <3>4, <3>5 DEF WellLinked
    <2> QED
        BY <2>1, <2>2, <2>3
<1>2. ASSUME NEW l \in Lists PROVE Sequence(s, l) = sq[l]
    <2>1. /\ Chain(s, l) = p[l] /\ s.size[l] = Len(p[l]) /\ Shows(s, p[l], sq[l])
        BY ListsInHolds
    <2>2. sq[l] = [i \in 1 .. Len(sq[l]) |-> sq[l][i]]
        <3>1. sq[l] \in Seq(V)
            BY DEF LaidOut
        <3> QED
            BY <3>1
    <2> QED
        BY <2>1, <2>2 DEF Sequence, Shows
<1>3. EverySlotOnce(s)
    <2> DEFINE inLists == {t \in Lists \X Nodes : t[2] <= s.size[t[1]]}
               place(t) == Chain(s, t[1])[t[2]]
    <2>1. /\ Placed(p, s.made) /\ s.made \in Nat /\ s.made <= MaxNodes /\ p[FreeRow] = s.free
          /\ s.live = s.made - Len(s.free) /\ s.made <= s.segments * SegmentCapacity
          /\ s.free \in Seq(Nodes)
        BY DEF LaidOut, NodeRecords
    <2>2. inLists = {t \in Lists \X Nodes : t[2] <= Len(p[t[1]])}
        BY ListsInHolds
    <2>3. Cardinality(inLists) \in Nat /\ Cardinality(inLists) + Len(s.free) = s.made
        <3> HIDE DEF inLists
        <3> QED
            BY <2>1, <2>2, PlacesCounted
    <2>4. PICK row, pos : InPlaces(p, s.made, row, pos)
        BY <2>1 DEF Placed
    <2>5. ASSUME NEW t \in inLists PROVE place(t) \in 1 .. s.made
        <3>1. t[1] \in Lists /\ t[2] \in Nodes /\ t[2] <= Len(p[t[1]])
            BY <2>2
        <3>2. t[1] \in Rows /\ Chain(s, t[1]) = p[t[1]] /\ Len(p[t[1]]) \in Nat
            BY <3>1, ListsInHolds
        <3>3. t[2] \in 1 .. Len(p[t[1]])
            BY <3>1, <3>2 DEF Nodes
        <3> QED
            BY <2>4, <3>2, <3>3 DEF InPlaces
    <2>6. Range(s.free) \subseteq 1 .. s.made
        <3>1. \A i \in 1 .. Len(s.free) : s.free[i] \in 1 .. s.made
            BY <2>1, <2>4 DEF InPlaces, Rows
        <3> QED
            BY <2>1, <3>1 DEF Range
    <2>7. ASSUME NEW x \in 1 .. s.made PROVE x \in Range(s.free) \/ \E t \in inLists : x = place(t)
        <3>1. row[x] \in Rows /\ pos[x] \in 1 .. Len(p[row[x]]) /\ p[row[x]][pos[x]] = x
            BY <2>4 DEF InPlaces
        <3>2. CASE row[x] = FreeRow
            BY <2>1, <3>1, <3>2 DEF Range
        <3>3. CASE row[x] \in Lists
            <4>1. Chain(s, row[x]) = p[row[x]] /\ s.size[row[x]] = Len(p[row[x]])
                BY <3>3, ListsInHolds
            <4>2. Len(p[row[x]]) \in 0 .. s.made
                BY <2>1, <3>1, RowBound
            <4>3. pos[x] \in Nodes /\ pos[x] <= Len(p[row[x]])
                BY <2>1, <3>1, <4>2, NodesAssumption DEF Nodes
            <4>4. <<row[x], pos[x]>> \in inLists
                BY <3>3, <4>1, <4>3
            <4>5. place(<<row[x], pos[x]>>) = x
                BY <3>1, <4>1
            <4> HIDE DEF inLists, place
            <4> QED
                BY <4>4, <4>5
        <3> QED
            BY <3>1, <3>2, <3>3 DEF Rows
    <2>8. {place(t) : t \in inLists} \cup Range(s.free) = 1 .. s.made
        <3> HIDE DEF inLists, place
        <3> QED
            BY <2>5, <2>6, <2>7
    <2>9. s.live = Cardinality(inLists)
        <3>1. Len(s.free) \in Nat
            BY <2>1
        <3> HIDE DEF inLists
        <3> QED
            BY <2>1, <2>3, <3>1
    <2> QED
        <3> HIDE DEF inLists, place
        <3>1. /\ {place(t) : t \in inLists} \cup Range(s.free) = 1 .. s.made
              /\ Cardinality(inLists) + Len(s.free) = s.made
              /\ s.live = Cardinality(inLists)
              /\ s.made <= s.segments * SegmentCapacity
            BY <2>1, <2>3, <2>8, <2>9
        <3> QED
            BY <3>1 DEF EverySlotOnce, inLists, place
<1> QED
    BY <1>1, <1>2, <1>3

-----------------------------------------------------------------------------
(* One list after a splice or a cut                                        *)

LEMMA IsListSplice ==
    ASSUME NEW s, NEW s2, NEW l, Null \notin Nodes,
           NEW q \in Seq(Nodes), NEW t \in Seq(Nodes), Len(t) > 0, NEW b \in 0 .. Len(q),
           IsList(s, l, q), NEW r, IsSplice(r, q, b, t, Nodes), Linked(s2.next, s2.prev, r),
           s2.head[l] = IF At(q, b) = Null THEN t[1] ELSE s.head[l],
           s2.tail[l] = IF At(q, b + 1) = Null THEN t[Len(t)] ELSE s.tail[l],
           s2.size[l] = Len(q) + Len(t)
    PROVE  IsList(s2, l, r)
<1> DEFINE m == Len(t)
<1>1. /\ Len(q) \in Nat /\ m \in Nat \ {0} /\ b \in Nat /\ b <= Len(q) /\ Len(r) = Len(q) + m
      /\ 1 \in 1 .. Len(r) /\ Len(r) \in 1 .. Len(r)
    BY DEF IsSplice
<1>2. s2.head[l] = At(r, 1)
    <2>1. At(r, 1) = r[1]
        BY <1>1 DEF At
    <2>2. CASE b = 0
        <3>1. At(q, b) = Null /\ 1 \in 1 .. m /\ b + 1 = 1
            BY <1>1, <2>2 DEF At
        <3>2. r[b + 1] = t[1]
            BY <3>1 DEF IsSplice
        <3> QED
            BY <2>1, <3>1, <3>2
    <2>3. CASE b > 0
        <3>1. 1 \in 1 .. b /\ b \in 1 .. Len(q) /\ 1 \in 1 .. Len(q)
            BY <1>1, <2>3
        <3>2. At(q, b) # Null /\ s.head[l] = q[1] /\ r[1] = q[1]
            BY <3>1 DEF At, IsList, IsSplice
        <3> QED
            BY <2>1, <3>2
    <2> QED
        BY <1>1, <2>2, <2>3
<1>3. s2.tail[l] = At(r, Len(r))
    <2>1. At(r, Len(r)) = r[Len(r)]
        BY <1>1 DEF At
    <2>2. CASE b = Len(q)
        <3>1. At(q, b + 1) = Null /\ m \in 1 .. m /\ b + m = Len(r)
            BY <1>1, <2>2 DEF At
        <3>2. r[b + m] = t[m]
            BY <3>1 DEF IsSplice
        <3> QED
            BY <2>1, <3>1, <3>2
    <2>3. CASE b < Len(q)
        <3>1. /\ Len(q) \in (b + 1) .. Len(q) /\ b + 1 \in 1 .. Len(q) /\ Len(q) \in 1 .. Len(q)
              /\ m + Len(q) = Len(r)
            BY <1>1, <2>3
        <3>2. At(q, b + 1) # Null /\ s.tail[l] = q[Len(q)] /\ r[m + Len(q)] = q[Len(q)]
            BY <3>1 DEF At, IsList, IsSplice
        <3> QED
            BY <2>1, <3>1, <3>2
    <2> QED
        BY <1>1, <2>2, <2>3
<1> QED
    BY <1>1, <1>2, <1>3 DEF IsList

LEMMA ShowsSplice ==
    ASSUME NEW V, NEW s, NEW s2, NEW q \in Seq(Nodes), NEW t \in Seq(Nodes), NEW b \in 0 .. Len(q),
           NEW a \in Seq(V), NEW c \in Seq(V), Shows(s, q, a), Len(c) = Len(t),
           \A i \in 1 .. Len(q) : s2.val[q[i]] = s.val[q[i]],
           \A i \in 1 .. Len(t) : s2.val[t[i]] = c[i],
           NEW r, IsSplice(r, q, b, t, Nodes), NEW d, IsSplice(d, a, b, c, V)
    PROVE  Shows(s2, r, d)
<1> DEFINE m == Len(t)
<1>1. /\ Len(q) \in Nat /\ m \in Nat /\ b \in Nat /\ b <= Len(q) /\ Len(a) = Len(q)
      /\ Len(r) = Len(q) + m /\ Len(d) = Len(q) + m
    BY DEF IsSplice, Shows
<1>2. ASSUME NEW i \in 1 .. Len(r) PROVE s2.val[r[i]] = d[i]
    <2>1. CASE i <= b
        <3>1. i \in 1 .. b /\ i \in 1 .. Len(q)
            BY <1>1, <2>1
        <3>2. r[i] = q[i] /\ d[i] = a[i] /\ s.val[q[i]] = a[i]
            BY <3>1 DEF IsSplice, Shows
        <3> QED
            BY <3>1, <3>2
    <2>2. CASE i > b /\ i <= b + m
        <3>1. i - b \in 1 .. m /\ b + (i - b) = i
            BY <1>1, <2>2
        <3>2. r[b + (i - b)] = t[i - b] /\ d[b + (i - b)] = c[i - b]
            BY <3>1 DEF IsSplice
        <3> QED
            BY <3>1, <3>2
    <2>3. CASE i > b + m
        <3>1. i - m \in (b + 1) .. Len(q) /\ i - m \in 1 .. Len(q) /\ m + (i - m) = i
            BY <1>1, <2>3
        <3>2. r[m + (i - m)] = q[i - m]
            BY <3>1 DEF IsSplice
        <3>3. d[m + (i - m)] = a[i - m]
            BY <1>1, <3>1 DEF IsSplice
        <3>4. s.val[q[i - m]] = a[i - m]
            BY <3>1 DEF Shows
        <3> QED
            BY <3>1, <3>2, <3>3, <3>4
    <2> QED
        BY <1>1, <2>1, <2>2, <2>3
<1> QED
    BY <1>1, <1>2 DEF Shows

LEMMA IsListCut ==
    ASSUME NEW s, NEW s2, NEW l, Null \notin Nodes,
           NEW q \in Seq(Nodes), NEW k \in 0 .. Len(q) - 1,
           IsList(s, l, q), NEW r, IsCut(r, q, k, Nodes), Linked(s2.next, s2.prev, r),
           s2.head[l] = IF At(q, k) = Null THEN At(q, k + 2) ELSE s.head[l],
           s2.tail[l] = IF At(q, k + 2) = Null THEN At(q, k) ELSE s.tail[l],
           s2.size[l] = Len(q) - 1
    PROVE  IsList(s2, l, r)
<1>1. Len(q) \in Nat /\ k \in Nat /\ k < Len(q) /\ Len(r) = Len(q) - 1
    BY DEF IsCut
<1>2. s2.head[l] = At(r, 1)
    <2>1. CASE k = 0
        <3>1. At(q, k) = Null /\ s2.head[l] = At(q, 2)
            BY <2>1 DEF At
        <3>2. CASE Len(q) = 1
            BY <1>1, <3>1, <3>2 DEF At
        <3>3. CASE Len(q) > 1
            <4>1. 1 \in (k + 1) .. Len(q) - 1 /\ 1 + 1 = 2 /\ 2 \in 1 .. Len(q) /\ 1 \in 1 .. Len(r)
                BY <1>1, <2>1, <3>3
            <4>2. r[1] = q[1 + 1]
                BY <4>1 DEF IsCut
            <4> QED
                BY <3>1, <4>1, <4>2 DEF At
        <3> QED
            BY <1>1, <3>2, <3>3
    <2>2. CASE k > 0
        <3>1. 1 \in 1 .. k /\ k \in 1 .. Len(q) /\ 1 \in 1 .. Len(q) /\ 1 \in 1 .. Len(r)
            BY <1>1, <2>2
        <3>2. At(q, k) # Null /\ s.head[l] = q[1] /\ r[1] = q[1] /\ At(r, 1) = r[1]
            BY <3>1 DEF At, IsList, IsCut
        <3> QED
            BY <3>2
    <2> QED
        BY <1>1, <2>1, <2>2
<1>3. s2.tail[l] = At(r, Len(r))
    <2>1. CASE k + 1 = Len(q)
        <3>1. At(q, k + 2) = Null /\ s2.tail[l] = At(q, k) /\ Len(r) = k
            BY <1>1, <2>1 DEF At
        <3>2. CASE k = 0
            BY <3>1, <3>2 DEF At
        <3>3. CASE k > 0
            <4>1. k \in 1 .. k /\ k \in 1 .. Len(q) /\ k \in 1 .. Len(r)
                BY <1>1, <3>1, <3>3
            <4>2. r[k] = q[k]
                BY <4>1 DEF IsCut
            <4> QED
                BY <3>1, <4>1, <4>2 DEF At
        <3> QED
            BY <1>1, <3>2, <3>3
    <2>2. CASE k + 1 < Len(q)
        <3>1. /\ Len(q) - 1 \in (k + 1) .. Len(q) - 1 /\ k + 2 \in 1 .. Len(q)
              /\ Len(q) \in 1 .. Len(q) /\ Len(r) \in 1 .. Len(r) /\ (Len(q) - 1) + 1 = Len(q)
            BY <1>1, <2>2
        <3>2. At(q, k + 2) # Null /\ s.tail[l] = q[Len(q)] /\ At(r, Len(r)) = r[Len(r)]
            BY <3>1 DEF At, IsList
        <3>3. r[Len(q) - 1] = q[(Len(q) - 1) + 1]
            BY <3>1 DEF IsCut
        <3> QED
            BY <1>1, <3>1, <3>2, <3>3
    <2> QED
        BY <1>1, <2>1, <2>2
<1> QED
    BY <1>1, <1>2, <1>3 DEF IsList

LEMMA ShowsCut ==
    ASSUME NEW V, NEW s, NEW s2, NEW q \in Seq(Nodes), NEW k \in 0 .. Len(q) - 1,
           NEW a \in Seq(V), Shows(s, q, a),
           \A i \in 1 .. Len(q) : i # k + 1 => s2.val[q[i]] = s.val[q[i]],
           NEW r, IsCut(r, q, k, Nodes), NEW d, IsCut(d, a, k, V)
    PROVE  Shows(s2, r, d)
<1>1. /\ Len(q) \in Nat /\ k \in Nat /\ k < Len(q) /\ Len(a) = Len(q)
      /\ Len(r) = Len(q) - 1 /\ Len(d) = Len(q) - 1
    BY DEF IsCut, Shows
<1>2. ASSUME NEW i \in 1 .. Len(r) PROVE s2.val[r[i]] = d[i]
    <2>1. CASE i <= k
        <3>1. i \in 1 .. k /\ i \in 1 .. Len(q) /\ i # k + 1
            BY <1>1, <2>1
        <3>2. r[i] = q[i] /\ d[i] = a[i] /\ s.val[q[i]] = a[i]
            BY <3>1 DEF IsCut, Shows
        <3> QED
            BY <3>1, <3>2
    <2>2. CASE i > k
        <3>1. i \in (k + 1) .. Len(q) - 1 /\ i + 1 \in 1 .. Len(q) /\ i + 1 # k + 1
            BY <1>1, <2>2
        <3>2. r[i] = q[i + 1]
            BY <3>1 DEF IsCut
        <3>3. d[i] = a[i + 1]
            BY <1>1, <3>1 DEF IsCut
        <3>4. s.val[q[i + 1]] = a[i + 1]
            BY <3>1 DEF Shows
        <3> QED
            BY <3>1, <3>2, <3>3, <3>4
    <2> QED
        BY <1>1, <2>1, <2>2
<1> QED
    BY <1>1, <1>2 DEF Shows

(* A list whose nodes are not touched. *)
LEMMA UntouchedList ==
    ASSUME NEW s, NEW s2, NEW l, NEW q, NEW a, IsList(s, l, q), Shows(s, q, a),
           s2.head[l] = s.head[l], s2.tail[l] = s.tail[l], s2.size[l] = s.size[l],
           \A i \in 1 .. Len(q) : /\ s2.next[q[i]] = s.next[q[i]] /\ s2.prev[q[i]] = s.prev[q[i]]
                                  /\ s2.val[q[i]] = s.val[q[i]]
    PROVE  IsList(s2, l, q) /\ Shows(s2, q, a)
BY DEF IsList, Linked, Shows

-----------------------------------------------------------------------------
(* What an operation does to the nodes, field by field, and what it makes  *)
(* of the rows                                                             *)

(* The node in the next slot is put between p and n in l. *)
Inserts(s, s2, l, p, n, v) ==
    LET x == NextSlot(s)
    IN  /\ s2.free = PopFree(s) /\ s2.made = MadeThen(s) /\ s2.live = s.live + 1
        /\ s2.made <= s2.segments * SegmentCapacity
        /\ s2.next = [y \in Nodes |-> IF y = p THEN x ELSE IF y = x THEN n ELSE s.next[y]]
        /\ s2.prev = [y \in Nodes |-> IF y = n THEN x ELSE IF y = x THEN p ELSE s.prev[y]]
        /\ s2.val = [s.val EXCEPT ![x] = v]
        /\ s2.head = [s.head EXCEPT ![l] = IF p = Null THEN x ELSE @]
        /\ s2.tail = [s.tail EXCEPT ![l] = IF n = Null THEN x ELSE @]
        /\ s2.size = [s.size EXCEPT ![l] = @ + 1]

LEMMA InsertsHold ==
    ASSUME NEW s, NEW V, NEW p, NEW sq, LaidOut(s, V, p, sq), Null \notin Nodes, HasRoom(s),
           NEW l \in Lists, NEW b \in 0 .. Len(p[l]), NEW v \in V, NEW s2 \in NodeRecords(V),
           Inserts(s, s2, l, At(p[l], b), At(p[l], b + 1), v)
    PROVE  LaidOut(s2, V, Taken(s, p, l, b), [sq EXCEPT ![l] = Splice(sq[l], b, <<v>>)])
<1> DEFINE q == p[l]
           x == NextSlot(s)
           t == <<x>>
           r == Splice(q, b, t)
           p2 == Taken(s, p, l, b)
           d == Splice(sq[l], b, <<v>>)
           sq2 == [sq EXCEPT ![l] = d]
<1>1. /\ s \in NodeRecords(V) /\ Placed(p, s.made) /\ p[FreeRow] = s.free /\ s.made \in Nat
      /\ sq \in [Lists -> Seq(V)] /\ s.made <= MaxNodes
      /\ s.live = s.made - Len(s.free) /\ s.free \in Seq(Nodes)
    BY DEF LaidOut, NodeRecords
<1>2. /\ l \in Rows /\ l # FreeRow /\ q \in Seq(Nodes) /\ Len(q) \in Nat /\ IsList(s, l, q)
      /\ Shows(s, q, sq[l]) /\ s.size[l] = Len(q)
    BY ListsInHolds
<1>3. /\ x \in Nodes /\ Placed(p2, MadeThen(s))
      /\ \A u \in Lists : \A i \in 1 .. Len(p[u]) : p[u][i] # x
    BY <1>1, SlotTaken
<1>4. /\ t \in Seq(Nodes) /\ Len(t) = 1 /\ t[1] = x /\ <<v>> \in Seq(V) /\ Len(<<v>>) = 1
      /\ <<v>>[1] = v
    BY <1>3
<1>5. sq[l] \in Seq(V) /\ b \in 0 .. Len(sq[l])
    BY <1>1, <1>2 DEF Shows
<1>6. p2[l] = r /\ p2[FreeRow] = PopFree(s) /\ \A u \in Lists \ {l} : p2[u] = p[u]
    BY <1>2, FreeRowIsNoList DEF Taken, Rearranged, Rows
<1> HIDE DEF x, t, p2
<1>7. /\ s2.free = PopFree(s) /\ s2.made = MadeThen(s) /\ s2.live = s.live + 1
      /\ s2.made <= s2.segments * SegmentCapacity
      /\ \A y \in Nodes : s2.next[y] =
             IF y = At(q, b) THEN x ELSE IF y = x THEN At(q, b + 1) ELSE s.next[y]
      /\ \A y \in Nodes : s2.prev[y] =
             IF y = At(q, b + 1) THEN x ELSE IF y = x THEN At(q, b) ELSE s.prev[y]
      /\ s2.val = [s.val EXCEPT ![x] = v]
      /\ s2.head = [s.head EXCEPT ![l] = IF At(q, b) = Null THEN x ELSE @]
      /\ s2.tail = [s.tail EXCEPT ![l] = IF At(q, b + 1) = Null THEN x ELSE @]
      /\ s2.size = [s.size EXCEPT ![l] = @ + 1]
    BY DEF Inserts, x
<1>8. /\ s.val \in [Nodes -> V] /\ s.head \in [Lists -> Links] /\ s.tail \in [Lists -> Links]
      /\ s.size \in [Lists -> Nat]
    BY <1>1 DEF NodeRecords
<1>9. NoNodeTwice(q) /\ \A u \in Lists \ {l} : \A i \in 1 .. Len(p[u]), j \in 1 .. Len(q) : p[u][i] # q[j]
    <2>1. NoNodeTwice(q)
        BY <1>1, <1>2, OnePlace DEF NoNodeTwice
    <2>2. ASSUME NEW u \in Lists \ {l}, NEW i \in 1 .. Len(p[u]), NEW j \in 1 .. Len(q)
          PROVE  p[u][i] # q[j]
        <3>1. u \in Rows
            BY DEF Rows
        <3> QED
            BY <1>1, <1>2, <3>1, OnePlace
    <2> QED
        BY <2>1, <2>2
<1>10. IsSplice(r, q, b, t, Nodes)
    BY <1>2, <1>4, SpliceProperties
<1>11. IsSplice(d, sq[l], b, <<v>>, V)
    BY <1>4, <1>5, SpliceProperties
<1> HIDE DEF r, d, q
<1>12. d \in Seq(V) /\ sq2 \in [Lists -> Seq(V)] /\ sq2[l] = d /\ \A u \in Lists \ {l} : sq2[u] = sq[u]
    BY <1>1, <1>11 DEF IsSplice
<1>13. Linked(s2.next, s2.prev, r)
    <2>1. LinksInto(s.next, s.prev, q, b, t, s2.next, s2.prev)
        BY <1>4, <1>7 DEF LinksInto
    <2>2. \A i \in 1 .. Len(q), j \in 1 .. Len(t) : q[i] # t[j]
        BY <1>3, <1>4 DEF q
    <2>3. NoNodeTwice(t) /\ 1 .. (Len(t) - 1) = {} /\ Len(t) > 0
        BY <1>4 DEF NoNodeTwice
    <2>4. Linked(s.next, s.prev, q)
        BY <1>2 DEF IsList
    <2> QED
        BY <1>2, <1>4, <1>9, <1>10, <2>1, <2>2, <2>3, <2>4, LinkedSplice DEF q
<1>14. IsList(s2, l, r)
    <2>1. /\ s2.head[l] = IF At(q, b) = Null THEN t[1] ELSE s.head[l]
          /\ s2.tail[l] = IF At(q, b + 1) = Null THEN t[Len(t)] ELSE s.tail[l]
          /\ s2.size[l] = Len(q) + Len(t) /\ Len(t) > 0
        BY <1>2, <1>4, <1>7, <1>8
    <2>2. b \in 0 .. Len(q)
        BY DEF q
    <2> QED
        BY <1>2, <1>4, <1>10, <1>13, <2>1, <2>2, IsListSplice
<1>15. Shows(s2, r, d)
    <2>1. \A i \in 1 .. Len(q) : s2.val[q[i]] = s.val[q[i]]
        BY <1>2, <1>3, <1>7, <1>8 DEF q
    <2>2. \A i \in 1 .. Len(t) : s2.val[t[i]] = <<v>>[i]
        BY <1>3, <1>4, <1>7, <1>8
    <2>3. b \in 0 .. Len(q) /\ Len(<<v>>) = Len(t)
        BY <1>4 DEF q
    <2> QED
        BY <1>2, <1>4, <1>5, <1>10, <1>11, <2>1, <2>2, <2>3, ShowsSplice
<1>16. ASSUME NEW u \in Lists \ {l} PROVE IsList(s2, u, p[u]) /\ Shows(s2, p[u], sq[u])
    <2>1. IsList(s, u, p[u]) /\ Shows(s, p[u], sq[u]) /\ p[u] \in Seq(Nodes)
        BY ListsInHolds
    <2>2. s2.head[u] = s.head[u] /\ s2.tail[u] = s.tail[u] /\ s2.size[u] = s.size[u]
        BY <1>7, <1>8
    <2>3. ASSUME NEW i \in 1 .. Len(p[u])
          PROVE  /\ s2.next[p[u][i]] = s.next[p[u][i]] /\ s2.prev[p[u][i]] = s.prev[p[u][i]]
                 /\ s2.val[p[u][i]] = s.val[p[u][i]]
        <3> DEFINE y == p[u][i]
        <3>1. y \in Nodes /\ y # x /\ \A j \in 1 .. Len(q) : y # q[j]
            BY <1>3, <1>9, <2>1 DEF q
        <3> HIDE DEF y
        <3>2. y # At(q, b) /\ y # At(q, b + 1)
            BY <3>1 DEF At
        <3>3. s2.next[y] = s.next[y] /\ s2.prev[y] = s.prev[y] /\ s2.val[y] = s.val[y]
            BY <1>7, <1>8, <3>1, <3>2
        <3> QED
            BY <3>3 DEF y
    <2> QED
        BY <2>1, <2>2, <2>3, UntouchedList
<1>17. s2.made <= MaxNodes /\ s2.live = s2.made - Len(s2.free)
    <2>1. CASE s.free # << >>
        <3>1. PopFree(s) = SubSeq(s.free, 1, Len(s.free) - 1) /\ MadeThen(s) = s.made
              /\ Len(s.free) \in Nat \ {0}
            BY <1>1, <2>1 DEF PopFree, MadeThen, Front
        <3>2. Len(PopFree(s)) = Len(s.free) - 1
            <4>1. \A i \in 1 .. (Len(s.free) - 1) : s.free[i] \in Nodes
                BY <1>1, <3>1
            <4> QED
                BY <1>1, <3>1, <4>1, SubSeqProperties
        <3> QED
            BY <1>1, <1>7, <3>1, <3>2
    <2>2. CASE s.free = << >>
        <3>1. PopFree(s) = << >> /\ MadeThen(s) = s.made + 1 /\ x = s.made + 1 /\ Len(s.free) = 0
            BY <2>2 DEF PopFree, MadeThen, NextSlot, x
        <3>2. s.made + 1 <= MaxNodes
            BY <1>3, <3>1, NodesAssumption DEF Nodes
        <3> QED
            BY <1>1, <1>7, <3>1, <3>2
    <2> QED
        BY <2>1, <2>2
<1>18. LaidOut(s2, V, p2, sq2)
    <2>1. ASSUME NEW u \in Lists PROVE IsList(s2, u, p2[u]) /\ Shows(s2, p2[u], sq2[u])
        <3>1. CASE u = l
            BY <1>6, <1>12, <1>14, <1>15, <3>1
        <3>2. CASE u # l
            BY <1>6, <1>12, <1>16, <3>2
        <3> QED
            BY <3>1, <3>2
    <2> HIDE DEF sq2
    <2> QED
        BY <1>3, <1>6, <1>7, <1>12, <1>17, <2>1 DEF LaidOut
<1> QED
    BY <1>18 DEF p2, d

(* The nodes of m are put between p and n in l, and m is empty. *)
Joins(s, s2, l, m, p, n) ==
    /\ s2.free = s.free /\ s2.made = s.made /\ s2.live = s.live /\ s2.segments = s.segments
    /\ s2.val = s.val
    /\ s2.next = [y \in Nodes |-> IF y = p THEN s.head[m] ELSE IF y = s.tail[m] THEN n ELSE s.next[y]]
    /\ s2.prev = [y \in Nodes |-> IF y = n THEN s.tail[m] ELSE IF y = s.head[m] THEN p ELSE s.prev[y]]
    /\ s2.head = [u \in Lists |-> IF u = m THEN Null ELSE IF u = l /\ p = Null THEN s.head[m] ELSE s.head[u]]
    /\ s2.tail = [u \in Lists |-> IF u = m THEN Null ELSE IF u = l /\ n = Null THEN s.tail[m] ELSE s.tail[u]]
    /\ s2.size = [u \in Lists |-> IF u = m THEN 0 ELSE IF u = l THEN s.size[l] + s.size[m] ELSE s.size[u]]

LEMMA EmptyList ==
    ASSUME NEW s, NEW l, s.head[l] = Null, s.tail[l] = Null, s.size[l] = 0
    PROVE  IsList(s, l, << >>) /\ Shows(s, << >>, << >>)
BY DEF IsList, Shows, Linked, At

LEMMA JoinsHold ==
    ASSUME NEW s, NEW V, NEW p, NEW sq, LaidOut(s, V, p, sq), Null \notin Nodes,
           NEW l \in Lists, NEW m \in Lists, l # m, Len(p[m]) > 0,
           NEW b \in 0 .. Len(p[l]), NEW s2 \in NodeRecords(V),
           Joins(s, s2, l, m, At(p[l], b), At(p[l], b + 1))
    PROVE  LaidOut(s2, V, Rearranged(p, l, Splice(p[l], b, p[m]), m, << >>),
                 [u \in Lists |-> IF u = l THEN Splice(sq[l], b, sq[m])
                                  ELSE IF u = m THEN << >> ELSE sq[u]])
<1> DEFINE q == p[l]
           t == p[m]
           r == Splice(q, b, t)
           p2 == Rearranged(p, l, r, m, << >>)
           d == Splice(sq[l], b, sq[m])
           sq2 == [u \in Lists |-> IF u = l THEN d ELSE IF u = m THEN << >> ELSE sq[u]]
<1>1. /\ s \in NodeRecords(V) /\ Placed(p, s.made) /\ p[FreeRow] = s.free /\ s.made \in Nat
      /\ sq \in [Lists -> Seq(V)] /\ s.made <= MaxNodes
      /\ s.live = s.made - Len(s.free) /\ s.made <= s.segments * SegmentCapacity
    BY DEF LaidOut, NodeRecords
<1>2. /\ l \in Rows /\ l # FreeRow /\ q \in Seq(Nodes) /\ Len(q) \in Nat /\ IsList(s, l, q)
      /\ Shows(s, q, sq[l]) /\ s.size[l] = Len(q)
    BY ListsInHolds
<1>3. /\ m \in Rows /\ m # FreeRow /\ t \in Seq(Nodes) /\ Len(t) \in Nat /\ IsList(s, m, t)
      /\ Shows(s, t, sq[m]) /\ s.size[m] = Len(t) /\ Len(t) > 0
    BY ListsInHolds
<1>4. /\ sq[l] \in Seq(V) /\ b \in 0 .. Len(sq[l]) /\ sq[m] \in Seq(V) /\ Len(sq[m]) = Len(t)
    BY <1>1, <1>2, <1>3 DEF Shows
<1>5. s.head[m] = t[1] /\ s.tail[m] = t[Len(t)] /\ 1 \in 1 .. Len(t) /\ Len(t) \in 1 .. Len(t)
    BY <1>3 DEF IsList, At
<1>6. /\ p2[l] = r /\ p2[m] = << >> /\ p2[FreeRow] = p[FreeRow]
      /\ \A u \in Lists \ {l, m} : p2[u] = p[u]
    BY <1>2, <1>3 DEF Rearranged, Rows
<1>7. Placed(p2, s.made)
    BY <1>1, <1>2, <1>3, RowsMove
<1> HIDE DEF p2
<1>8. /\ s2.free = s.free /\ s2.made = s.made /\ s2.live = s.live /\ s2.segments = s.segments
      /\ s2.val = s.val
      /\ \A y \in Nodes : s2.next[y] =
             IF y = At(q, b) THEN t[1] ELSE IF y = t[Len(t)] THEN At(q, b + 1) ELSE s.next[y]
      /\ \A y \in Nodes : s2.prev[y] =
             IF y = At(q, b + 1) THEN t[Len(t)] ELSE IF y = t[1] THEN At(q, b) ELSE s.prev[y]
    BY <1>5 DEF Joins
<1>9. /\ \A u \in Lists : s2.head[u] =
             IF u = m THEN Null ELSE IF u = l /\ At(q, b) = Null THEN t[1] ELSE s.head[u]
      /\ \A u \in Lists : s2.tail[u] =
             IF u = m THEN Null ELSE IF u = l /\ At(q, b + 1) = Null THEN t[Len(t)] ELSE s.tail[u]
      /\ \A u \in Lists : s2.size[u] =
             IF u = m THEN 0 ELSE IF u = l THEN Len(q) + Len(t) ELSE s.size[u]
    BY <1>2, <1>3, <1>5 DEF Joins
<1>10. /\ NoNodeTwice(q) /\ NoNodeTwice(t)
       /\ \A i \in 1 .. Len(q), j \in 1 .. Len(t) : q[i] # t[j]
       /\ \A u \in Lists \ {l, m} : \A i \in 1 .. Len(p[u]) :
              /\ \A j \in 1 .. Len(q) : p[u][i] # q[j]
              /\ \A j \in 1 .. Len(t) : p[u][i] # t[j]
    <2>1. NoNodeTwice(q) /\ NoNodeTwice(t)
        BY <1>1, <1>2, <1>3, OnePlace, SMTT(30) DEF NoNodeTwice
    <2>2. ASSUME NEW i \in 1 .. Len(q), NEW j \in 1 .. Len(t) PROVE q[i] # t[j]
        BY <1>1, <1>2, <1>3, OnePlace
    <2>3. ASSUME NEW u \in Lists \ {l, m}, NEW i \in 1 .. Len(p[u])
          PROVE  /\ \A j \in 1 .. Len(q) : p[u][i] # q[j]
                 /\ \A j \in 1 .. Len(t) : p[u][i] # t[j]
        <3>1. u \in Rows
            BY DEF Rows
        <3> QED
            BY <1>1, <1>2, <1>3, <3>1, OnePlace
    <2> QED
        BY <2>1, <2>2, <2>3
<1>11. IsSplice(r, q, b, t, Nodes)
    BY <1>2, <1>3, SpliceProperties
<1>12. IsSplice(d, sq[l], b, sq[m], V)
    BY <1>4, SpliceProperties
<1>13. b \in 0 .. Len(q)
    OBVIOUS
<1> HIDE DEF r, d, q, t
<1>14. /\ d \in Seq(V) /\ sq2 \in [Lists -> Seq(V)] /\ sq2[l] = d /\ sq2[m] = << >>
       /\ \A u \in Lists \ {l, m} : sq2[u] = sq[u]
    <2>1. d \in Seq(V) /\ << >> \in Seq(V)
        BY <1>12 DEF IsSplice
    <2> QED
        BY <1>1, <2>1
<1>15. Linked(s2.next, s2.prev, r)
    <2>1. LinksInto(s.next, s.prev, q, b, t, s2.next, s2.prev)
        BY <1>8 DEF LinksInto
    <2>2. Linked(s.next, s.prev, q)
        BY <1>2 DEF IsList
    <2>3. ASSUME NEW i \in 1 .. (Len(t) - 1) PROVE s.next[t[i]] = t[i + 1] /\ s.prev[t[i + 1]] = t[i]
        <3>1. i \in 1 .. Len(t) /\ i + 1 \in 1 .. Len(t) /\ (i + 1) - 1 = i
            BY <1>3
        <3>2. s.next[t[i]] = At(t, i + 1) /\ s.prev[t[i + 1]] = At(t, (i + 1) - 1)
            BY <1>3, <3>1 DEF IsList, Linked
        <3> QED
            BY <3>1, <3>2 DEF At
    <2> QED
        BY <1>2, <1>3, <1>10, <1>11, <1>13, <2>1, <2>2, <2>3, LinkedSplice
<1>16. IsList(s2, l, r)
    <2>1. /\ s2.head[l] = IF At(q, b) = Null THEN t[1] ELSE s.head[l]
          /\ s2.tail[l] = IF At(q, b + 1) = Null THEN t[Len(t)] ELSE s.tail[l]
          /\ s2.size[l] = Len(q) + Len(t)
        BY <1>9
    <2> QED
        BY <1>2, <1>3, <1>11, <1>13, <1>15, <2>1, IsListSplice
<1>17. Shows(s2, r, d)
    <2>1. \A i \in 1 .. Len(q) : s2.val[q[i]] = s.val[q[i]]
        BY <1>8
    <2>2. \A i \in 1 .. Len(t) : s2.val[t[i]] = sq[m][i]
        BY <1>3, <1>8 DEF Shows
    <2> QED
        BY <1>2, <1>3, <1>4, <1>11, <1>12, <1>13, <2>1, <2>2, ShowsSplice
<1>18. IsList(s2, m, << >>) /\ Shows(s2, << >>, << >>)
    BY <1>9, EmptyList
<1>19. ASSUME NEW u \in Lists \ {l, m} PROVE IsList(s2, u, p[u]) /\ Shows(s2, p[u], sq[u])
    <2>1. IsList(s, u, p[u]) /\ Shows(s, p[u], sq[u]) /\ p[u] \in Seq(Nodes)
        BY ListsInHolds
    <2>2. s2.head[u] = s.head[u] /\ s2.tail[u] = s.tail[u] /\ s2.size[u] = s.size[u]
        BY <1>9
    <2>3. ASSUME NEW i \in 1 .. Len(p[u])
          PROVE  /\ s2.next[p[u][i]] = s.next[p[u][i]] /\ s2.prev[p[u][i]] = s.prev[p[u][i]]
                 /\ s2.val[p[u][i]] = s.val[p[u][i]]
        <3> DEFINE y == p[u][i]
        <3>1. /\ y \in Nodes /\ \A j \in 1 .. Len(q) : y # q[j]
              /\ y # t[1] /\ y # t[Len(t)]
            BY <1>5, <1>10, <2>1
        <3> HIDE DEF y
        <3>2. y # At(q, b) /\ y # At(q, b + 1)
            BY <3>1 DEF At
        <3>3. s2.next[y] = s.next[y] /\ s2.prev[y] = s.prev[y] /\ s2.val[y] = s.val[y]
            BY <1>8, <3>1, <3>2
        <3> QED
            BY <3>3 DEF y
    <2> QED
        BY <2>1, <2>2, <2>3, UntouchedList
<1>20. LaidOut(s2, V, p2, sq2)
    <2>1. ASSUME NEW u \in Lists PROVE IsList(s2, u, p2[u]) /\ Shows(s2, p2[u], sq2[u])
        <3>1. CASE u = l
            BY <1>6, <1>14, <1>16, <1>17, <3>1
        <3>2. CASE u = m
            BY <1>6, <1>14, <1>18, <3>2
        <3>3. CASE u \notin {l, m}
            BY <1>6, <1>14, <1>19, <3>3
        <3> QED
            BY <3>1, <3>2, <3>3
    <2> HIDE DEF sq2
    <2> QED
        BY <1>1, <1>6, <1>7, <1>8, <1>14, <2>1 DEF LaidOut
<1> QED
    BY <1>20 DEF p2, d, r, q, t

(* Node x of l goes back to the pool. *)
Removes(s, s2, l, x) ==
    LET p == s.prev[x]
        n == s.next[x]
    IN  /\ s2.free = Append(s.free, x) /\ s2.made = s.made /\ s2.live = s.live - 1
        /\ s2.segments = s.segments
        /\ \A y \in Nodes \ {x} : /\ s2.next[y] = IF y = p THEN n ELSE s.next[y]
                                  /\ s2.prev[y] = IF y = n THEN p ELSE s.prev[y]
                                  /\ s2.val[y] = s.val[y]
        /\ s2.head = [s.head EXCEPT ![l] = IF p = Null THEN n ELSE @]
        /\ s2.tail = [s.tail EXCEPT ![l] = IF n = Null THEN p ELSE @]
        /\ s2.size = [s.size EXCEPT ![l] = @ - 1]

LEMMA RemovesHold ==
    ASSUME NEW s, NEW V, NEW p, NEW sq, LaidOut(s, V, p, sq), Null \notin Nodes,
           NEW l \in Lists, NEW k \in 0 .. Len(p[l]) - 1, NEW s2 \in NodeRecords(V),
           Removes(s, s2, l, p[l][k + 1])
    PROVE  LaidOut(s2, V, Rearranged(p, l, Cut(p[l], k), FreeRow, Append(s.free, p[l][k + 1])),
                 [sq EXCEPT ![l] = Cut(sq[l], k)])
<1> DEFINE q == p[l]
           x == q[k + 1]
           r == Cut(q, k)
           p2 == Rearranged(p, l, r, FreeRow, Append(s.free, x))
           d == Cut(sq[l], k)
           sq2 == [sq EXCEPT ![l] = d]
<1>1. /\ s \in NodeRecords(V) /\ Placed(p, s.made) /\ p[FreeRow] = s.free /\ s.made \in Nat
      /\ sq \in [Lists -> Seq(V)] /\ s.made <= MaxNodes /\ s.free \in Seq(Nodes)
      /\ s.live = s.made - Len(s.free) /\ s.made <= s.segments * SegmentCapacity
    BY DEF LaidOut, NodeRecords
<1>2. /\ l \in Rows /\ l # FreeRow /\ q \in Seq(Nodes) /\ Len(q) \in Nat /\ IsList(s, l, q)
      /\ Shows(s, q, sq[l]) /\ s.size[l] = Len(q)
    BY ListsInHolds
<1>3. k \in 0 .. Len(q) - 1 /\ k + 1 \in 1 .. Len(q) /\ x \in Nodes /\ k \in Nat
    BY <1>2
<1>4. sq[l] \in Seq(V) /\ k \in 0 .. Len(sq[l]) - 1
    BY <1>1, <1>2, <1>3 DEF Shows
<1>5. s.prev[x] = At(q, k) /\ s.next[x] = At(q, k + 2)
    <2>1. s.prev[x] = At(q, (k + 1) - 1) /\ s.next[x] = At(q, (k + 1) + 1)
        BY <1>2, <1>3 DEF IsList, Linked
    <2>2. (k + 1) - 1 = k /\ (k + 1) + 1 = k + 2
        BY <1>3
    <2> HIDE DEF x, q
    <2> QED
        BY <2>1, <2>2
<1>6. /\ p2[l] = r /\ p2[FreeRow] = Append(s.free, x) /\ \A u \in Lists \ {l} : p2[u] = p[u]
    BY <1>2, FreeRowIsNoList DEF Rearranged, Rows
<1>7. Placed(p2, s.made)
    <2>1. FreeRow \in Rows
        BY DEF Rows
    <2>2. Placed(Rearranged(p, l, Cut(p[l], k), FreeRow, Append(p[FreeRow], p[l][k + 1])), s.made)
        BY <1>1, <1>2, <2>1, SlotFreed
    <2> QED
        BY <1>1, <2>2
<1>8. /\ NoNodeTwice(q) /\ \A i \in 1 .. Len(q) : i # k + 1 => q[i] # x
      /\ \A u \in Lists \ {l} : \A i \in 1 .. Len(p[u]) : \A j \in 1 .. Len(q) : p[u][i] # q[j]
    <2>1. NoNodeTwice(q)
        BY <1>1, <1>2, OnePlace DEF NoNodeTwice
    <2>2. \A i \in 1 .. Len(q) : i # k + 1 => q[i] # x
        BY <1>3, <2>1 DEF NoNodeTwice
    <2>3. ASSUME NEW u \in Lists \ {l}, NEW i \in 1 .. Len(p[u]), NEW j \in 1 .. Len(q)
          PROVE  p[u][i] # q[j]
        <3>1. u \in Rows
            BY DEF Rows
        <3> QED
            BY <1>1, <1>2, <3>1, OnePlace
    <2> QED
        BY <2>1, <2>2, <2>3
<1> HIDE DEF p2
<1>9. /\ s2.free = Append(s.free, x) /\ s2.made = s.made /\ s2.live = s.live - 1
      /\ s2.segments = s.segments
      /\ \A y \in Nodes \ {x} : /\ s2.next[y] = IF y = At(q, k) THEN At(q, k + 2) ELSE s.next[y]
                                /\ s2.prev[y] = IF y = At(q, k + 2) THEN At(q, k) ELSE s.prev[y]
                                /\ s2.val[y] = s.val[y]
      /\ s2.head = [s.head EXCEPT ![l] = IF At(q, k) = Null THEN At(q, k + 2) ELSE @]
      /\ s2.tail = [s.tail EXCEPT ![l] = IF At(q, k + 2) = Null THEN At(q, k) ELSE @]
      /\ s2.size = [s.size EXCEPT ![l] = @ - 1]
    BY <1>5 DEF Removes
<1>10. /\ s.head \in [Lists -> Links] /\ s.tail \in [Lists -> Links] /\ s.size \in [Lists -> Nat]
    BY <1>1 DEF NodeRecords
<1>11. IsCut(r, q, k, Nodes)
    BY <1>2, <1>3, CutProperties
<1>12. IsCut(d, sq[l], k, V)
    BY <1>4, CutProperties
<1> HIDE DEF r, d, q, x
<1>13. /\ d \in Seq(V) /\ sq2 \in [Lists -> Seq(V)] /\ sq2[l] = d
       /\ \A u \in Lists \ {l} : sq2[u] = sq[u]
    BY <1>1, <1>12 DEF IsCut
<1>14. Linked(s2.next, s2.prev, r)
    <2>1. LinksWithout(s.next, s.prev, q, k, s2.next, s2.prev)
        BY <1>9 DEF LinksWithout, x
    <2>2. Linked(s.next, s.prev, q)
        BY <1>2 DEF IsList
    <2> QED
        BY <1>2, <1>3, <1>8, <1>11, <2>1, <2>2, LinkedCut
<1>15. IsList(s2, l, r)
    <2>1. /\ s2.head[l] = IF At(q, k) = Null THEN At(q, k + 2) ELSE s.head[l]
          /\ s2.tail[l] = IF At(q, k + 2) = Null THEN At(q, k) ELSE s.tail[l]
          /\ s2.size[l] = Len(q) - 1
        BY <1>2, <1>9, <1>10
    <2> QED
        BY <1>2, <1>3, <1>11, <1>14, <2>1, IsListCut
<1>16. Shows(s2, r, d)
    <2>1. \A i \in 1 .. Len(q) : i # k + 1 => s2.val[q[i]] = s.val[q[i]]
        BY <1>2, <1>8, <1>9
    <2> QED
        BY <1>2, <1>3, <1>4, <1>11, <1>12, <2>1, ShowsCut
<1>17. ASSUME NEW u \in Lists \ {l} PROVE IsList(s2, u, p[u]) /\ Shows(s2, p[u], sq[u])
    <2>1. IsList(s, u, p[u]) /\ Shows(s, p[u], sq[u]) /\ p[u] \in Seq(Nodes)
        BY ListsInHolds
    <2>2. s2.head[u] = s.head[u] /\ s2.tail[u] = s.tail[u] /\ s2.size[u] = s.size[u]
        BY <1>9, <1>10
    <2>3. ASSUME NEW i \in 1 .. Len(p[u])
          PROVE  /\ s2.next[p[u][i]] = s.next[p[u][i]] /\ s2.prev[p[u][i]] = s.prev[p[u][i]]
                 /\ s2.val[p[u][i]] = s.val[p[u][i]]
        <3> DEFINE y == p[u][i]
        <3>1. y \in Nodes /\ y # x /\ \A j \in 1 .. Len(q) : y # q[j]
            BY <1>3, <1>8, <2>1 DEF x
        <3> HIDE DEF y
        <3>2. y # At(q, k) /\ y # At(q, k + 2)
            BY <3>1 DEF At
        <3>3. s2.next[y] = s.next[y] /\ s2.prev[y] = s.prev[y] /\ s2.val[y] = s.val[y]
            BY <1>9, <3>1, <3>2
        <3> QED
            BY <3>3 DEF y
    <2> QED
        BY <2>1, <2>2, <2>3, UntouchedList
<1>18. s2.live = s2.made - Len(s2.free)
    <2>1. Len(Append(s.free, x)) = Len(s.free) + 1 /\ Len(s.free) \in Nat
        BY <1>1, <1>3, AppendProperties
    <2> QED
        BY <1>1, <1>9, <2>1
<1>19. LaidOut(s2, V, p2, sq2)
    <2>1. ASSUME NEW u \in Lists PROVE IsList(s2, u, p2[u]) /\ Shows(s2, p2[u], sq2[u])
        <3>1. CASE u = l
            BY <1>6, <1>13, <1>15, <1>16, <3>1
        <3>2. CASE u # l
            BY <1>6, <1>13, <1>17, <3>2
        <3> QED
            BY <3>1, <3>2
    <2> HIDE DEF sq2
    <2> QED
        BY <1>1, <1>6, <1>7, <1>9, <1>13, <1>18, <2>1 DEF LaidOut
<1> QED
    BY <1>19 DEF p2, d, r, q, x

(* The nodes q of l go back to the pool. *)
Clears(s, s2, l, q) ==
    /\ s2.free = Splice(s.free, Len(s.free), q) /\ s2.made = s.made /\ s2.live = s.live - Len(q)
    /\ s2.segments = s.segments
    /\ \A y \in Nodes : (\A i \in 1 .. Len(q) : y # q[i]) =>
           s2.next[y] = s.next[y] /\ s2.prev[y] = s.prev[y] /\ s2.val[y] = s.val[y]
    /\ s2.head = [s.head EXCEPT ![l] = Null]
    /\ s2.tail = [s.tail EXCEPT ![l] = Null]
    /\ s2.size = [s.size EXCEPT ![l] = 0]

LEMMA ClearsHold ==
    ASSUME NEW s, NEW V, NEW p, NEW sq, LaidOut(s, V, p, sq), Null \notin Nodes,
           NEW l \in Lists, NEW s2 \in NodeRecords(V), Clears(s, s2, l, p[l])
    PROVE  LaidOut(s2, V, Rearranged(p, FreeRow, Splice(s.free, Len(s.free), p[l]), l, << >>),
                 [sq EXCEPT ![l] = << >>])
<1> DEFINE q == p[l]
           p2 == Rearranged(p, FreeRow, Splice(s.free, Len(s.free), q), l, << >>)
           sq2 == [sq EXCEPT ![l] = << >>]
<1>1. /\ s \in NodeRecords(V) /\ Placed(p, s.made) /\ p[FreeRow] = s.free /\ s.made \in Nat
      /\ sq \in [Lists -> Seq(V)] /\ s.made <= MaxNodes /\ s.free \in Seq(Nodes)
      /\ s.live = s.made - Len(s.free) /\ s.made <= s.segments * SegmentCapacity
      /\ Len(s.free) \in Nat /\ FreeRow \in Rows
    BY DEF LaidOut, NodeRecords, Rows
<1>2. /\ l \in Rows /\ l # FreeRow /\ q \in Seq(Nodes) /\ Len(q) \in Nat
    BY ListsInHolds
<1>3. p2[l] = << >> /\ p2[FreeRow] = Splice(s.free, Len(s.free), q) /\ \A u \in Lists \ {l} : p2[u] = p[u]
    BY <1>2, FreeRowIsNoList DEF Rearranged, Rows
<1>4. Placed(p2, s.made)
    <2>1. Len(s.free) \in 0 .. Len(p[FreeRow])
        BY <1>1
    <2>2. Placed(Rearranged(p, FreeRow, Splice(p[FreeRow], Len(s.free), p[l]), l, << >>), s.made)
        BY <1>1, <1>2, <2>1, RowsMove
    <2> QED
        BY <1>1, <2>2
<1>5. \A u \in Lists \ {l} : \A i \in 1 .. Len(p[u]) : \A j \in 1 .. Len(q) : p[u][i] # q[j]
    <2>1. ASSUME NEW u \in Lists \ {l}, NEW i \in 1 .. Len(p[u]), NEW j \in 1 .. Len(q)
          PROVE  p[u][i] # q[j]
        <3>1. u \in Rows
            BY DEF Rows
        <3> QED
            BY <1>1, <1>2, <3>1, OnePlace
    <2> QED
        BY <2>1
<1> HIDE DEF p2
<1>6. /\ s2.free = Splice(s.free, Len(s.free), q) /\ s2.made = s.made /\ s2.live = s.live - Len(q)
      /\ s2.segments = s.segments
      /\ \A y \in Nodes : (\A i \in 1 .. Len(q) : y # q[i]) =>
             s2.next[y] = s.next[y] /\ s2.prev[y] = s.prev[y] /\ s2.val[y] = s.val[y]
      /\ s2.head = [s.head EXCEPT ![l] = Null]
      /\ s2.tail = [s.tail EXCEPT ![l] = Null]
      /\ s2.size = [s.size EXCEPT ![l] = 0]
    BY DEF Clears
<1>7. /\ s.head \in [Lists -> Links] /\ s.tail \in [Lists -> Links] /\ s.size \in [Lists -> Nat]
    BY <1>1 DEF NodeRecords
<1>8. Len(Splice(s.free, Len(s.free), q)) = Len(s.free) + Len(q)
    <2>1. Len(s.free) \in 0 .. Len(s.free)
        BY <1>1
    <2>2. IsSplice(Splice(s.free, Len(s.free), q), s.free, Len(s.free), q, Nodes)
        BY <1>1, <1>2, <2>1, SpliceProperties
    <2> QED
        BY <2>2 DEF IsSplice
<1>9. IsList(s2, l, << >>) /\ Shows(s2, << >>, << >>)
    BY <1>6, <1>7, EmptyList
<1>10. sq2 \in [Lists -> Seq(V)] /\ sq2[l] = << >> /\ \A u \in Lists \ {l} : sq2[u] = sq[u]
    <2>1. << >> \in Seq(V)
        OBVIOUS
    <2> QED
        BY <1>1, <2>1
<1> HIDE DEF q
<1>11. ASSUME NEW u \in Lists \ {l} PROVE IsList(s2, u, p[u]) /\ Shows(s2, p[u], sq[u])
    <2>1. IsList(s, u, p[u]) /\ Shows(s, p[u], sq[u]) /\ p[u] \in Seq(Nodes)
        BY ListsInHolds
    <2>2. s2.head[u] = s.head[u] /\ s2.tail[u] = s.tail[u] /\ s2.size[u] = s.size[u]
        BY <1>6, <1>7
    <2>3. ASSUME NEW i \in 1 .. Len(p[u])
          PROVE  /\ s2.next[p[u][i]] = s.next[p[u][i]] /\ s2.prev[p[u][i]] = s.prev[p[u][i]]
                 /\ s2.val[p[u][i]] = s.val[p[u][i]]
        BY <1>5, <1>6, <2>1
    <2> QED
        BY <2>1, <2>2, <2>3, UntouchedList
<1>12. LaidOut(s2, V, p2, sq2)
    <2>1. ASSUME NEW u \in Lists PROVE IsList(s2, u, p2[u]) /\ Shows(s2, p2[u], sq2[u])
        <3>1. CASE u = l
            BY <1>3, <1>9, <1>10, <3>1
        <3>2. CASE u # l
            BY <1>3, <1>10, <1>11, <3>2
        <3> QED
            BY <3>1, <3>2
    <2>2. s2.live = s2.made - Len(s2.free)
        BY <1>1, <1>2, <1>6, <1>8
    <2> HIDE DEF sq2
    <2> QED
        BY <1>1, <1>3, <1>4, <1>6, <1>10, <2>1, <2>2 DEF LaidOut
<1> QED
    BY <1>12 DEF p2, q

-----------------------------------------------------------------------------
(* The operators, field by field                                           *)

(* c is s with a new node that holds v. *)
HasNew(V, s, c, v) ==
    LET x == NextSlot(s)
    IN  /\ c \in NodeRecords(V)
        /\ c.free = PopFree(s) /\ c.made = MadeThen(s) /\ c.live = s.live + 1
        /\ c.made <= c.segments * SegmentCapacity
        /\ c.prev = [s.prev EXCEPT ![x] = Null] /\ c.next = [s.next EXCEPT ![x] = Null]
        /\ c.val = [s.val EXCEPT ![x] = v]
        /\ c.head = s.head /\ c.tail = s.tail /\ c.size = s.size

LEMMA CreateFields ==
    ASSUME NEW V, Null \in V, NEW s \in NodeRecords(V), NEW v \in V, HasRoom(s),
           s.made <= s.segments * SegmentCapacity
    PROVE  HasNew(V, s, Create(s, v), v)
<1> DEFINE x == NextSlot(s)
           a == PopFree(s)
           g == IF s.free = << >> /\ s.made = s.segments * SegmentCapacity THEN s.segments + 1
                ELSE s.segments
           p == [s.prev EXCEPT ![x] = Null]
           n == [s.next EXCEPT ![x] = Null]
           w == [s.val EXCEPT ![x] = v]
           m == MadeThen(s)
<1>1. /\ x \in Nodes /\ a \in Seq(Nodes) /\ m \in Nat /\ g \in Nat /\ s.live + 1 \in Int
      /\ p \in [Nodes -> Links] /\ n \in [Nodes -> Links] /\ w \in [Nodes -> V]
    <2>1. x \in Nodes
        BY DEF HasRoom
    <2>2. a \in Seq(Nodes)
        <3>1. s.free \in Seq(Nodes)
            BY DEF NodeRecords
        <3>2. CASE s.free # << >>
            <4>1. a = SubSeq(s.free, 1, Len(s.free) - 1) /\ Len(s.free) \in Nat \ {0}
                BY <3>1, <3>2 DEF PopFree, Front
            <4>2. \A i \in 1 .. (Len(s.free) - 1) : s.free[i] \in Nodes
                BY <3>1, <4>1
            <4> QED
                BY <3>1, <4>1, <4>2, SubSeqProperties
        <3>3. CASE s.free = << >>
            BY <3>3 DEF PopFree
        <3> QED
            BY <3>2, <3>3
    <2>3. m \in Nat /\ g \in Nat /\ s.live + 1 \in Int
        BY DEF NodeRecords, MadeThen
    <2>4. p \in [Nodes -> Links] /\ n \in [Nodes -> Links] /\ w \in [Nodes -> V]
        BY DEF NodeRecords, Links
    <2> QED
        BY <2>1, <2>2, <2>3, <2>4
<1>2. m <= g * SegmentCapacity
    <2>1. s.made \in Nat /\ s.segments \in Nat /\ SegmentCapacity \in Nat \ {0}
        BY NodesAssumption DEF NodeRecords
    <2>2. CASE s.free # << >>
        BY <2>1, <2>2 DEF MadeThen
    <2>3. CASE s.free = << >> /\ s.made = s.segments * SegmentCapacity
        <3>1. m = s.made + 1 /\ g = s.segments + 1
            BY <2>3 DEF MadeThen
        <3>2. (s.segments + 1) * SegmentCapacity = s.segments * SegmentCapacity + SegmentCapacity
            BY <2>1
        <3> HIDE DEF m, g
        <3> QED
            BY <2>1, <2>3, <3>1, <3>2
    <2>4. CASE s.free = << >> /\ s.made # s.segments * SegmentCapacity
        <3>1. m = s.made + 1 /\ g = s.segments /\ s.segments * SegmentCapacity \in Nat
            BY <2>1, <2>4 DEF MadeThen
        <3> HIDE DEF m, g
        <3> QED
            BY <2>1, <2>4, <3>1
    <2> QED
        BY <2>2, <2>3, <2>4
<1>3. Create(s, v) = [s EXCEPT !.free = a, !.made = m, !.segments = g, !.live = s.live + 1,
                               !.prev = p, !.next = n, !.val = w]
    BY DEF Create, MadeThen, NodeRecords
<1> HIDE DEF a, g, p, n, w, m, x
<1>4. /\ Create(s, v) \in NodeRecords(V)
      /\ Create(s, v).free = a /\ Create(s, v).made = m /\ Create(s, v).segments = g
      /\ Create(s, v).live = s.live + 1 /\ Create(s, v).prev = p /\ Create(s, v).next = n
      /\ Create(s, v).val = w
      /\ Create(s, v).head = s.head /\ Create(s, v).tail = s.tail /\ Create(s, v).size = s.size
    BY <1>1, <1>3, ZenonT(30) DEF NodeRecords
<1> QED
    BY <1>2, <1>4 DEF HasNew, a, g, p, n, w, m, x

(* Records that differ in their links and lists only. *)
SamePool(s, s2) ==
    /\ s2.free = s.free /\ s2.made = s.made /\ s2.segments = s.segments /\ s2.live = s.live
    /\ s2.val = s.val

SameEnds(s, s2) == s2.head = s.head /\ s2.tail = s.tail /\ s2.size = s.size

NextIsSet(V, s, c, p, x) ==
    /\ c \in NodeRecords(V) /\ SamePool(s, c) /\ SameEnds(s, c) /\ c.prev = s.prev
    /\ \A y \in Nodes : c.next[y] = IF y = p /\ p # Null THEN x ELSE s.next[y]

PrevIsSet(V, s, c, p, x) ==
    /\ c \in NodeRecords(V) /\ SamePool(s, c) /\ SameEnds(s, c) /\ c.next = s.next
    /\ \A y \in Nodes : c.prev[y] = IF y = p /\ p # Null THEN x ELSE s.prev[y]

LEMMA SetNextFields ==
    ASSUME NEW V, NEW s \in NodeRecords(V), NEW p \in Links, NEW x \in Links
    PROVE  NextIsSet(V, s, SetNext(s, p, x), p, x)
<1>1. CASE p = Null
    BY <1>1 DEF SetNext, SamePool, SameEnds, NextIsSet
<1>2. CASE p # Null
    <2> DEFINE n == [s.next EXCEPT ![p] = x]
    <2>1. p \in Nodes /\ n \in [Nodes -> Links]
        BY <1>2 DEF Links, NodeRecords
    <2>2. \A y \in Nodes : n[y] = IF y = p THEN x ELSE s.next[y]
        BY <2>1 DEF NodeRecords
    <2>3. SetNext(s, p, x) = [s EXCEPT !.next = n]
        BY <1>2 DEF SetNext, NodeRecords
    <2> HIDE DEF n
    <2> QED
        BY <1>2, <2>1, <2>2, <2>3 DEF NodeRecords, SamePool, SameEnds, NextIsSet
<1> QED
    BY <1>1, <1>2

LEMMA SetPrevFields ==
    ASSUME NEW V, NEW s \in NodeRecords(V), NEW p \in Links, NEW x \in Links
    PROVE  PrevIsSet(V, s, SetPrev(s, p, x), p, x)
<1>1. CASE p = Null
    BY <1>1 DEF SetPrev, SamePool, SameEnds, PrevIsSet
<1>2. CASE p # Null
    <2> DEFINE n == [s.prev EXCEPT ![p] = x]
    <2>1. p \in Nodes /\ n \in [Nodes -> Links]
        BY <1>2 DEF Links, NodeRecords
    <2>2. \A y \in Nodes : n[y] = IF y = p THEN x ELSE s.prev[y]
        BY <2>1 DEF NodeRecords
    <2>3. SetPrev(s, p, x) = [s EXCEPT !.prev = n]
        BY <1>2 DEF SetPrev, NodeRecords
    <2> HIDE DEF n
    <2> QED
        BY <1>2, <2>1, <2>2, <2>3 DEF NodeRecords, SamePool, SameEnds, PrevIsSet
<1> QED
    BY <1>1, <1>2

IsLinked(V, s, c, l, p, first, last, n) ==
    /\ c \in NodeRecords(V) /\ SamePool(s, c) /\ c.size = s.size
    /\ c.next = [y \in Nodes |-> IF y = p THEN first ELSE IF y = last THEN n ELSE s.next[y]]
    /\ c.prev = [y \in Nodes |-> IF y = n THEN last ELSE IF y = first THEN p ELSE s.prev[y]]
    /\ c.head = [s.head EXCEPT ![l] = IF p = Null THEN first ELSE @]
    /\ c.tail = [s.tail EXCEPT ![l] = IF n = Null THEN last ELSE @]

LEMMA LinkFields ==
    ASSUME NEW V, NEW s \in NodeRecords(V), Null \notin Nodes, NEW l \in Lists, NEW p \in Links,
           NEW n \in Links, NEW first \in Nodes, NEW last \in Nodes, p # last, n # first
    PROVE  IsLinked(V, s, Link(s, l, p, first, last, n), l, p, first, last, n)
<1> DEFINE one == SetNext(s, p, first)
           two == SetPrev(one, n, last)
           a == [two.prev EXCEPT ![first] = p]
           b == [two.next EXCEPT ![last] = n]
           h == [two.head EXCEPT ![l] = IF p = Null THEN first ELSE @]
           t == [two.tail EXCEPT ![l] = IF n = Null THEN last ELSE @]
           c == Link(s, l, p, first, last, n)
<1>1. first \in Links /\ last \in Links
    BY DEF Links
<1>2. /\ one \in NodeRecords(V) /\ SamePool(s, one) /\ SameEnds(s, one) /\ one.prev = s.prev
      /\ \A y \in Nodes : one.next[y] = IF y = p /\ p # Null THEN first ELSE s.next[y]
    <2>1. NextIsSet(V, s, one, p, first)
        BY <1>1, SetNextFields
    <2> HIDE DEF one
    <2> QED
        BY <2>1 DEF NextIsSet
<1> HIDE DEF one
<1>3. /\ two \in NodeRecords(V) /\ SamePool(one, two) /\ SameEnds(one, two) /\ two.next = one.next
      /\ \A y \in Nodes : two.prev[y] = IF y = n /\ n # Null THEN last ELSE one.prev[y]
    <2>1. one \in NodeRecords(V) /\ last \in Links
        BY <1>1, <1>2
    <2>2. PrevIsSet(V, one, two, n, last)
        BY <2>1, SetPrevFields
    <2> HIDE DEF two
    <2> QED
        BY <2>2 DEF PrevIsSet
<1>4. c = [two EXCEPT !.prev[first] = p, !.next[last] = n,
                      !.head[l] = IF p = Null THEN first ELSE @,
                      !.tail[l] = IF n = Null THEN last ELSE @]
    BY DEF Link, one
<1> HIDE DEF two
<1>5. /\ a \in [Nodes -> Links] /\ b \in [Nodes -> Links] /\ h \in [Lists -> Links]
      /\ t \in [Lists -> Links]
    BY <1>1, <1>3 DEF NodeRecords
<1>6. c = [two EXCEPT !.prev = a, !.next = b, !.head = h, !.tail = t]
    <2> HIDE DEF c
    <2> QED
        BY <1>3, <1>4 DEF NodeRecords
<1> HIDE DEF c
<1>7. \A y \in Nodes : b[y] = IF y = p THEN first ELSE IF y = last THEN n ELSE s.next[y]
    <2>1. two.next \in [Nodes -> Links]
        BY <1>3 DEF NodeRecords
    <2>2. \A y \in Nodes : b[y] = IF y = last THEN n ELSE two.next[y]
        BY <2>1
    <2> HIDE DEF b
    <2> QED
        BY <1>2, <1>3, <2>2
<1>8. \A y \in Nodes : a[y] = IF y = n THEN last ELSE IF y = first THEN p ELSE s.prev[y]
    <2>1. two.prev \in [Nodes -> Links]
        BY <1>3 DEF NodeRecords
    <2>2. \A y \in Nodes : a[y] = IF y = first THEN p ELSE two.prev[y]
        BY <2>1
    <2> HIDE DEF a
    <2> QED
        BY <1>2, <1>3, <2>2
<1>9. /\ h = [s.head EXCEPT ![l] = IF p = Null THEN first ELSE @]
      /\ t = [s.tail EXCEPT ![l] = IF n = Null THEN last ELSE @]
    BY <1>2, <1>3 DEF SameEnds
<1> HIDE DEF a, b, h, t
<1>10. /\ c \in NodeRecords(V) /\ c.prev = a /\ c.next = b /\ c.head = h /\ c.tail = t
       /\ c.size = two.size /\ SamePool(two, c)
    BY <1>3, <1>5, <1>6 DEF NodeRecords, SamePool
<1>11. SamePool(s, c) /\ c.size = s.size
    BY <1>2, <1>3, <1>10 DEF SamePool, SameEnds
<1>12. a = [y \in Nodes |-> a[y]] /\ b = [y \in Nodes |-> b[y]]
    BY <1>5
<1> QED
    BY <1>7, <1>8, <1>9, <1>10, <1>11, <1>12 DEF IsLinked, c

-----------------------------------------------------------------------------
(* Calls that change the lists of a pool: the nodes they make, link and    *)
(* recycle are spliced into the rows, or cut out of them.                  *)

(* A new node between p and n. *)
NodeBetween(s, l, p, n, v) ==
    [Link(Create(s, v), l, p, NextSlot(s), NextSlot(s), n) EXCEPT !.size[l] = @ + 1]

(* What an insertion needs of the links it is made between. *)
MayInsert(V, s, l, p, n, v) ==
    /\ s \in NodeRecords(V) /\ Null \in V /\ v \in V /\ HasRoom(s) /\ Null \notin Nodes
    /\ s.made <= s.segments * SegmentCapacity
    /\ l \in Lists /\ p \in Links \ {NextSlot(s)} /\ n \in Links \ {NextSlot(s)}

LEMMA NodeBetweenInserts ==
    ASSUME NEW V, NEW s, NEW l, NEW p, NEW n, NEW v, MayInsert(V, s, l, p, n, v)
    PROVE  /\ NodeBetween(s, l, p, n, v) \in NodeRecords(V)
           /\ Inserts(s, NodeBetween(s, l, p, n, v), l, p, n, v)
<1> DEFINE x == NextSlot(s)
           c == Create(s, v)
           k == Link(c, l, p, x, x, n)
           z == [k.size EXCEPT ![l] = @ + 1]
           d == NodeBetween(s, l, p, n, v)
<1>1. /\ s \in NodeRecords(V) /\ Null \in V /\ v \in V /\ HasRoom(s) /\ Null \notin Nodes
      /\ s.made <= s.segments * SegmentCapacity
      /\ l \in Lists /\ p \in Links /\ n \in Links /\ p # x /\ n # x /\ x \in Nodes
    BY DEF MayInsert, HasRoom
<1>2a. HasNew(V, s, c, v)
    BY <1>1, CreateFields
<1>2. /\ c \in NodeRecords(V)
      /\ c.free = PopFree(s) /\ c.made = MadeThen(s) /\ c.live = s.live + 1
      /\ c.made <= c.segments * SegmentCapacity
      /\ c.prev = [s.prev EXCEPT ![x] = Null] /\ c.next = [s.next EXCEPT ![x] = Null]
      /\ c.val = [s.val EXCEPT ![x] = v]
      /\ c.head = s.head /\ c.tail = s.tail /\ c.size = s.size
    BY <1>2a DEF HasNew, x, c
<1>3. d = [k EXCEPT !.size[l] = @ + 1]
    BY DEF NodeBetween
<1> HIDE DEF c, x
<1>4a. IsLinked(V, c, k, l, p, x, x, n)
    BY <1>1, <1>2, LinkFields
<1> HIDE DEF k, d
<1>4. /\ k \in NodeRecords(V) /\ SamePool(c, k) /\ k.size = c.size
      /\ k.next = [y \in Nodes |-> IF y = p THEN x ELSE IF y = x THEN n ELSE c.next[y]]
      /\ k.prev = [y \in Nodes |-> IF y = n THEN x ELSE IF y = x THEN p ELSE c.prev[y]]
      /\ k.head = [c.head EXCEPT ![l] = IF p = Null THEN x ELSE @]
      /\ k.tail = [c.tail EXCEPT ![l] = IF n = Null THEN x ELSE @]
    BY <1>4a DEF IsLinked
<1>5. z \in [Lists -> Nat] /\ d = [k EXCEPT !.size = z]
    <2>1. k.size \in [Lists -> Nat]
        BY <1>4 DEF NodeRecords
    <2>2. z \in [Lists -> Nat]
        BY <1>1, <2>1
    <2>3. d = [k EXCEPT !.size = z]
        BY <1>3, <1>4 DEF NodeRecords
    <2> QED
        BY <2>2, <2>3
<1>6. z = [s.size EXCEPT ![l] = @ + 1]
    BY <1>2, <1>4
<1> HIDE DEF z
<1>7. /\ d \in NodeRecords(V) /\ d.size = z /\ d.free = k.free /\ d.made = k.made
      /\ d.live = k.live /\ d.segments = k.segments
      /\ d.next = k.next /\ d.prev = k.prev /\ d.val = k.val /\ d.head = k.head /\ d.tail = k.tail
    BY <1>4, <1>5 DEF NodeRecords
<1>8. /\ \A y \in Nodes : y # x => c.next[y] = s.next[y] /\ c.prev[y] = s.prev[y]
      /\ c.free = k.free /\ c.made = k.made /\ c.live = k.live /\ c.segments = k.segments
      /\ c.val = k.val
    BY <1>1, <1>2, <1>4 DEF NodeRecords, SamePool
<1>9. /\ d.next = [y \in Nodes |-> IF y = p THEN x ELSE IF y = x THEN n ELSE s.next[y]]
      /\ d.prev = [y \in Nodes |-> IF y = n THEN x ELSE IF y = x THEN p ELSE s.prev[y]]
    BY <1>1, <1>4, <1>7, <1>8
<1> QED
    <2>1. /\ d.free = PopFree(s) /\ d.made = MadeThen(s) /\ d.live = s.live + 1
          /\ d.made <= d.segments * SegmentCapacity
          /\ d.val = [s.val EXCEPT ![x] = v]
        BY <1>2, <1>7, <1>8
    <2>2. /\ d.head = [s.head EXCEPT ![l] = IF p = Null THEN x ELSE @]
          /\ d.tail = [s.tail EXCEPT ![l] = IF n = Null THEN x ELSE @]
          /\ d.size = [s.size EXCEPT ![l] = @ + 1]
        BY <1>2, <1>4, <1>6, <1>7
    <2> QED
        BY <1>7, <1>9, <2>1, <2>2 DEF Inserts, d, x

IsBetween(s2, s, l, p, n, v) == s2 = NodeBetween(s, l, p, n, v)

LEMMA PushBackInserts ==
    ASSUME NEW V, NEW s, NEW l, NEW p, p = s.tail[l], NEW v, MayInsert(V, s, l, p, Null, v),
           s.head[l] = Null <=> p = Null
    PROVE  IsBetween(PushBack(s, l, v), s, l, p, Null, v)
<1> DEFINE x == NextSlot(s)
           c == Create(s, v)
           j == SetNext(c, p, x)
<1>1. /\ s \in NodeRecords(V) /\ Null \in V /\ v \in V /\ HasRoom(s) /\ Null \notin Nodes
      /\ s.made <= s.segments * SegmentCapacity
      /\ l \in Lists /\ p \in Links /\ p # x /\ x \in Nodes /\ x # Null /\ x \in Links
    BY DEF MayInsert, HasRoom, Links
<1>2. c \in NodeRecords(V) /\ c.next[x] = Null /\ c.head = s.head /\ c.tail = s.tail
    <2>1. HasNew(V, s, c, v)
        BY <1>1, CreateFields
    <2>2. c \in NodeRecords(V) /\ c.next = [s.next EXCEPT ![x] = Null] /\ c.head = s.head
          /\ c.tail = s.tail
        BY <2>1 DEF HasNew
    <2> QED
        BY <1>1, <2>2 DEF NodeRecords
<1>3. PushBack(s, l, v) = [j EXCEPT !.prev[x] = p, !.head[l] = IF s.head[l] = Null THEN x ELSE @,
                                    !.tail[l] = x, !.size[l] = @ + 1]
    BY DEF PushBack
<1>4. NodeBetween(s, l, p, Null, v) =
          [[j EXCEPT !.prev[x] = p, !.next[x] = Null,
                     !.head[l] = IF p = Null THEN x ELSE @, !.tail[l] = x] EXCEPT !.size[l] = @ + 1]
    BY DEF NodeBetween, Link, SetPrev
<1> HIDE DEF c, x
<1>5. NextIsSet(V, c, j, p, x)
    BY <1>1, <1>2, SetNextFields
<1> HIDE DEF j
<1>6. j \in NodeRecords(V) /\ j.next[x] = Null
    BY <1>1, <1>2, <1>5 DEF NextIsSet
<1>7. [j.next EXCEPT ![x] = Null] = j.next
    BY <1>1, <1>6 DEF NodeRecords
<1>9. j.head[l] = s.head[l]
    BY <1>2, <1>5 DEF NextIsSet, SameEnds
<1> DEFINE a == [j.prev EXCEPT ![x] = p]
           h == [j.head EXCEPT ![l] = IF p = Null THEN x ELSE @]
           t == [j.tail EXCEPT ![l] = x]
           z == [j.size EXCEPT ![l] = @ + 1]
<1>10. PushBack(s, l, v) = [j EXCEPT !.prev = a, !.head = h, !.tail = t, !.size = z]
    BY <1>3, <1>6 DEF NodeRecords
<1>11. NodeBetween(s, l, p, Null, v) = [j EXCEPT !.prev = a, !.head = h, !.tail = t, !.size = z]
    <2> DEFINE b == [j.next EXCEPT ![x] = Null]
    <2>1. NodeBetween(s, l, p, Null, v) =
              [j EXCEPT !.prev = a, !.next = b, !.head = h, !.tail = t, !.size = z]
        BY <1>4, <1>6 DEF NodeRecords
    <2>2. b = j.next
        BY <1>7
    <2> HIDE DEF a, b, h, t, z
    <2> QED
        BY <1>6, <2>1, <2>2 DEF NodeRecords
<1> QED
    BY <1>10, <1>11 DEF IsBetween

LEMMA PushFrontInserts ==
    ASSUME NEW V, NEW s, NEW l, NEW n, n = s.head[l], NEW v, MayInsert(V, s, l, Null, n, v)
    PROVE  IsBetween(PushFront(s, l, v), s, l, Null, n, v)
<1> DEFINE x == NextSlot(s)
           c == Create(s, v)
           j == SetPrev(c, n, x)
<1>1. /\ s \in NodeRecords(V) /\ Null \in V /\ v \in V /\ HasRoom(s) /\ Null \notin Nodes
      /\ s.made <= s.segments * SegmentCapacity
      /\ l \in Lists /\ n \in Links /\ n # x /\ x \in Nodes /\ x # Null /\ x \in Links
    BY DEF MayInsert, HasRoom, Links
<1>2. c \in NodeRecords(V) /\ c.prev[x] = Null /\ c.head = s.head /\ c.tail = s.tail
    <2>1. HasNew(V, s, c, v)
        BY <1>1, CreateFields
    <2>2. c \in NodeRecords(V) /\ c.prev = [s.prev EXCEPT ![x] = Null] /\ c.head = s.head
          /\ c.tail = s.tail
        BY <2>1 DEF HasNew
    <2> QED
        BY <1>1, <2>2 DEF NodeRecords
<1>3. PushFront(s, l, v) = [j EXCEPT !.next[x] = n, !.tail[l] = IF n = Null THEN x ELSE @,
                                     !.head[l] = x, !.size[l] = @ + 1]
    BY DEF PushFront
<1>4. NodeBetween(s, l, Null, n, v) =
          [[j EXCEPT !.prev[x] = Null, !.next[x] = n, !.head[l] = x,
                     !.tail[l] = IF n = Null THEN x ELSE @] EXCEPT !.size[l] = @ + 1]
    BY DEF NodeBetween, Link, SetNext
<1> HIDE DEF c, x
<1>5. PrevIsSet(V, c, j, n, x)
    BY <1>1, <1>2, SetPrevFields
<1> HIDE DEF j
<1>6. j \in NodeRecords(V) /\ j.prev[x] = Null
    BY <1>1, <1>2, <1>5 DEF PrevIsSet
<1>7. [j.prev EXCEPT ![x] = Null] = j.prev
    BY <1>1, <1>6 DEF NodeRecords
<1> DEFINE a == [j.next EXCEPT ![x] = n]
           h == [j.head EXCEPT ![l] = x]
           t == [j.tail EXCEPT ![l] = IF n = Null THEN x ELSE @]
           z == [j.size EXCEPT ![l] = @ + 1]
<1>10. PushFront(s, l, v) = [j EXCEPT !.next = a, !.head = h, !.tail = t, !.size = z]
    BY <1>3, <1>6 DEF NodeRecords
<1>11. NodeBetween(s, l, Null, n, v) = [j EXCEPT !.next = a, !.head = h, !.tail = t, !.size = z]
    <2> DEFINE b == [j.prev EXCEPT ![x] = Null]
    <2>1. NodeBetween(s, l, Null, n, v) =
              [j EXCEPT !.prev = b, !.next = a, !.head = h, !.tail = t, !.size = z]
        BY <1>4, <1>6 DEF NodeRecords
    <2>2. b = j.prev
        BY <1>7
    <2> HIDE DEF a, b, h, t, z
    <2> QED
        BY <1>6, <2>1, <2>2 DEF NodeRecords
<1> QED
    BY <1>10, <1>11 DEF IsBetween

(* The nodes of m between p and n in l. *)
NodesMoved(s, l, p, n, m) ==
    [Link(s, l, p, s.head[m], s.tail[m], n)
        EXCEPT !.size[l] = @ + s.size[m],
               !.head[m] = Null, !.tail[m] = Null, !.size[m] = 0]

LEMMA NodesMovedJoins ==
    ASSUME NEW V, NEW s \in NodeRecords(V), Null \notin Nodes, NEW l \in Lists, NEW m \in Lists,
           l # m, NEW p \in Links, NEW n \in Links, s.head[m] \in Nodes, s.tail[m] \in Nodes,
           p # s.tail[m], n # s.head[m]
    PROVE  /\ NodesMoved(s, l, p, n, m) \in NodeRecords(V)
           /\ Joins(s, NodesMoved(s, l, p, n, m), l, m, p, n)
<1> DEFINE k == Link(s, l, p, s.head[m], s.tail[m], n)
           h == [k.head EXCEPT ![m] = Null]
           t == [k.tail EXCEPT ![m] = Null]
           z == [[k.size EXCEPT ![l] = @ + s.size[m]] EXCEPT ![m] = 0]
           d == NodesMoved(s, l, p, n, m)
<1>1. IsLinked(V, s, k, l, p, s.head[m], s.tail[m], n)
    BY LinkFields
<1>2. d = [k EXCEPT !.size[l] = @ + s.size[m], !.head[m] = Null, !.tail[m] = Null, !.size[m] = 0]
    BY DEF NodesMoved
<1> HIDE DEF k, d
<1>3. /\ k \in NodeRecords(V) /\ SamePool(s, k) /\ k.size = s.size
      /\ k.next = [y \in Nodes |-> IF y = p THEN s.head[m] ELSE IF y = s.tail[m] THEN n ELSE s.next[y]]
      /\ k.prev = [y \in Nodes |-> IF y = n THEN s.tail[m] ELSE IF y = s.head[m] THEN p ELSE s.prev[y]]
      /\ k.head = [s.head EXCEPT ![l] = IF p = Null THEN s.head[m] ELSE @]
      /\ k.tail = [s.tail EXCEPT ![l] = IF n = Null THEN s.tail[m] ELSE @]
    BY <1>1 DEF IsLinked
<1>4. /\ s.size \in [Lists -> Nat] /\ s.head \in [Lists -> Links] /\ s.tail \in [Lists -> Links]
      /\ k.size \in [Lists -> Nat] /\ k.head \in [Lists -> Links] /\ k.tail \in [Lists -> Links]
      /\ Null \in Links
    BY <1>3 DEF NodeRecords, Links
<1>5. d = [k EXCEPT !.head = h, !.tail = t, !.size = z]
    BY <1>2, <1>3 DEF NodeRecords
<1>6. z = [u \in Lists |-> IF u = m THEN 0 ELSE IF u = l THEN s.size[l] + s.size[m] ELSE s.size[u]]
    BY <1>3, <1>4
<1>7. z \in [Lists -> Nat]
    BY <1>4, <1>6
<1>8. /\ h \in [Lists -> Links]
      /\ h = [u \in Lists |-> IF u = m THEN Null ELSE IF u = l /\ p = Null THEN s.head[m] ELSE s.head[u]]
    BY <1>3, <1>4
<1>9. /\ t \in [Lists -> Links]
      /\ t = [u \in Lists |-> IF u = m THEN Null ELSE IF u = l /\ n = Null THEN s.tail[m] ELSE s.tail[u]]
    BY <1>3, <1>4, SMTT(30)
<1> HIDE DEF h, t, z
<1>10. /\ d \in NodeRecords(V) /\ d.size = z /\ d.free = k.free /\ d.made = k.made
       /\ d.live = k.live /\ d.segments = k.segments
       /\ d.next = k.next /\ d.prev = k.prev /\ d.val = k.val /\ d.head = h /\ d.tail = t
    BY <1>3, <1>5, <1>7, <1>8, <1>9 DEF NodeRecords
<1> QED
    BY <1>3, <1>6, <1>8, <1>9, <1>10 DEF Joins, SamePool, d

IsRecycled(V, s, c, x) ==
    /\ c \in NodeRecords(V)
    /\ c.free = Append(s.free, x) /\ c.made = s.made /\ c.live = s.live - 1
    /\ c.segments = s.segments
    /\ \A y \in Nodes \ {x} : c.next[y] = s.next[y] /\ c.prev[y] = s.prev[y] /\ c.val[y] = s.val[y]
    /\ SameEnds(s, c)

LEMMA RecycleFields ==
    ASSUME NEW V, Null \in V, NEW s \in NodeRecords(V), NEW x \in Nodes
    PROVE  IsRecycled(V, s, Recycle(s, x), x)
<1> DEFINE a == [s.prev EXCEPT ![x] = Null]
           b == [s.next EXCEPT ![x] = Null]
           w == [s.val EXCEPT ![x] = Null]
           f == Append(s.free, x)
           i == s.live - 1
           c == Recycle(s, x)
<1>1. /\ a \in [Nodes -> Links] /\ b \in [Nodes -> Links] /\ w \in [Nodes -> V]
      /\ f \in Seq(Nodes) /\ i \in Int
    BY DEF NodeRecords, Links
<1>2. \A y \in Nodes \ {x} : b[y] = s.next[y] /\ a[y] = s.prev[y] /\ w[y] = s.val[y]
    BY DEF NodeRecords
<1>3. c = [s EXCEPT !.prev = a, !.next = b, !.val = w, !.free = f, !.live = i]
    BY DEF Recycle, NodeRecords
<1> HIDE DEF a, b, w, f, i, c
<1>4. /\ c \in NodeRecords(V) /\ c.prev = a /\ c.next = b /\ c.val = w /\ c.free = f /\ c.live = i
      /\ c.made = s.made /\ c.segments = s.segments /\ SameEnds(s, c)
    BY <1>1, <1>3 DEF NodeRecords, SameEnds
<1> QED
    BY <1>2, <1>4 DEF IsRecycled, c, f, i

LEMMA EraseNodeRemoves ==
    ASSUME NEW V, Null \in V, NEW s \in NodeRecords(V), Null \notin Nodes, NEW l \in Lists,
           NEW x \in Nodes, s.prev[x] # x, s.next[x] # x, s.size[l] > 0
    PROVE  EraseNode(s, l, x) \in NodeRecords(V) /\ Removes(s, EraseNode(s, l, x), l, x)
<1> DEFINE p == s.prev[x]
           n == s.next[x]
           one == SetNext(s, p, n)
           out == SetPrev(one, n, p)
           h == [out.head EXCEPT ![l] = IF p = Null THEN n ELSE @]
           t == [out.tail EXCEPT ![l] = IF n = Null THEN p ELSE @]
           z == [out.size EXCEPT ![l] = @ - 1]
           mid == [out EXCEPT !.head[l] = IF p = Null THEN n ELSE @,
                              !.tail[l] = IF n = Null THEN p ELSE @,
                              !.size[l] = @ - 1]
           c == EraseNode(s, l, x)
<1>1. p \in Links /\ n \in Links /\ p # x /\ n # x /\ x # Null
    BY DEF NodeRecords
<1>2. c = Recycle(mid, x)
    BY <1>1 DEF EraseNode
<1> HIDE DEF p, n, c
<1>3. NextIsSet(V, s, one, p, n)
    BY <1>1, SetNextFields
<1>4. one \in NodeRecords(V)
    BY <1>3 DEF NextIsSet
<1> HIDE DEF one
<1>5. PrevIsSet(V, one, out, n, p)
    BY <1>1, <1>4, SetPrevFields
<1> HIDE DEF out
<1>6. /\ out \in NodeRecords(V) /\ SamePool(s, out) /\ SameEnds(s, out)
      /\ \A y \in Nodes : out.next[y] = IF y = p /\ p # Null THEN n ELSE s.next[y]
      /\ \A y \in Nodes : out.prev[y] = IF y = n /\ n # Null THEN p ELSE s.prev[y]
    BY <1>3, <1>5 DEF NextIsSet, PrevIsSet, SamePool, SameEnds
<1>7. h \in [Lists -> Links] /\ t \in [Lists -> Links]
    BY <1>1, <1>6 DEF NodeRecords
<1>8. z \in [Lists -> Nat]
    <2>1. out.size \in [Lists -> Nat] /\ out.size[l] > 0
        BY <1>6 DEF NodeRecords, SameEnds
    <2>2. out.size[l] - 1 \in Nat
        BY <2>1
    <2> QED
        BY <2>1, <2>2
<1>9. mid = [out EXCEPT !.head = h, !.tail = t, !.size = z]
    BY <1>6 DEF NodeRecords
<1>10. /\ h = [s.head EXCEPT ![l] = IF p = Null THEN n ELSE @]
       /\ t = [s.tail EXCEPT ![l] = IF n = Null THEN p ELSE @]
       /\ z = [s.size EXCEPT ![l] = @ - 1]
    BY <1>6 DEF SameEnds
<1> HIDE DEF h, t, z, mid
<1>11. /\ mid \in NodeRecords(V) /\ mid.head = h /\ mid.tail = t /\ mid.size = z
       /\ mid.next = out.next /\ mid.prev = out.prev /\ SamePool(out, mid)
    BY <1>6, <1>7, <1>8, <1>9 DEF NodeRecords, SamePool
<1>12. IsRecycled(V, mid, c, x)
    BY <1>2, <1>11, RecycleFields
<1>13. /\ c \in NodeRecords(V)
       /\ c.free = Append(s.free, x) /\ c.made = s.made /\ c.live = s.live - 1
       /\ c.segments = s.segments /\ c.head = h /\ c.tail = t /\ c.size = z
    BY <1>6, <1>11, <1>12 DEF IsRecycled, SamePool, SameEnds
<1>14. \A y \in Nodes \ {x} : /\ c.next[y] = IF y = p THEN n ELSE s.next[y]
                              /\ c.prev[y] = IF y = n THEN p ELSE s.prev[y]
                              /\ c.val[y] = s.val[y]
    BY <1>6, <1>11, <1>12 DEF IsRecycled, SamePool
<1> QED
    BY <1>10, <1>13, <1>14 DEF Removes, p, n, c

(* The first i nodes of q have gone back to the pool. *)
AreRecycled(V, s, c, q, i) ==
    /\ c \in NodeRecords(V) /\ Len(c.free) = Len(s.free) + i
    /\ \A j \in 1 .. Len(s.free) : c.free[j] = s.free[j]
    /\ \A j \in 1 .. i : c.free[Len(s.free) + j] = q[j]
    /\ c.made = s.made /\ c.live = s.live - i /\ c.segments = s.segments
    /\ \A y \in Nodes : (\A j \in 1 .. Len(q) : y # q[j]) =>
           c.next[y] = s.next[y] /\ c.prev[y] = s.prev[y] /\ c.val[y] = s.val[y]
    /\ SameEnds(s, c)

LEMMA AnotherRecycled ==
    ASSUME NEW V, Null \in V, NEW s \in NodeRecords(V), NEW c, NEW q \in Seq(Nodes),
           NEW i \in 1 .. Len(q), AreRecycled(V, s, c, q, i - 1)
    PROVE  AreRecycled(V, s, Recycle(c, q[i]), q, i)
<1> DEFINE d == Recycle(c, q[i])
           f == s.free
<1>1. c \in NodeRecords(V) /\ q[i] \in Nodes /\ Len(q) \in Nat
    BY DEF AreRecycled
<1>2. IsRecycled(V, c, d, q[i])
    BY <1>1, RecycleFields
<1> HIDE DEF d
<1>3. /\ f \in Seq(Nodes) /\ Len(f) \in Nat /\ c.free \in Seq(Nodes)
      /\ Len(c.free) = Len(f) + (i - 1) /\ s.live \in Int
    BY <1>1 DEF NodeRecords, AreRecycled
<1>4. d.free = Append(c.free, q[i])
    BY <1>2 DEF IsRecycled
<1>5. /\ Len(d.free) = Len(f) + i /\ d.free[Len(f) + i] = q[i]
      /\ \A j \in 1 .. Len(f) + (i - 1) : d.free[j] = c.free[j]
    <2>1. /\ Len(d.free) = Len(c.free) + 1
          /\ \A j \in 1 .. Len(c.free) : d.free[j] = c.free[j]
          /\ d.free[Len(c.free) + 1] = q[i]
        BY <1>1, <1>3, <1>4, AppendProperties
    <2>2. Len(c.free) + 1 = Len(f) + i
        BY <1>3
    <2> QED
        BY <1>3, <2>1, <2>2
<1>6. \A j \in 1 .. Len(f) : d.free[j] = f[j]
    <2>1. \A j \in 1 .. Len(f) : j \in 1 .. Len(f) + (i - 1)
        BY <1>3
    <2> QED
        BY <1>5, <2>1 DEF AreRecycled
<1>7. ASSUME NEW j \in 1 .. i PROVE d.free[Len(f) + j] = q[j]
    <2>1. CASE j = i
        BY <1>5, <2>1
    <2>2. CASE j # i
        <3>1. j \in 1 .. (i - 1) /\ Len(f) + j \in 1 .. Len(f) + (i - 1)
            BY <1>3, <2>2
        <3> QED
            BY <1>5, <3>1 DEF AreRecycled
    <2> QED
        BY <2>1, <2>2
<1>8. d.made = s.made /\ d.segments = s.segments /\ SameEnds(s, d) /\ d \in NodeRecords(V)
    BY <1>2 DEF IsRecycled, AreRecycled, SameEnds
<1>9. d.live = s.live - i
    BY <1>2, <1>3 DEF IsRecycled, AreRecycled
<1>10. ASSUME NEW y \in Nodes, \A j \in 1 .. Len(q) : y # q[j]
       PROVE  d.next[y] = s.next[y] /\ d.prev[y] = s.prev[y] /\ d.val[y] = s.val[y]
    <2>1. y \in Nodes \ {q[i]}
        BY <1>10
    <2> QED
        BY <1>2, <1>10, <2>1 DEF IsRecycled, AreRecycled
<1> QED
    BY <1>5, <1>6, <1>7, <1>8, <1>9, <1>10 DEF AreRecycled, d, f

LEMMA ClearListClears ==
    ASSUME NEW V, Null \in V, NEW s \in NodeRecords(V), NEW l \in Lists, NEW q \in Seq(Nodes),
           Chain(s, l) = q
    PROVE  ClearList(s, l) \in NodeRecords(V) /\ Clears(s, ClearList(s, l), l, q)
<1> DEFINE D(g, i) == IF i = 0 THEN s ELSE Recycle(g[i - 1], q[i])
           Loop(g) == g = [i \in 0 .. Len(q) |-> D(g, i)]
           after == CHOOSE g : Loop(g)
           S == NodeRecords(V)
           Step == [i \in 1 .. Len(q) |-> [c \in S |-> Recycle(c, q[i])]]
           out == after[Len(q)]
<1>1. ClearList(s, l) = [out EXCEPT !.head[l] = Null, !.tail[l] = Null, !.size[l] = 0]
    BY DEF ClearList
<1>2. Len(q) \in Nat
    OBVIOUS
<1>3. ASSUME NEW i \in 1 .. Len(q), NEW c \in S
      PROVE  Step[i][c] = Recycle(c, q[i]) /\ Recycle(c, q[i]) \in S
    <2>1. q[i] \in Nodes
        BY <1>2
    <2>2. IsRecycled(V, c, Recycle(c, q[i]), q[i])
        BY <2>1, RecycleFields
    <2> QED
        BY <2>2 DEF IsRecycled
<1>4. Loop(after)
    <2>1. StaysIn(Len(q), S, Step)
        BY <1>3 DEF StaysIn
    <2>2. PICK g : RunOf(g, Len(q), S, s, Step)
        <3> HIDE DEF S, Step
        <3> QED
            BY <1>2, <2>1, Recursion DEF S
    <2>3. ASSUME NEW i \in 0 .. Len(q) PROVE g[i] = D(g, i)
        <3>1. CASE i = 0
            BY <2>2, <3>1 DEF RunOf
        <3>2. CASE i # 0
            <4>1. i \in 1 .. Len(q) /\ i - 1 \in 0 .. Len(q)
                BY <1>2, <3>2
            <4>2. g[i - 1] \in S /\ g[i] = Step[i][g[i - 1]]
                BY <2>2, <4>1 DEF RunOf
            <4> HIDE DEF S, Step
            <4> QED
                BY <1>3, <3>2, <4>1, <4>2
        <3> QED
            BY <3>1, <3>2
    <2>4. Loop(g)
        <3> HIDE DEF D
        <3> QED
            BY <2>2, <2>3 DEF RunOf
    <2> HIDE DEF Loop
    <2> QED
        BY <2>4
<1> DEFINE T == {i \in 0 .. Len(q) : AreRecycled(V, s, after[i], q, i)}
<1> HIDE DEF after
<1>5. \A i \in 0 .. Len(q) : after[i] = D(after, i)
    <2> HIDE DEF D
    <2> QED
        BY <1>4
<1>6. 0 \in T
    <2>1. after[0] = s
        BY <1>2, <1>5
    <2>2. Len(s.free) \in Nat /\ s.live \in Int
        BY DEF NodeRecords
    <2>3. AreRecycled(V, s, s, q, 0)
        BY <2>2 DEF AreRecycled, SameEnds
    <2> QED
        BY <1>2, <2>1, <2>3
<1>7. ASSUME NEW i \in 1 .. Len(q), i - 1 \in T PROVE i \in T
    <2>1. i \in 0 .. Len(q) /\ after[i] = Recycle(after[i - 1], q[i])
        BY <1>2, <1>5
    <2>2. AreRecycled(V, s, after[i - 1], q, i - 1)
        BY <1>7
    <2>3. AreRecycled(V, s, after[i], q, i)
        BY <2>1, <2>2, AnotherRecycled
    <2> QED
        BY <2>1, <2>3
<1>8. AreRecycled(V, s, out, q, Len(q))
    <2>1. Len(q) \in 0 .. Len(q)
        BY <1>2
    <2>2. Len(q) \in T
        <3> HIDE DEF T
        <3> QED
            BY <1>2, <1>6, <1>7, <2>1, Induction
    <2> QED
        BY <2>2
<1> HIDE DEF D, Loop, Step, T, out
<1> DEFINE h == [out.head EXCEPT ![l] = Null]
           t == [out.tail EXCEPT ![l] = Null]
           z == [out.size EXCEPT ![l] = 0]
           c == ClearList(s, l)
           f == Splice(s.free, Len(s.free), q)
<1>9. out \in NodeRecords(V) /\ SameEnds(s, out)
    BY <1>8 DEF AreRecycled
<1>10. c = [out EXCEPT !.head = h, !.tail = t, !.size = z]
    BY <1>1, <1>9 DEF NodeRecords
<1>11. h \in [Lists -> Links] /\ t \in [Lists -> Links] /\ z \in [Lists -> Nat]
    BY <1>9 DEF NodeRecords, Links
<1>12. /\ h = [s.head EXCEPT ![l] = Null] /\ t = [s.tail EXCEPT ![l] = Null]
       /\ z = [s.size EXCEPT ![l] = 0]
    BY <1>9 DEF SameEnds
<1> HIDE DEF h, t, z, c
<1>13. /\ c \in NodeRecords(V) /\ c.head = h /\ c.tail = t /\ c.size = z /\ c.free = out.free
       /\ c.made = out.made /\ c.live = out.live /\ c.segments = out.segments
       /\ c.next = out.next /\ c.prev = out.prev /\ c.val = out.val
    BY <1>9, <1>10, <1>11 DEF NodeRecords
<1>14. out.free = f
    <2>1. s.free \in Seq(Nodes) /\ Len(s.free) \in 0 .. Len(s.free) /\ out.free \in Seq(Nodes)
        BY <1>9 DEF NodeRecords
    <2>2. IsSplice(f, s.free, Len(s.free), q, Nodes)
        BY <2>1, SpliceProperties
    <2> HIDE DEF f
    <2>3. f \in Seq(Nodes) /\ Len(f) = Len(s.free) + Len(q) /\ Len(out.free) = Len(s.free) + Len(q)
        BY <1>8, <2>2 DEF IsSplice, AreRecycled
    <2>4. ASSUME NEW i \in 1 .. Len(out.free) PROVE out.free[i] = f[i]
        <3>1. CASE i <= Len(s.free)
            <4>1. i \in 1 .. Len(s.free)
                BY <2>1, <3>1
            <4> QED
                BY <1>8, <2>2, <4>1 DEF IsSplice, AreRecycled
        <3>2. CASE ~(i <= Len(s.free))
            <4>1. i - Len(s.free) \in 1 .. Len(q) /\ Len(s.free) + (i - Len(s.free)) = i
                BY <2>1, <2>3, <3>2
            <4> QED
                BY <1>8, <2>2, <4>1, ZenonT(30) DEF IsSplice, AreRecycled
        <3> QED
            BY <3>1, <3>2
    <2> QED
        BY <2>1, <2>3, <2>4, SameSequence
<1>15. /\ out.made = s.made /\ out.live = s.live - Len(q) /\ out.segments = s.segments
       /\ \A y \in Nodes : (\A i \in 1 .. Len(q) : y # q[i]) =>
              out.next[y] = s.next[y] /\ out.prev[y] = s.prev[y] /\ out.val[y] = s.val[y]
    BY <1>8 DEF AreRecycled
<1> QED
    BY <1>12, <1>13, <1>14, <1>15 DEF Clears, c, f

-----------------------------------------------------------------------------
(* The sequences that the calls ask for                                    *)

LEMMA SpliceUnique ==
    ASSUME NEW S, NEW q \in Seq(S), NEW t \in Seq(S), NEW b \in 0 .. Len(q),
           NEW r, IsSplice(r, q, b, t, S)
    PROVE  r = Splice(q, b, t)
<1> DEFINE c == Splice(q, b, t)
<1>1. IsSplice(c, q, b, t, S)
    BY SpliceProperties
<1> HIDE DEF c
<1>2. /\ Len(q) \in Nat /\ Len(t) \in Nat /\ b \in Nat
      /\ r \in Seq(S) /\ c \in Seq(S) /\ Len(r) = Len(q) + Len(t) /\ Len(c) = Len(q) + Len(t)
    BY <1>1 DEF IsSplice
<1>3. ASSUME NEW i \in 1 .. Len(r) PROVE r[i] = c[i]
    <2>1. CASE i <= b
        <3>1. i \in 1 .. b
            BY <1>2, <2>1
        <3> QED
            BY <1>1, <3>1 DEF IsSplice
    <2>2. CASE b < i /\ i <= b + Len(t)
        <3>1. i - b \in 1 .. Len(t) /\ b + (i - b) = i
            BY <1>2, <2>2
        <3> QED
            BY <1>1, <3>1, ZenonT(30) DEF IsSplice
    <2>3. CASE b + Len(t) < i
        <3>1. i - Len(t) \in (b + 1) .. Len(q) /\ Len(t) + (i - Len(t)) = i
            BY <1>2, <2>3
        <3> QED
            BY <1>1, <3>1, ZenonT(30) DEF IsSplice
    <2> QED
        BY <1>2, <2>1, <2>2, <2>3
<1> QED
    BY <1>2, <1>3, SameSequence DEF c

LEMMA ConcatIsSplice ==
    ASSUME NEW S, NEW q \in Seq(S), NEW t \in Seq(S)
    PROVE  q \o t = Splice(q, Len(q), t)
<1> DEFINE r == q \o t
           n == Len(q)
           k == Len(t)
<1>1. n \in Nat /\ k \in Nat /\ n \in 0 .. n
    OBVIOUS
<1>2. /\ r \in Seq(S) /\ Len(r) = n + k
      /\ \A i \in 1 .. n + k : r[i] = IF i <= n THEN q[i] ELSE t[i - n]
    BY ConcatProperties
<1> HIDE DEF r, n, k
<1>3. \A i \in 1 .. n : r[i] = q[i]
    BY <1>1, <1>2
<1>4. ASSUME NEW i \in 1 .. k PROVE r[n + i] = t[i]
    <2>1. n + i \in 1 .. n + k /\ ~(n + i <= n) /\ (n + i) - n = i
        BY <1>1
    <2> QED
        BY <1>2, <2>1
<1>5. (n + 1) .. n = {}
    BY <1>1
<1>6. IsSplice(r, q, n, t, S)
    BY <1>2, <1>3, <1>4, <1>5 DEF IsSplice, n, k
<1>7. r = Splice(q, n, t)
    <2>1. n \in 0 .. Len(q)
        BY <1>1 DEF n
    <2> QED
        BY <1>6, <2>1, SpliceUnique
<1> QED
    BY <1>7 DEF r, n

LEMMA CutUnique ==
    ASSUME NEW S, NEW q \in Seq(S), NEW k \in 0 .. Len(q) - 1, NEW r, IsCut(r, q, k, S)
    PROVE  r = Cut(q, k)
<1> DEFINE c == Cut(q, k)
<1>1. IsCut(c, q, k, S)
    BY CutProperties
<1> HIDE DEF c
<1>2. /\ Len(q) \in Nat /\ k \in Nat
      /\ r \in Seq(S) /\ c \in Seq(S) /\ Len(r) = Len(q) - 1 /\ Len(c) = Len(q) - 1
    BY <1>1 DEF IsCut
<1>3. ASSUME NEW i \in 1 .. Len(r) PROVE r[i] = c[i]
    <2>1. i \in 1 .. k \/ i \in (k + 1) .. Len(q) - 1
        BY <1>2
    <2> QED
        BY <1>1, <2>1 DEF IsCut
<1> QED
    BY <1>2, <1>3, SameSequence DEF c

LEMMA AppendIsSplice ==
    ASSUME NEW S, NEW q \in Seq(S), NEW x \in S
    PROVE  Append(q, x) = Splice(q, Len(q), <<x>>)
<1>1. Len(q) \in Nat /\ Len(q) \in 0 .. Len(q) /\ <<x>> \in Seq(S) /\ Len(<<x>>) = 1 /\ <<x>>[1] = x
    OBVIOUS
<1> DEFINE r == Append(q, x)
<1>2. /\ r \in Seq(S) /\ Len(r) = Len(q) + 1
      /\ \A i \in 1 .. Len(q) : r[i] = q[i]
      /\ r[Len(q) + 1] = x
    BY AppendProperties
<1> HIDE DEF r
<1>3. IsSplice(r, q, Len(q), <<x>>, S)
    BY <1>1, <1>2 DEF IsSplice
<1> QED
    BY <1>1, <1>3, SpliceUnique DEF r

LEMMA PrependIsSplice ==
    ASSUME NEW S, NEW q \in Seq(S), NEW x \in S
    PROVE  <<x>> \o q = Splice(q, 0, <<x>>)
<1> DEFINE t == <<x>>
           r == t \o q
<1>1. Len(q) \in Nat /\ 0 \in 0 .. Len(q) /\ t \in Seq(S) /\ Len(t) = 1
    OBVIOUS
<1>2. /\ r \in Seq(S) /\ Len(r) = Len(t) + Len(q)
      /\ \A i \in 1 .. Len(t) + Len(q) : r[i] = IF i <= Len(t) THEN t[i] ELSE q[i - Len(t)]
    BY <1>1, ConcatProperties
<1> HIDE DEF r, t
<1>3. \A i \in 1 .. Len(t) : r[0 + i] = t[i]
    BY <1>1, <1>2
<1>4. ASSUME NEW i \in (0 + 1) .. Len(q) PROVE r[Len(t) + i] = q[i]
    <2>1. Len(t) + i \in 1 .. Len(t) + Len(q) /\ ~(Len(t) + i <= Len(t)) /\ (Len(t) + i) - Len(t) = i
        BY <1>1
    <2> QED
        BY <1>2, <2>1
<1>5. IsSplice(r, q, 0, t, S)
    BY <1>1, <1>2, <1>3, <1>4 DEF IsSplice
<1> QED
    BY <1>1, <1>5, SpliceUnique DEF r, t

LEMMA RemoveAtIsCut ==
    ASSUME NEW S, NEW q \in Seq(S), NEW k \in Nat
    PROVE  RemoveAt(q, k + 1) = Cut(q, k)
<1>1. (k + 1) - 1 = k /\ (k + 1) + 1 = k + 2
    OBVIOUS
<1> QED
    BY <1>1 DEF RemoveAt, Cut

LEMMA TailIsCut ==
    ASSUME NEW S, NEW q \in Seq(S), Len(q) > 0
    PROVE  SubSeq(q, 2, Len(q)) = Cut(q, 0)
<1> DEFINE r == SubSeq(q, 2, Len(q))
<1>1. Len(q) \in Nat /\ 0 \in 0 .. Len(q) - 1
    OBVIOUS
<1>6. \A i \in 2 .. Len(q) : q[i] \in S
    BY <1>1
<1>2. /\ r \in Seq(S) /\ Len(r) = IF 2 <= Len(q) THEN Len(q) - 2 + 1 ELSE 0
      /\ \A i \in 1 .. Len(q) - 2 + 1 : r[i] = q[2 + i - 1]
    BY <1>1, <1>6, SubSeqProperties
<1> HIDE DEF r
<1>3. Len(r) = Len(q) - 1
    <2>1. CASE Len(q) = 1
        BY <1>2, <2>1
    <2>2. CASE Len(q) # 1
        <3>1. 2 <= Len(q)
            <4> DEFINE n == Len(q)
            <4>1. n \in Nat /\ n > 0 /\ n # 1
                BY <1>1, <2>2
            <4> HIDE DEF n
            <4>2. 2 <= n
                BY <4>1
            <4> QED
                BY <4>2 DEF n
        <3>2. Len(r) = Len(q) - 2 + 1
            BY <1>2, <3>1
        <3> QED
            BY <1>1, <3>2
    <2> QED
        BY <2>1, <2>2
<1>4. \A i \in 1 .. Len(q) - 1 : i \in 1 .. Len(q) - 2 + 1 /\ 2 + i - 1 = i + 1
    BY <1>1
<1>5. IsCut(r, q, 0, S)
    BY <1>1, <1>2, <1>3, <1>4 DEF IsCut
<1> QED
    BY <1>1, <1>5, CutUnique DEF r

LEMMA FrontIsCut ==
    ASSUME NEW S, NEW q \in Seq(S), Len(q) > 0
    PROVE  SubSeq(q, 1, Len(q) - 1) = Cut(q, Len(q) - 1)
<1> DEFINE r == SubSeq(q, 1, Len(q) - 1)
<1>1. /\ Len(q) \in Nat /\ Len(q) - 1 \in 0 .. Len(q) - 1 /\ Len(q) - 1 \in Nat
    OBVIOUS
<1>4. \A i \in 1 .. Len(q) - 1 : q[i] \in S
    BY <1>1
<1>2. r \in Seq(S) /\ Len(r) = Len(q) - 1 /\ \A i \in 1 .. Len(q) - 1 : r[i] = q[i]
    <2>1. /\ r \in Seq(S) /\ Len(r) = IF 1 <= Len(q) - 1 THEN Len(q) - 1 - 1 + 1 ELSE 0
          /\ \A i \in 1 .. Len(q) - 1 - 1 + 1 : r[i] = q[1 + i - 1]
        BY <1>1, <1>4, SubSeqProperties
    <2> HIDE DEF r
    <2>2. Len(r) = Len(q) - 1
        <3>1. CASE Len(q) = 1
            BY <2>1, <3>1
        <3>2. CASE Len(q) # 1
            <4>1. 1 <= Len(q) - 1
                <5> DEFINE n == Len(q)
                <5>1. n \in Nat /\ n > 0 /\ n # 1
                    BY <1>1, <3>2
                <5> HIDE DEF n
                <5>2. 1 <= n - 1
                    BY <5>1
                <5> QED
                    BY <5>2 DEF n
            <4>2. Len(r) = Len(q) - 1 - 1 + 1
                BY <2>1, <4>1
            <4> QED
                BY <1>1, <4>2
        <3> QED
            BY <3>1, <3>2
    <2>3. \A i \in 1 .. Len(q) - 1 : i \in 1 .. Len(q) - 1 - 1 + 1 /\ 1 + i - 1 = i
        BY <1>1
    <2> QED
        BY <2>1, <2>2, <2>3
<1> HIDE DEF r
<1>3. IsCut(r, q, Len(q) - 1, S)
    BY <1>1, <1>2 DEF IsCut
<1> QED
    BY <1>1, <1>3, CutUnique DEF r

(* The ends and neighbours that the lists' calls look up. *)
LEMMA NeighboursAre ==
    ASSUME NEW s, NEW l, NEW q \in Seq(Nodes), Null \notin Nodes, IsList(s, l, q),
           NEW b \in 0 .. Len(q)
    PROVE  Before(s, l, b) = At(q, b) /\ After(s, l, b) = At(q, b + 1)
<1>1. /\ s.head[l] = At(q, 1) /\ s.tail[l] = At(q, Len(q)) /\ s.size[l] = Len(q)
      /\ Linked(s.next, s.prev, q) /\ Len(q) \in Nat /\ b \in Nat
    BY DEF IsList
<1>2. NodeAt(s, l, b) = At(q, b + 1)
    BY <1>1, NodeAtIs
<1>3. CASE b = 0
    <2>1. At(q, 0) = Null
        BY <1>1 DEF At
    <2>2. Len(q) = 0 => At(q, 1) = Null
        BY DEF At
    <2> QED
        BY <1>1, <1>3, <2>1, <2>2 DEF Before, After
<1>4. CASE b = Len(q)
    <2>1. At(q, b + 1) = Null
        BY <1>1, <1>4 DEF At
    <2>2. b = 0 => At(q, b) = Null
        BY <1>1, <1>4 DEF At
    <2> QED
        BY <1>1, <1>4, <2>1, <2>2 DEF Before, After
<1>5. CASE b # 0 /\ b # Len(q)
    <2>1. b + 1 \in 1 .. Len(q) /\ (b + 1) - 1 = b
        BY <1>1, <1>5
    <2>2. At(q, b + 1) = q[b + 1]
        BY <2>1 DEF At
    <2>3. s.prev[q[b + 1]] = At(q, b)
        BY <1>1, <2>1 DEF Linked
    <2> QED
        BY <1>1, <1>2, <1>5, <2>2, <2>3 DEF Before, After
<1> QED
    BY <1>3, <1>4, <1>5

-----------------------------------------------------------------------------
(* What the operations make of lists that are laid out so                  *)

LEMMA NothingHeld ==
    ASSUME NEW V, Null \in V
    PROVE  LaidOut(NoNodes, V, [r \in Rows |-> << >>], [l \in Lists |-> << >>])
<1> DEFINE s == NoNodes
           p == [r \in Rows |-> << >>]
<1>1. MaxNodes \in Nat /\ SegmentCapacity \in Nat
    BY NodesAssumption
<1>2. s \in NodeRecords(V)
    BY DEF NodeRecords, NoNodes, Links
<1>3. /\ s.free = << >> /\ s.made = 0 /\ s.segments = 0 /\ s.live = 0
      /\ \A l \in Lists : s.head[l] = Null /\ s.tail[l] = Null /\ s.size[l] = 0
    BY DEF NoNodes
<1> HIDE DEF s
<1>4. Placed(p, 0)
    <2>1. p \in [Rows -> Seq(Nodes)] /\ \A r \in Rows : p[r] = << >> /\ Len(p[r]) = 0
        OBVIOUS
    <2> HIDE DEF p
    <2> DEFINE none == [x \in 1 .. 0 |-> x]
    <2>2. none \in [1 .. 0 -> Rows] /\ none \in [1 .. 0 -> Nat]
        OBVIOUS
    <2> HIDE DEF none
    <2>3. InPlaces(p, 0, none, none)
        BY <2>1, <2>2 DEF InPlaces
    <2> QED
        BY <2>1, <2>3 DEF Placed
<1>5. p[FreeRow] = << >> /\ \A l \in Lists : p[l] = << >>
    BY DEF Rows
<1> HIDE DEF p
<1>6. \A l \in Lists : IsList(s, l, p[l]) /\ Shows(s, p[l], << >>)
    BY <1>3, <1>5, EmptyList
<1> DEFINE sq == [l \in Lists |-> << >>]
<1>7. sq \in [Lists -> Seq(V)] /\ \A l \in Lists : sq[l] = << >>
    OBVIOUS
<1> HIDE DEF sq
<1>8. LaidOut(s, V, p, sq)
    <2>1. s.made <= MaxNodes /\ s.live = s.made - Len(s.free) /\ s.made <= s.segments * SegmentCapacity
        <3>1. s.segments * SegmentCapacity = 0
            BY <1>1, <1>3
        <3>2. Len(s.free) = 0
            BY <1>3
        <3>3. s.made = 0 /\ s.live = 0
            BY <1>3
        <3> HIDE DEF s
        <3> QED
            BY <1>1, <3>1, <3>2, <3>3
    <2> QED
        BY <1>2, <1>3, <1>4, <1>5, <1>6, <1>7, <2>1 DEF LaidOut
<1> QED
    BY <1>8 DEF s, p, sq

(* A row and what its list shows. *)
LEMMA HeldRow ==
    ASSUME NEW s, NEW V, NEW p, NEW sq, LaidOut(s, V, p, sq), NEW l \in Lists
    PROVE  /\ l \in Rows /\ p[l] \in Seq(Nodes) /\ Len(p[l]) \in Nat /\ sq[l] \in Seq(V)
           /\ Len(sq[l]) = Len(p[l]) /\ s.size[l] = Len(p[l]) /\ s \in NodeRecords(V)
           /\ s.head[l] = At(p[l], 1) /\ s.tail[l] = At(p[l], Len(p[l]))
           /\ Placed(p, s.made) /\ p[FreeRow] = s.free /\ s.made <= s.segments * SegmentCapacity
           /\ sq \in [Lists -> Seq(V)]
<1>1. /\ l \in Rows /\ p[l] \in Seq(Nodes) /\ Len(p[l]) \in Nat
      /\ IsList(s, l, p[l]) /\ Shows(s, p[l], sq[l])
    BY ListsInHolds
<1> QED
    BY <1>1 DEF LaidOut, IsList, Shows

LEMMA NodeInserted ==
    ASSUME NEW s, NEW V, NEW p, NEW sq, LaidOut(s, V, p, sq), Null \notin Nodes, Null \in V, HasRoom(s),
           NEW l \in Lists, NEW b \in 0 .. Len(p[l]), NEW v \in V
    PROVE  /\ MayInsert(V, s, l, At(p[l], b), At(p[l], b + 1), v)
           /\ LaidOut(NodeBetween(s, l, At(p[l], b), At(p[l], b + 1), v), V, Taken(s, p, l, b),
                    [sq EXCEPT ![l] = Splice(sq[l], b, <<v>>)])
<1> DEFINE x == NextSlot(s)
           q == p[l]
<1>1. /\ q \in Seq(Nodes) /\ s \in NodeRecords(V) /\ Placed(p, s.made) /\ p[FreeRow] = s.free
      /\ s.made <= s.segments * SegmentCapacity /\ Len(q) \in Nat
    BY HeldRow
<1>2. x \in Nodes /\ \A i \in 1 .. Len(q) : q[i] # x
    BY <1>1, SlotTaken
<1> HIDE DEF q, x
<1>3. \A i \in Int : At(q, i) \in Links /\ At(q, i) # x
    <2>1. ASSUME NEW i \in Int PROVE At(q, i) \in Links /\ At(q, i) # x
        <3>1. At(q, i) \in Links
            BY <1>1, AtIsLink
        <3>2. At(q, i) # x
            BY <1>2 DEF At
        <3> QED
            BY <3>1, <3>2
    <2> QED
        BY <2>1
<1>4. b \in Int /\ b + 1 \in Int
    BY <1>1 DEF q
<1>5. MayInsert(V, s, l, At(q, b), At(q, b + 1), v)
    BY <1>1, <1>3, <1>4 DEF MayInsert, x
<1>6. /\ NodeBetween(s, l, At(q, b), At(q, b + 1), v) \in NodeRecords(V)
      /\ Inserts(s, NodeBetween(s, l, At(q, b), At(q, b + 1), v), l, At(q, b), At(q, b + 1), v)
    BY <1>5, NodeBetweenInserts
<1> QED
    BY <1>5, <1>6, InsertsHold DEF q

LEMMA PushedBack ==
    ASSUME NEW s, NEW V, NEW p, NEW sq, LaidOut(s, V, p, sq), Null \notin Nodes, Null \in V, HasRoom(s),
           NEW l \in Lists, NEW v \in V
    PROVE  LaidOut(PushBack(s, l, v), V, Taken(s, p, l, Len(p[l])), [sq EXCEPT ![l] = Append(sq[l], v)])
<1> DEFINE b == Len(p[l])
<1>1. /\ p[l] \in Seq(Nodes) /\ b \in Nat /\ b \in 0 .. Len(p[l]) /\ sq[l] \in Seq(V)
      /\ Len(sq[l]) = b /\ s.head[l] = At(p[l], 1) /\ s.tail[l] = At(p[l], b)
    BY HeldRow
<1>2. /\ MayInsert(V, s, l, At(p[l], b), At(p[l], b + 1), v)
      /\ LaidOut(NodeBetween(s, l, At(p[l], b), At(p[l], b + 1), v), V, Taken(s, p, l, b),
               [sq EXCEPT ![l] = Splice(sq[l], b, <<v>>)])
    BY <1>1, NodeInserted
<1>3. At(p[l], b + 1) = Null
    BY <1>1 DEF At
<1>4. s.head[l] = Null <=> s.tail[l] = Null
    <2>1. CASE b = 0
        BY <1>1, <2>1 DEF At
    <2>2. CASE b # 0
        <3>1. 1 \in 1 .. b /\ b \in 1 .. b
            BY <1>1, <2>2
        <3>2. p[l][1] \in Nodes /\ p[l][b] \in Nodes
            BY <1>1, <3>1
        <3> QED
            BY <1>1, <3>1, <3>2 DEF At
    <2> QED
        BY <2>1, <2>2
<1>5. PushBack(s, l, v) = NodeBetween(s, l, s.tail[l], Null, v)
    <2> DEFINE n == s.tail[l]
    <2>1. MayInsert(V, s, l, n, Null, v) /\ (s.head[l] = Null <=> n = Null)
        BY <1>1, <1>2, <1>3, <1>4
    <2>2. n = s.tail[l]
        OBVIOUS
    <2> HIDE DEF n
    <2>3. IsBetween(PushBack(s, l, v), s, l, n, Null, v)
        BY <2>1, <2>2, PushBackInserts
    <2>4. PushBack(s, l, v) = NodeBetween(s, l, n, Null, v)
        BY <2>3 DEF IsBetween
    <2> QED
        BY <2>2, <2>4
<1>6. Append(sq[l], v) = Splice(sq[l], b, <<v>>)
    BY <1>1, AppendIsSplice
<1> QED
    BY <1>1, <1>2, <1>3, <1>5, <1>6

LEMMA PushedFront ==
    ASSUME NEW s, NEW V, NEW p, NEW sq, LaidOut(s, V, p, sq), Null \notin Nodes, Null \in V, HasRoom(s),
           NEW l \in Lists, NEW v \in V
    PROVE  LaidOut(PushFront(s, l, v), V, Taken(s, p, l, 0), [sq EXCEPT ![l] = <<v>> \o sq[l]])
<1>1. /\ p[l] \in Seq(Nodes) /\ 0 \in 0 .. Len(p[l]) /\ sq[l] \in Seq(V) /\ s.head[l] = At(p[l], 1)
    BY HeldRow
<1>2. /\ MayInsert(V, s, l, At(p[l], 0), At(p[l], 0 + 1), v)
      /\ LaidOut(NodeBetween(s, l, At(p[l], 0), At(p[l], 0 + 1), v), V, Taken(s, p, l, 0),
               [sq EXCEPT ![l] = Splice(sq[l], 0, <<v>>)])
    BY <1>1, NodeInserted
<1>3. At(p[l], 0) = Null /\ 0 + 1 = 1
    BY <1>1 DEF At
<1>4. PushFront(s, l, v) = NodeBetween(s, l, Null, s.head[l], v)
    <2> DEFINE n == s.head[l]
    <2>1. MayInsert(V, s, l, Null, n, v)
        BY <1>1, <1>2, <1>3
    <2>2. n = s.head[l]
        OBVIOUS
    <2> HIDE DEF n
    <2>3. IsBetween(PushFront(s, l, v), s, l, Null, n, v)
        BY <2>1, <2>2, PushFrontInserts
    <2>4. PushFront(s, l, v) = NodeBetween(s, l, Null, n, v)
        BY <2>3 DEF IsBetween
    <2> QED
        BY <2>2, <2>4
<1>5. <<v>> \o sq[l] = Splice(sq[l], 0, <<v>>)
    BY <1>1, PrependIsSplice
<1> QED
    BY <1>1, <1>2, <1>3, <1>4, <1>5

LEMMA NodesJoined ==
    ASSUME NEW s, NEW V, NEW p, NEW sq, LaidOut(s, V, p, sq), Null \notin Nodes,
           NEW l \in Lists, NEW m \in Lists, l # m, Len(p[m]) > 0, NEW b \in 0 .. Len(p[l])
    PROVE  LaidOut(NodesMoved(s, l, At(p[l], b), At(p[l], b + 1), m), V,
                 Rearranged(p, l, Splice(p[l], b, p[m]), m, << >>),
                 [sq EXCEPT ![l] = Splice(sq[l], b, sq[m]), ![m] = << >>])
<1> DEFINE q == p[l]
           t == p[m]
           k == Len(t)
<1>1. /\ q \in Seq(Nodes) /\ s \in NodeRecords(V) /\ Placed(p, s.made) /\ l \in Rows
      /\ Len(q) \in Nat /\ sq \in [Lists -> Seq(V)] /\ s.made \in Nat
    BY HeldRow DEF NodeRecords
<1>2. /\ t \in Seq(Nodes) /\ m \in Rows /\ k \in Nat
      /\ s.head[m] = At(t, 1) /\ s.tail[m] = At(t, k)
    BY HeldRow
<1>3. k > 0 /\ 1 \in 1 .. k /\ k \in 1 .. k
    BY <1>2
<1>4. /\ s.head[m] = t[1] /\ s.tail[m] = t[k] /\ t[1] \in Nodes /\ t[k] \in Nodes
    BY <1>2, <1>3 DEF At
<1>5. \A i \in 1 .. Len(q), j \in 1 .. k : q[i] # t[j]
    BY <1>1, <1>2, OnePlace
<1> HIDE DEF q, t, k
<1>6. \A i \in Int : At(q, i) \in Links /\ At(q, i) # t[1] /\ At(q, i) # t[k]
    <2>1. ASSUME NEW i \in Int PROVE At(q, i) \in Links /\ At(q, i) # t[1] /\ At(q, i) # t[k]
        <3>1. At(q, i) \in Links
            BY <1>1, AtIsLink
        <3>2. CASE i \in 1 .. Len(q)
            BY <1>3, <1>5, <3>1, <3>2 DEF At
        <3>3. CASE i \notin 1 .. Len(q)
            BY <1>4, <3>1, <3>3 DEF At
        <3> QED
            BY <3>2, <3>3
    <2> QED
        BY <2>1
<1>7. b \in Int /\ b + 1 \in Int
    BY <1>1 DEF q
<1> DEFINE d == NodesMoved(s, l, At(q, b), At(q, b + 1), m)
<1>8. d \in NodeRecords(V) /\ Joins(s, d, l, m, At(q, b), At(q, b + 1))
    BY <1>1, <1>4, <1>6, <1>7, NodesMovedJoins
<1> HIDE DEF d
<1>9. LaidOut(d, V, Rearranged(p, l, Splice(q, b, t), m, << >>),
            [u \in Lists |-> IF u = l THEN Splice(sq[l], b, sq[m])
                             ELSE IF u = m THEN << >> ELSE sq[u]])
    BY <1>8, JoinsHold DEF q, t
<1>10. [sq EXCEPT ![l] = Splice(sq[l], b, sq[m]), ![m] = << >>] =
           [u \in Lists |-> IF u = l THEN Splice(sq[l], b, sq[m])
                            ELSE IF u = m THEN << >> ELSE sq[u]]
    <2> DEFINE r == Splice(sq[l], b, sq[m])
    <2> HIDE DEF r
    <2>1. [sq EXCEPT ![l] = r, ![m] = << >>] =
              [u \in Lists |-> IF u = l THEN r ELSE IF u = m THEN << >> ELSE sq[u]]
        BY <1>1
    <2> QED
        BY <2>1 DEF r
<1> QED
    BY <1>9, <1>10 DEF d, q, t

LEMMA NodeErased ==
    ASSUME NEW s, NEW V, NEW p, NEW sq, LaidOut(s, V, p, sq), Null \notin Nodes, Null \in V,
           NEW l \in Lists, NEW k \in 0 .. Len(p[l]) - 1
    PROVE  LaidOut(EraseNode(s, l, p[l][k + 1]), V,
                 Rearranged(p, l, Cut(p[l], k), FreeRow, Append(s.free, p[l][k + 1])),
                 [sq EXCEPT ![l] = Cut(sq[l], k)])
<1> DEFINE q == p[l]
           x == q[k + 1]
<1>1. /\ q \in Seq(Nodes) /\ s \in NodeRecords(V) /\ Placed(p, s.made) /\ l \in Rows
      /\ Len(q) \in Nat /\ s.size[l] = Len(q) /\ s.made \in Nat
    BY HeldRow DEF NodeRecords
<1>2. IsList(s, l, q)
    BY ListsInHolds
<1>3. \A i, j \in 1 .. Len(q) : q[i] = q[j] => i = j
    BY <1>1, OnePlace
<1>4. k \in Nat /\ k + 1 \in 1 .. Len(q)
    BY <1>1
<1> HIDE DEF q
<1>5. x \in Nodes /\ s.prev[x] = At(q, (k + 1) - 1) /\ s.next[x] = At(q, (k + 1) + 1)
    BY <1>1, <1>2, <1>4 DEF IsList, Linked
<1>6. ASSUME NEW i \in Int, i # k + 1 PROVE At(q, i) # x
    <2>1. CASE i \in 1 .. Len(q)
        BY <1>3, <1>4, <1>6, <2>1 DEF At
    <2>2. CASE i \notin 1 .. Len(q)
        BY <1>5, <2>2 DEF At
    <2> QED
        BY <2>1, <2>2
<1>7. s.prev[x] # x /\ s.next[x] # x
    <2>1. (k + 1) - 1 \in Int /\ (k + 1) - 1 # k + 1 /\ (k + 1) + 1 \in Int /\ (k + 1) + 1 # k + 1
        BY <1>4
    <2> QED
        BY <1>5, <1>6, <2>1
<1>8. s.size[l] > 0
    BY <1>1, <1>4
<1> HIDE DEF x
<1>9. EraseNode(s, l, x) \in NodeRecords(V) /\ Removes(s, EraseNode(s, l, x), l, x)
    BY <1>1, <1>5, <1>7, <1>8, EraseNodeRemoves
<1> QED
    BY <1>9, RemovesHold DEF q, x

LEMMA ListCleared ==
    ASSUME NEW s, NEW V, NEW p, NEW sq, LaidOut(s, V, p, sq), Null \notin Nodes, Null \in V, NEW l \in Lists
    PROVE  LaidOut(ClearList(s, l), V, Rearranged(p, FreeRow, Splice(s.free, Len(s.free), p[l]), l, << >>),
                 [sq EXCEPT ![l] = << >>])
<1>1. p[l] \in Seq(Nodes) /\ s \in NodeRecords(V) /\ Chain(s, l) = p[l]
    BY HeldRow, ListsInHolds
<1>2. ClearList(s, l) \in NodeRecords(V) /\ Clears(s, ClearList(s, l), l, p[l])
    BY <1>1, ClearListClears
<1> QED
    BY <1>2, ClearsHold

-----------------------------------------------------------------------------
(* Division                                                                *)

LEMMA Quotient ==
    ASSUME NEW i \in Nat, NEW n \in Nat \ {0}
    PROVE  /\ i \div n \in Nat /\ i % n \in 0 .. n - 1 /\ i = n * (i \div n) + (i % n)
OBVIOUS

LEMMA QuotientBelow ==
    ASSUME NEW i \in Nat, NEW n \in Nat \ {0}, NEW k \in Nat
    PROVE  i < k * n <=> i \div n < k
<1> DEFINE q == i \div n
           r == i % n
<1>1. q \in Nat /\ r \in 0 .. n - 1 /\ i = n * q + r
    BY Quotient
<1> HIDE DEF q, r
<1>2. ASSUME q >= k PROVE i >= k * n
    <2>1. PICK d \in Nat : q = k + d
        BY <1>1, <1>2
    <2>2. n * q = k * n + n * d /\ n * d \in Nat /\ k * n \in Nat
        BY <2>1
    <2> QED
        BY <1>1, <2>2
<1>3. ASSUME q < k PROVE i < k * n
    <2>1. PICK d \in Nat : k = q + 1 + d
        <3>1. k - q - 1 \in Nat /\ k = q + 1 + (k - q - 1)
            BY <1>1, <1>3
        <3> QED
            BY <3>1
    <2>2. k * n = n * q + n + n * d /\ n * d \in Nat /\ n * q \in Nat
        BY <1>1, <2>1
    <2> QED
        BY <1>1, <2>2
<1>4. k * n \in Nat
    OBVIOUS
<1> QED
    BY <1>1, <1>2, <1>3, <1>4 DEF q
=============================================================================
