----------------------------- MODULE PooledVector -----------------------------
(***************************************************************************)
(* PooledVector: the cells of a block of memory, of which the first _size  *)
(* hold objects.  The objects have constructors that may throw and         *)
(* destructors that must run once; what a wrong call of either does is     *)
(* recorded in broken.                                                     *)
(***************************************************************************)
EXTENDS Integers, Sequences, FiniteSets, SequencesExt

CONSTANTS
    Vectors,
    Elements,            \* the values of the objects
    Default,             \* the value of a default-constructed object
    MaxSize,             \* bound: the elements of a vector
    BlockFor(_),         \* the elements that fit in the block the pool gives for so many
    ThrowsInMiddle,      \* whether constructors throw in emplace() and erase() too
    ThrowsInConstructor, \* whether they throw while a vector is constructed too
    AliasedArguments     \* whether v.push_back(v[i]) is written

VARIABLES vec,     \* size: _size; cells: the _capacity cells of _data
          broken,  \* an object was destroyed twice, or never (history)
          seqs     \* seqs[v]: the sequence the same calls would have made

vars == <<vec, broken, seqs>>

Raw == "raw"      \* a cell without an object
Freed == "freed"  \* what is read through a dangling reference

Empty == [size |-> 0, cells |-> << >>]

Init ==
    /\ vec = [v \in Vectors |-> Empty]
    /\ broken = FALSE
    /\ seqs = [v \in Vectors |-> << >>]

Capacity(p) == Len(p.cells)
Becomes(v, s) == seqs' = [seqs EXCEPT ![v] = s]

RawCells(n) == [i \in 1 .. n |-> Raw]

(* destroy_elements(from, to) destroys an object in each of these cells. *)
Destroyed(p, from, to) ==
    [p EXCEPT !.cells = [i \in DOMAIN @ |-> IF i \in from + 1 .. to THEN Raw ELSE @[i]]]

(* No object there to destroy. *)
Missing(p, from, to) == \E i \in from + 1 .. to : p.cells[i] = Raw

(* Objects beyond the size: nobody will destroy them. *)
Stray(p) == \E i \in p.size + 1 .. Capacity(p) : p.cells[i] # Raw

(* The objects in a new block of so many cells. *)
InBlock(p, cells) ==
    [p EXCEPT !.cells = SubSeq(p.cells, 1, p.size) \o RawCells(cells - p.size)]

(* reserve(): if a copy throws the old block is kept and nothing changed. *)
Reserved(p, n) == IF n <= Capacity(p) THEN p ELSE InBlock(p, BlockFor(n))

(* ensure_capacity_for_one_more() *)
WithRoom(p) ==
    IF p.size < Capacity(p) THEN p
    ELSE Reserved(p, IF Capacity(p) = 0 THEN 1 ELSE 2 * Capacity(p))

(* So many elements of s are constructed at the end, one after the other. *)
AppendAll(p, s) ==
    LET after[n \in 0 .. Len(s)] ==
            IF n = 0 THEN p
            ELSE LET q == WithRoom(after[n - 1])
                 IN  [q EXCEPT !.cells[q.size + 1] = s[n], !.size = @ + 1]
    IN  after[Len(s)]

-----------------------------------------------------------------------------
(* What the vector v becomes, with the objects this loses or destroys twice. *)
Put(v, p, missing) ==
    /\ vec' = [vec EXCEPT ![v] = p]
    /\ broken' = (broken \/ missing)

Reserve(v, n) == Put(v, Reserved(vec[v], n), FALSE) /\ UNCHANGED seqs

ShrinkToFit(v) ==
    /\ Put(v, InBlock(vec[v], vec[v].size), FALSE)
    /\ UNCHANGED seqs

(* emplace_back() and push_back(): the constructor may throw, and then     *)
(* only the capacity has changed.  A reference into the vector dangles     *)
(* when the block is replaced.                                             *)
PushBack(v, x) ==
    /\ vec[v].size < MaxSize
    /\ \/ Put(v, AppendAll(vec[v], <<x>>), FALSE) /\ Becomes(v, Append(seqs[v], x))
       \/ Put(v, WithRoom(vec[v]), FALSE) /\ UNCHANGED seqs

PushBackOwn(v, i) ==
    /\ vec[v].size < MaxSize
    /\ LET p == vec[v]
           x == IF p.size = Capacity(p) THEN Freed ELSE p.cells[i]
       IN  Put(v, AppendAll(p, <<x>>), FALSE)
    /\ Becomes(v, Append(seqs[v], seqs[v][i]))

PopBack(v) ==
    /\ vec[v].size > 0
    /\ LET n == vec[v].size
       IN  Put(v, [Destroyed(vec[v], n - 1, n) EXCEPT !.size = n - 1], Missing(vec[v], n - 1, n))
    /\ Becomes(v, Front(seqs[v]))

(* Fault: the last element is not moved to the new cell first. *)
ShiftedShort(cells, size, index) ==
    [i \in DOMAIN cells |-> IF i \in index + 2 .. size THEN cells[i - 1] ELSE cells[i]]

(* The elements from index on, moved up by one. *)
Shifted(cells, size, index) ==
    [i \in DOMAIN cells |-> IF i \in index + 2 .. size + 1 THEN cells[i - 1] ELSE cells[i]]

(* emplace() before another element.  When the constructor throws, the     *)
(* cell at index is left without an object and the last one is beyond the  *)
(* size.                                                                   *)
EmplaceInside(v, index, x) ==
    /\ index < vec[v].size /\ vec[v].size < MaxSize
    /\ LET p == WithRoom(vec[v])
           cells == Shifted(p.cells, p.size, index)
       IN  \E throws \in {FALSE, ThrowsInMiddle} :
               IF throws
               THEN Put(v, [p EXCEPT !.cells = [cells EXCEPT ![index + 1] = Raw]], FALSE)
                    /\ UNCHANGED seqs
               ELSE /\ Put(v, [p EXCEPT !.cells = [cells EXCEPT ![index + 1] = x], !.size = @ + 1],
                           cells[index + 1] = Raw)
                    /\ Becomes(v, InsertAt(seqs[v], index + 1, x))

(* erase(): every later element is constructed one cell lower and then     *)
(* destroyed where it was; a constructor that throws leaves a hole.        *)
Erase(v, index) ==
    /\ index < vec[v].size
    /\ LET p == vec[v]
           down(last) == [i \in DOMAIN p.cells |->
                             IF i \in index + 1 .. last THEN p.cells[i + 1]
                             ELSE IF i = last + 1 THEN Raw ELSE p.cells[i]]
       IN  \/ /\ Put(v, [size |-> p.size - 1, cells |-> down(p.size - 1)],
                     Missing(p, index, p.size))
              /\ Becomes(v, RemoveAt(seqs[v], index + 1))
           \/ \E last \in IF ThrowsInMiddle THEN index .. p.size - 2 ELSE {} :
                  Put(v, [p EXCEPT !.cells = down(last)], FALSE) /\ UNCHANGED seqs

(* resize(): the elements that are added are default-constructed or        *)
(* copies, and if one throws those before it stay.                         *)
Resize(v, n, x) ==
    LET p == vec[v]
    IN  IF n < p.size
        THEN /\ Put(v, [Destroyed(p, n, p.size) EXCEPT !.size = n], Missing(p, n, p.size))
             /\ Becomes(v, SubSeq(seqs[v], 1, n))
        ELSE \E k \in 0 .. n - p.size :
                 LET added == [i \in 1 .. k |-> x]
                 IN  /\ Put(v, AppendAll(Reserved(p, n), added), FALSE)
                     /\ Becomes(v, seqs[v] \o added)

Clear(v) ==
    LET p == vec[v]
    IN  /\ Put(v, [Destroyed(p, 0, p.size) EXCEPT !.size = 0], Missing(p, 0, p.size))
        /\ Becomes(v, << >>)

(* The constructors that fill a vector; the one v was is destroyed before. *)
(* When the constructor of an element throws there is no v whose           *)
(* destructor would run: the elements made so far are never destroyed.     *)
Construct(v, cells, s) ==
    LET p == vec[v]
    IN  \/ /\ Put(v, AppendAll(Reserved(Empty, Len(cells)), cells), Missing(p, 0, p.size))
           /\ Becomes(v, s)
        \/ \E made \in IF ThrowsInConstructor THEN 0 .. Len(cells) - 1 ELSE {} :
               /\ Put(v, Empty, made > 0 \/ Missing(p, 0, p.size))
               /\ Becomes(v, << >>)

(* PooledVector(count) and PooledVector(count, value) *)
ConstructFilled(v, n, x) == Construct(v, [i \in 1 .. n |-> x], [i \in 1 .. n |-> x])

(* PooledVector(const PooledVector&) *)
ConstructCopy(v, w) ==
    v # w /\ Construct(v, SubSeq(vec[w].cells, 1, vec[w].size), seqs[w])

(* Copy assignment: the first k elements are there when the next throws.   *)
CopyAssign(v, w) ==
    /\ v # w
    /\ LET p == vec[v]
           empty == [Destroyed(p, 0, p.size) EXCEPT !.size = 0]
       IN  \E k \in 0 .. vec[w].size :
               /\ Put(v, AppendAll(Reserved(empty, vec[w].size), SubSeq(vec[w].cells, 1, k)),
                      Missing(p, 0, p.size))
               /\ Becomes(v, SubSeq(seqs[w], 1, k))

(* Move assignment, and the move constructor of an empty v *)
MoveAssign(v, w) ==
    /\ v # w
    /\ vec' = [vec EXCEPT ![v] = vec[w], ![w] = Empty]
    /\ broken' = (broken \/ Missing(vec[v], 0, vec[v].size))
    /\ seqs' = [seqs EXCEPT ![v] = seqs[w], ![w] = << >>]

Next ==
    \E v \in Vectors :
        \/ \E n \in 0 .. MaxSize :
               \/ Reserve(v, n)
               \/ \E x \in Elements \cup {Default} : Resize(v, n, x) \/ ConstructFilled(v, n, x)
        \/ \E x \in Elements : PushBack(v, x) \/ \E i \in 0 .. MaxSize : EmplaceInside(v, i, x)
        \/ \E i \in IF AliasedArguments THEN 1 .. vec[v].size ELSE {} : PushBackOwn(v, i)
        \/ \E i \in 0 .. MaxSize : Erase(v, i)
        \/ ShrinkToFit(v) \/ PopBack(v) \/ Clear(v)
        \/ \E w \in Vectors : ConstructCopy(v, w) \/ CopyAssign(v, w) \/ MoveAssign(v, w)

Spec == Init /\ [][Next]_vars

-----------------------------------------------------------------------------
(* Through growing, shrinking, shifting, copies and moves of whole         *)
(* vectors, and constructors that throw at the end of one: every object is *)
(* destroyed once, those below the size are alive and no other is, and     *)
(* they are the elements a sequence would hold.                            *)
VectorsHoldElements ==
    /\ ~broken
    /\ \A v \in Vectors :
           /\ ~Stray(vec[v])
           /\ SubSeq(vec[v].cells, 1, vec[v].size) = seqs[v]
=============================================================================
