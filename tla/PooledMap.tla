------------------------------ MODULE PooledMap ------------------------------
(***************************************************************************)
(* PooledMap: a red-black tree with parent links.  A node is named by its  *)
(* key, which never changes while the node is in the tree; where the code  *)
(* has a branch for each side there is one operator with the side s as an  *)
(* argument.  Loops are iterated as often as the tree could need.          *)
(***************************************************************************)
EXTENDS Integers, FiniteSets

CONSTANTS MaxKey,   \* the keys are 1 .. MaxKey
          Values,
          Default,  \* Value()
          Null      \* a null pointer

Keys == 1 .. MaxKey

VARIABLES tree,     \* the nodes, root and size_
          dict      \* the std::map the same calls would have made

vars == <<tree, dict>>

Left == 0
Right == 1
Other(s) == 1 - s

Red == "red"
Black == "black"

NoTree == [kid |-> [s \in {Left, Right} |-> [k \in Keys |-> Null]],
           up |-> [k \in Keys |-> Null], color |-> [k \in Keys |-> Red],
           val |-> [k \in Keys |-> Default], root |-> Null, size |-> 0]

Init == tree = NoTree /\ dict = << >>

SideFor(k, x) == IF k < x THEN Left ELSE Right

(* Which child of its parent x is. *)
SideOf(t, x) == IF t.up[x] # Null /\ t.kid[Left][t.up[x]] = x THEN Left ELSE Right

IsRed(t, x) == x # Null /\ t.color[x] = Red

Paint(t, x, c) == IF x = Null THEN t ELSE [t EXCEPT !.color[x] = c]
SetUp(t, x, p) == IF x = Null THEN t ELSE [t EXCEPT !.up[x] = p]

(* The loop body, over and over; it leaves a finished state as it is. *)
Repeat(Body(_), start) ==
    LET after[n \in 0 .. 2 * MaxKey] == IF n = 0 THEN start ELSE Body(after[n - 1])
    IN  after[2 * MaxKey]

-----------------------------------------------------------------------------
(* The way down from the root: the node of k, or the one it would hang on. *)
Search(t, k) ==
    LET Down(w) == IF w.at \in {k, Null} THEN w
                   ELSE [at |-> t.kid[SideFor(k, w.at)][w.at], last |-> w.at]
    IN  Repeat(Down, [at |-> t.root, last |-> Null])

Has(t, k) == Search(t, k).at # Null                             \* contains()
Find(t, k) == IF Has(t, k) THEN t.val[k] ELSE Default           \* find()

(* minimum() *)
Minimum(t, x) ==
    LET Down(y) == IF t.kid[Left][y] = Null THEN y ELSE t.kid[Left][y]
    IN  Repeat(Down, x)

(* Where x hung, y hangs. *)
Hang(t, x, y) ==
    IF t.up[x] = Null THEN [t EXCEPT !.root = y]
    ELSE [t EXCEPT !.kid[SideOf(t, x)][t.up[x]] = y]

(* rotate_left() for s = Left, rotate_right() for s = Right *)
Rotate(t, x, s) ==
    LET y == t.kid[Other(s)][x]
        moved == SetUp([t EXCEPT !.kid[Other(s)][x] = t.kid[s][y]], t.kid[s][y], x)
        hung == Hang([moved EXCEPT !.up[y] = t.up[x]], x, y)
    IN  [hung EXCEPT !.kid[s][y] = x, !.up[x] = y]

(* transplant() *)
Transplant(t, u, v) == SetUp(Hang(t, u, v), v, t.up[u])

-----------------------------------------------------------------------------
(* fix_insert(): what one round makes of the tree and the node z. *)
InsertRound(w) ==
    LET t == w.t
        p == t.up[w.z]
        g == t.up[p]
        s == SideOf(t, p)
        uncle == t.kid[Other(s)][g]
        inner == w.z = t.kid[Other(s)][p]
        turned == IF inner THEN Rotate(t, p, s) ELSE t
        top == IF inner THEN w.z ELSE p
    IN  IF p = Null \/ ~IsRed(t, p) THEN w
        ELSE IF IsRed(t, uncle)
        THEN [t |-> Paint(Paint(Paint(t, p, Black), uncle, Black), g, Red), z |-> g]
        ELSE [t |-> Rotate(Paint(Paint(turned, top, Black), g, Red), g, Other(s)),
              z |-> IF inner THEN p ELSE w.z]

FixInsert(t, z) ==
    LET fixed == Repeat(InsertRound, [t |-> t, z |-> z]).t
    IN  Paint(fixed, fixed.root, Black)

Insert(t, k) ==
    LET p == Search(t, k).last
        new == [t EXCEPT !.up[k] = p, !.size = @ + 1]
    IN  FixInsert(IF p = Null THEN [new EXCEPT !.root = k]
                  ELSE [new EXCEPT !.kid[SideFor(k, p)][p] = k], k)

(* operator[] and the assignment through what it returns *)
Assign(k, v) ==
    /\ tree' = [(IF Has(tree, k) THEN tree ELSE Insert(tree, k)) EXCEPT !.val[k] = v]
    /\ dict' = [j \in DOMAIN dict \cup {k} |-> IF j = k THEN v ELSE dict[j]]

-----------------------------------------------------------------------------
(* Fault: the sibling is black wherever it hangs from now on. *)
AlwaysBlack(t, p) == Black

(* The color of the sibling once it hangs where p hung. *)
ColorTakenOver(t, p) == t.color[p]

(* fix_erase(): one round, for the node x (which may be null), its parent  *)
(* and so its sibling.                                                     *)
EraseRound(w) ==
    LET s == IF w.x = w.t.kid[Left][w.p] THEN Left ELSE Right
        o == Other(s)
        first == w.t.kid[o][w.p]
        t == IF ~IsRed(w.t, first) THEN w.t
             ELSE Rotate(Paint(Paint(w.t, first, Black), w.p, Red), w.p, s)
        b == t.kid[o][w.p]
        turned == IF IsRed(t, t.kid[o][b]) THEN t
                  ELSE Rotate(Paint(Paint(t, t.kid[s][b], Black), b, Red), b, o)
        c == turned.kid[o][w.p]
        painted == Paint(Paint(Paint(turned, c, ColorTakenOver(turned, w.p)), w.p, Black),
                         turned.kid[o][c], Black)
        done == Rotate(painted, w.p, s)
    IN  IF w.x = w.t.root \/ IsRed(w.t, w.x) THEN w
        ELSE IF ~IsRed(t, t.kid[Left][b]) /\ ~IsRed(t, t.kid[Right][b])
        THEN [t |-> Paint(t, b, Red), x |-> w.p, p |-> t.up[w.p]]
        ELSE [t |-> done, x |-> done.root, p |-> w.p]

FixErase(t, x, p) ==
    LET w == Repeat(EraseRound, [t |-> t, x |-> x, p |-> p])
    IN  Paint(w.t, w.x, Black)

(* The node goes back to the pool, with nothing left in it. *)
Recycle(t, z) ==
    [t EXCEPT !.kid[Left][z] = Null, !.kid[Right][z] = Null, !.up[z] = Null,
              !.color[z] = Red, !.val[z] = Default, !.size = @ - 1]

(* z has at most one child, on the side s. *)
EraseOuter(t, z, s) ==
    LET x == t.kid[s][z]
        out == Recycle(Transplant(t, z, x), z)
    IN  IF t.color[z] = Black THEN FixErase(out, x, t.up[z]) ELSE out

(* z has two children, and its successor y takes its place and its color:  *)
(* the color that is gone from the tree is that of y.                      *)
EraseInner(t, z) ==
    LET y == Minimum(t, t.kid[Right][z])
        x == t.kid[Right][y]
        near == t.up[y] = z
        xp == IF near THEN y ELSE t.up[y]
        lifted == IF near THEN SetUp(t, x, y)
                  ELSE SetUp([Transplant(t, y, x) EXCEPT !.kid[Right][y] = t.kid[Right][z]],
                             t.kid[Right][z], y)
        placed == Transplant(lifted, z, y)
        out == Recycle(Paint(SetUp([placed EXCEPT !.kid[Left][y] = t.kid[Left][z]],
                                   t.kid[Left][z], y),
                             y, t.color[z]), z)
    IN  IF t.color[y] = Black THEN FixErase(out, x, xp) ELSE out

EraseKey(t, z) ==
    IF ~Has(t, z) THEN t
    ELSE IF t.kid[Left][z] = Null THEN EraseOuter(t, z, Right)
    ELSE IF t.kid[Right][z] = Null THEN EraseOuter(t, z, Left)
    ELSE EraseInner(t, z)

Erase(k) ==
    /\ tree' = EraseKey(tree, k)
    /\ dict' = [j \in DOMAIN dict \ {k} |-> dict[j]]

Next == \E k \in Keys : (\E v \in Values : Assign(k, v)) \/ Erase(k)

Spec == Init /\ [][Next]_vars

-----------------------------------------------------------------------------
(* x and the nodes above it. *)
Above(t, x) ==
    LET up[n \in 0 .. MaxKey] == IF n = 0 THEN x ELSE IF up[n - 1] = Null THEN Null
                                 ELSE t.up[up[n - 1]]
    IN  {up[n] : n \in 0 .. MaxKey} \ {Null}

InTree(t) == {x \in Keys : t.root \in Above(t, x)}

Linked(t) ==
    /\ t.root # Null => t.up[t.root] = Null
    /\ \A x \in InTree(t) :
           /\ \A s \in {Left, Right} : t.kid[s][x] # Null => t.up[t.kid[s][x]] = x
           /\ x # t.root => t.kid[SideFor(x, t.up[x])][t.up[x]] = x

Ordered(t) ==
    \A y \in InTree(t) : \A x \in Above(t, y) \ {y} : t.kid[SideFor(y, x)][x] \in Above(t, y)

Balanced(t) ==
    LET blacks(x) == Cardinality({y \in Above(t, x) : ~IsRed(t, y)})
        ends == {x \in InTree(t) : Null \in {t.kid[Left][x], t.kid[Right][x]}}
    IN  /\ ~IsRed(t, t.root)
        /\ \A x \in InTree(t) : IsRed(t, x) => ~IsRed(t, t.up[x])
        /\ \A x, y \in ends : blacks(x) = blacks(y)

(* After every sequence of insertions and erasures the links lead down and *)
(* up the same way, the keys are in order, no red node has a red parent    *)
(* and every way down has as many black nodes as any other, so that a      *)
(* search is short; and the searches find what a std::map would hold.      *)
RedBlackMap ==
    /\ Linked(tree) /\ Ordered(tree) /\ Balanced(tree)
    /\ InTree(tree) = DOMAIN dict /\ tree.size = Cardinality(DOMAIN dict)
    /\ \A k \in Keys :
           /\ Has(tree, k) <=> k \in DOMAIN dict
           /\ k \in DOMAIN dict => Find(tree, k) = dict[k]
=============================================================================
