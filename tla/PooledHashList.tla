--------------------------- MODULE PooledHashList ---------------------------
(***************************************************************************)
(* PooledHashList: a PooledList with a cache from indices to nodes, which  *)
(* nodeAt() starts its walks from and every change of the list must keep   *)
(* true.  The nodes and the links are those of PooledNodes.                *)
(*                                                                         *)
(* Four calls leave the cache or the size wrong; they happen only when     *)
(* EdgeCalls names them.                                                   *)
(***************************************************************************)
EXTENDS PooledNodes

CONSTANTS
    Elements,     \* the values in the lists
    CacheMax,     \* _cacheMaxSize
    Stride,       \* 64: one index in so many is cached, and no shorter way is shortened
    DenseBelow,   \* 4096: the size up to which push_back() caches like that
    Sparse,       \* 256
    FarFromEnds,  \* 16: an insertion nearer to both ends is not cached
    CachePer,     \* 128: nodeAt() may cache one index for so many elements
    EdgeCalls     \* among "insert at an end", "insert_list at the front",
                  \* "erase a node" and "clear and go on"

VARIABLES st,     \* the pool, the nodes and the lists
          cache,  \* cache[l]: _indexCache
          seqs    \* seqs[l]: the sequence the same calls would have made

vars == <<st, cache, seqs>>

Nothing == << >>  \* an empty _indexCache

Init ==
    /\ st = NoNodes
    /\ cache = [l \in Lists |-> Nothing]
    /\ seqs = [l \in Lists |-> << >>]

Becomes(l, s) == seqs' = [seqs EXCEPT ![l] = s]
Spliced(s, pos, t) == SubSeq(s, 1, pos) \o t \o SubSeq(s, pos + 1, Len(s))

Put(c, i, x) == [j \in {i} \cup DOMAIN c |-> IF j = i THEN x ELSE c[j]]

(* Fault: the entry of the element that moves up is kept. *)
BelowOrAt(c, idx) == [i \in {j \in DOMAIN c : j <= idx} |-> c[i]]

(* deleteCacheUpperThan() *)
Below(c, idx) == [i \in {j \in DOMAIN c : j < idx} |-> c[i]]

Distance(i, j) == IF i > j THEN i - j ELSE j - i

-----------------------------------------------------------------------------
(* nodeAt() *)

(* The end the search starts from. *)
NearerEnd(l, idx) == IF idx > st.size[l] \div 2 THEN st.size[l] - 1 ELSE 0

(* Where the walk may start: a cached index nearer than the end, which is  *)
(* any that is near enough, in the order of an unordered_map, and the      *)
(* nearest of them when none is.                                           *)
Starts(l, idx) ==
    LET e == NearerEnd(l, idx)
        nearer == {i \in DOMAIN cache[l] : Distance(i, idx) < Distance(e, idx)}
        near == {i \in nearer : Distance(i, idx) < Stride}
    IN  IF Distance(e, idx) <= Stride \/ nearer = {} THEN {e}
        ELSE IF near # {} THEN near
        ELSE {i \in nearer : \A j \in nearer : Distance(i, idx) <= Distance(j, idx)}

StartNode(l, i) == IF i \in DOMAIN cache[l] THEN cache[l][i]
                   ELSE IF i = 0 THEN st.head[l] ELSE st.tail[l]

(* The node at idx, found from the node at i. *)
WalkFrom(l, i, idx) ==
    IF i < idx THEN Walk(st.next, StartNode(l, i), idx - i)
    ELSE Walk(st.prev, StartNode(l, i), i - idx)

CachesAnother(l) ==
    LET n == Cardinality(DOMAIN cache[l])
    IN  n < CacheMax \/ n < st.size[l] \div CachePer

(* What nodeAt() may return, with the cache it leaves. *)
NodesAt(l, idx) ==
    IF idx \in DOMAIN cache[l] THEN {[node |-> cache[l][idx], left |-> cache[l]]}
    ELSE {[node |-> x, left |-> IF CachesAnother(l) THEN Put(cache[l], idx, x) ELSE cache[l]] :
             x \in {WalkFrom(l, i, idx) : i \in Starts(l, idx)}}

(* operator[] and at() *)
Access(l, idx) ==
    /\ idx < st.size[l]
    /\ \E found \in NodesAt(l, idx) : cache' = [cache EXCEPT ![l] = found.left]
    /\ UNCHANGED <<st, seqs>>

-----------------------------------------------------------------------------
CachesPushed(l) ==
    /\ Cardinality(DOMAIN cache[l]) < CacheMax
    /\ IF st.size[l] < DenseBelow THEN st.size[l] % Stride = 0 ELSE st.size[l] % Sparse # 0

(* What push_back() leaves in the cache. *)
CachePushed(l) ==
    IF CachesPushed(l) THEN Put(cache[l], st.size[l], NextSlot(st)) ELSE cache[l]

HPushBack(l, v) ==
    /\ HasRoom(st)
    /\ st' = PushBack(st, l, v)
    /\ cache' = [cache EXCEPT ![l] = CachePushed(l)]
    /\ Becomes(l, Append(seqs[l], v))

(* Fault: the indices of the cached nodes are not told. *)
PushFrontKeepsCache(l, v) ==
    /\ HasRoom(st)
    /\ st' = PushFront(st, l, v)
    /\ cache' = cache
    /\ Becomes(l, <<v>> \o seqs[l])

HPushFront(l, v) ==
    /\ HasRoom(st)
    /\ st' = PushFront(st, l, v)
    /\ cache' = [cache EXCEPT ![l] = Nothing]
    /\ Becomes(l, <<v>> \o seqs[l])

(* insert(): between two elements, or at an end, where push_front() or     *)
(* push_back() has counted the element before insert() counts it again.    *)
InsertBetween(l, pos, v) ==
    \E found \in NodesAt(l, pos) :
        LET x == NextSlot(st)
            kept == Below(found.left, pos)
            far == pos > FarFromEnds \/ st.size[l] - pos > FarFromEnds
        IN  /\ st' = [Link(Create(st, v), l, st.prev[found.node], x, x, found.node)
                         EXCEPT !.size[l] = @ + 1]
            /\ cache' = [cache EXCEPT ![l] = IF far THEN Put(kept, pos, x) ELSE kept]

InsertAtEnd(l, pos, v) ==
    LET pushed == IF pos = 0 THEN PushFront(st, l, v) ELSE PushBack(st, l, v)
    IN  /\ st' = [pushed EXCEPT !.size[l] = @ + 1]
        /\ cache' = [cache EXCEPT ![l] = IF pos = 0 THEN Nothing ELSE CachePushed(l)]

HInsert(l, pos, v) ==
    /\ HasRoom(st) /\ pos <= st.size[l]
    /\ IF pos \in {0, st.size[l]}
       THEN "insert at an end" \in EdgeCalls /\ InsertAtEnd(l, pos, v)
       ELSE InsertBetween(l, pos, v)
    /\ Becomes(l, Spliced(seqs[l], pos, <<v>>))

(* What insert_list() leaves in the cache of l when it moves m in after    *)
(* nodeAt(): both ends of a long list.                                     *)
CacheMoved(c, pos, m) ==
    LET first == Put(Below(c, pos), pos, st.head[m])
    IN  IF st.size[m] - 1 > Stride THEN Put(first, pos + st.size[m] - 1, st.tail[m]) ELSE first

(* insert_list(): at the front the cache is left as it is. *)
MovedIn(l, pos, m, p, n, c) ==
    /\ st' = [Link(st, l, p, st.head[m], st.tail[m], n)
                 EXCEPT !.size[l] = @ + st.size[m],
                        !.head[m] = Null, !.tail[m] = Null, !.size[m] = 0]
    /\ cache' = [cache EXCEPT ![l] = c, ![m] = Nothing]

HMoveIn(l, pos, m) ==
    /\ l # m /\ pos <= st.size[l] /\ st.size[m] > 0
    /\ IF pos = 0
       THEN /\ st.size[l] = 0 \/ "insert_list at the front" \in EdgeCalls
            /\ MovedIn(l, pos, m, Null, st.head[l], cache[l])
       ELSE IF pos = st.size[l] THEN MovedIn(l, pos, m, st.tail[l], Null, Nothing)
       ELSE \E found \in NodesAt(l, pos) :
                MovedIn(l, pos, m, st.prev[found.node], found.node, CacheMoved(found.left, pos, m))
    /\ seqs' = [seqs EXCEPT ![l] = Spliced(@, pos, seqs[m]), ![m] = << >>]

-----------------------------------------------------------------------------
PopFront(l) ==
    /\ st' = EraseNode(st, l, st.head[l])
    /\ cache' = [cache EXCEPT ![l] = Nothing]
    /\ Becomes(l, SubSeq(seqs[l], 2, Len(seqs[l])))

PopBack(l) ==
    /\ st' = EraseNode(st, l, st.tail[l])
    /\ cache' = [cache EXCEPT ![l] = [i \in DOMAIN @ \ {st.size[l] - 1} |-> @[i]]]
    /\ Becomes(l, SubSeq(seqs[l], 1, Len(seqs[l]) - 1))

(* erase(idx) inside the list: the next node takes the index over. *)
EraseInside(l, idx) ==
    /\ \E found \in NodesAt(l, idx) :
           /\ st' = EraseNode(st, l, found.node)
           /\ cache' = [cache EXCEPT ![l] = Put(Below(found.left, idx), idx, st.next[found.node])]
    /\ Becomes(l, RemoveAt(seqs[l], idx + 1))

(* erase() of a node nodeAt() returned: the cache is left as it is. *)
EraseFound(l, idx) ==
    /\ \E found \in NodesAt(l, idx) :
           /\ st' = EraseNode(st, l, found.node)
           /\ cache' = [cache EXCEPT ![l] = found.left]
    /\ Becomes(l, RemoveAt(seqs[l], idx + 1))

HErase(l, idx) ==
    /\ idx < st.size[l]
    /\ \E call \in {"erase an index"} \cup (EdgeCalls \cap {"erase a node"}) :
           IF call = "erase a node" THEN EraseFound(l, idx)
           ELSE IF idx = 0 THEN PopFront(l)
           ELSE IF idx + 1 = st.size[l] THEN PopBack(l)
           ELSE EraseInside(l, idx)

(* clear(), which keeps the cache, and the destructor, after which the     *)
(* program has a new list.                                                 *)
HClear(l) ==
    /\ st' = ClearList(st, l)
    /\ \E fresh \in {TRUE, "clear and go on" \notin EdgeCalls} :
           cache' = [cache EXCEPT ![l] = IF fresh THEN Nothing ELSE @]
    /\ Becomes(l, << >>)

Next ==
    \E l \in Lists :
        \/ \E v \in Elements : HPushBack(l, v) \/ HPushFront(l, v)
        \/ \E pos \in 0 .. MaxNodes, v \in Elements : HInsert(l, pos, v)
        \/ \E pos \in 0 .. MaxNodes, m \in Lists : HMoveIn(l, pos, m)
        \/ \E idx \in 0 .. MaxNodes : Access(l, idx) \/ HErase(l, idx)
        \/ PopFront(l) \/ PopBack(l) \/ HClear(l)

Spec == Init /\ [][Next]_vars

-----------------------------------------------------------------------------
(* "Updates hash index efficiently on modifications": every cached node is *)
(* the node at its index, after whatever sequence of insertions, erasures, *)
(* moves between lists and searches that cache what they find.             *)
CacheExact ==
    \A l \in Lists : \A i \in DOMAIN cache[l] :
        i < Len(seqs[l]) /\ i < st.size[l] /\ cache[l][i] = Chain(st, l)[i + 1]

(* Searching from cached nodes, each list still holds the sequence its     *)
(* calls ask for, its links hold together both ways, and the pool neither  *)
(* loses a node nor gives one out twice.                                   *)
HashListsAgree ==
    /\ \A l \in Lists : WellLinked(st, l) /\ Sequence(st, l) = seqs[l]
    /\ EverySlotOnce(st)
=============================================================================
