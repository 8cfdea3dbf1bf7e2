---------------------------- MODULE PooledNodes ----------------------------
(***************************************************************************)
(* The nodes of all the PooledLists of one type as a value: the            *)
(* SegmentedObjectPool they come from, their links, and the lists          *)
(* themselves, with what the member functions of PooledList do to them.    *)
(* PooledList and PooledLinkedHashList are built from these operators.     *)
(***************************************************************************)
EXTENDS Integers, Sequences, FiniteSets, SequencesExt

CONSTANTS Lists,           \* the lists of the program
          MaxNodes,        \* bound: the nodes that may be in use at once
          SegmentCapacity, \* the slots of a segment of the pool
          SearchFromTail,  \* the size from which nodeAt() may start at the tail: 16
          Null             \* a null pointer

ASSUME NodesAssumption ==
    /\ MaxNodes \in Nat \ {0} /\ SegmentCapacity \in Nat \ {0} /\ SearchFromTail \in Nat
    /\ Null \notin 1 .. MaxNodes

Nodes == 1 .. MaxNodes

(* free: free_stack_, the top last; made: the slots that were ever used;   *)
(* live: live_count_; head, tail, size: the members of each list.          *)
NoNodes ==
    [free |-> << >>, made |-> 0, segments |-> 0, live |-> 0,
     prev |-> [x \in Nodes |-> Null], next |-> [x \in Nodes |-> Null],
     val  |-> [x \in Nodes |-> Null],
     head |-> [l \in Lists |-> Null], tail |-> [l \in Lists |-> Null],
     size |-> [l \in Lists |-> 0]]

-----------------------------------------------------------------------------
(* SegmentedObjectPool *)

(* The slot allocate() gives out next: the one freed last, or the next of  *)
(* the last segment that was never used.                                   *)
NextSlot(st) == IF st.free # << >> THEN Last(st.free) ELSE st.made + 1

HasRoom(st) == NextSlot(st) \in Nodes

(* Fault: the free slot is read and stays on the stack. *)
LeaveOnStack(st) == st.free

PopFree(st) == IF st.free # << >> THEN Front(st.free) ELSE << >>

(* LinkedListNode::create(), that is allocate(): a new node has no links.  *)
Create(st, v) ==
    LET x == NextSlot(st)
    IN  [st EXCEPT
            !.free = PopFree(st),
            !.made = IF st.free # << >> THEN @ ELSE @ + 1,
            !.segments = IF st.free = << >> /\ st.made = @ * SegmentCapacity THEN @ + 1 ELSE @,
            !.live = @ + 1,
            !.prev[x] = Null, !.next[x] = Null, !.val[x] = v]

(* recycle(): reset() and deallocate(). *)
Recycle(st, x) ==
    [st EXCEPT !.prev[x] = Null, !.next[x] = Null, !.val[x] = Null,
               !.free = Append(@, x),
               !.live = @ - 1]

-----------------------------------------------------------------------------
(* PooledList *)

(* p->next = x and p->prev = x, for what may be a null pointer. *)
SetNext(st, p, x) == IF p = Null THEN st ELSE [st EXCEPT !.next[p] = x]
SetPrev(st, p, x) == IF p = Null THEN st ELSE [st EXCEPT !.prev[p] = x]

PushBack(st, l, v) ==
    LET x == NextSlot(st)
        new == SetNext(Create(st, v), st.tail[l], x)
    IN  [new EXCEPT !.prev[x] = st.tail[l],
                    !.head[l] = IF st.head[l] = Null THEN x ELSE @,
                    !.tail[l] = x, !.size[l] = @ + 1]

PushFront(st, l, v) ==
    LET x == NextSlot(st)
        new == SetPrev(Create(st, v), st.head[l], x)
    IN  [new EXCEPT !.next[x] = st.head[l],
                    !.tail[l] = IF st.head[l] = Null THEN x ELSE @,
                    !.head[l] = x, !.size[l] = @ + 1]

(* Count links from node x on. *)
Walk(link, x, count) ==
    LET at[i \in 0 .. count] == IF i = 0 THEN x ELSE link[at[i - 1]]
    IN  at[count]

(* The links from the tail to the node at idx. *)
StepsBack(st, l, idx) == st.size[l] - 1 - idx

(* nodeAt(): long lists are searched from the nearer end. *)
NodeAt(st, l, idx) ==
    IF idx >= st.size[l] THEN Null
    ELSE IF st.size[l] > SearchFromTail /\ idx > st.size[l] \div 2
    THEN Walk(st.prev, st.tail[l], StepsBack(st, l, idx))
    ELSE Walk(st.next, st.head[l], idx)

(* The nodes from first to last are put between p and n. *)
Link(st, l, p, first, last, n) ==
    LET joined == SetPrev(SetNext(st, p, first), n, last)
    IN  [joined EXCEPT !.prev[first] = p, !.next[last] = n,
                       !.head[l] = IF p = Null THEN first ELSE @,
                       !.tail[l] = IF n = Null THEN last ELSE @]

(* The neighbours of what is inserted at position pos. *)
Before(st, l, pos) == IF pos = 0 THEN Null ELSE IF pos = st.size[l] THEN st.tail[l]
                      ELSE st.prev[NodeAt(st, l, pos)]
After(st, l, pos) == IF pos = st.size[l] THEN Null ELSE IF pos = 0 THEN st.head[l]
                     ELSE NodeAt(st, l, pos)

InsertValue(st, l, pos, v) ==
    LET x == NextSlot(st)
        new == Link(Create(st, v), l, Before(st, l, pos), x, x, After(st, l, pos))
    IN  [new EXCEPT !.size[l] = @ + 1]

(* insert_list(): the nodes of m move over, and m is empty. *)
InsertList(st, l, pos, m) ==
    IF st.size[m] = 0 THEN st
    ELSE LET new == Link(st, l, Before(st, l, pos), st.head[m], st.tail[m], After(st, l, pos))
         IN  [new EXCEPT !.size[l] = @ + st.size[m],
                         !.head[m] = Null, !.tail[m] = Null, !.size[m] = 0]

(* erase(node) *)
EraseNode(st, l, x) ==
    IF x = Null THEN st
    ELSE LET p == st.prev[x]
             n == st.next[x]
             out == SetPrev(SetNext(st, p, n), n, p)
         IN  Recycle([out EXCEPT !.head[l] = IF p = Null THEN n ELSE @,
                                 !.tail[l] = IF n = Null THEN p ELSE @,
                                 !.size[l] = @ - 1], x)

(* The nodes of l, as its links show them: what clear() and for_each()     *)
(* go through.                                                             *)
Chain(st, l) == [i \in 1 .. st.size[l] |-> Walk(st.next, st.head[l], i - 1)]

ClearList(st, l) ==
    LET nodes == Chain(st, l)
        after[i \in 0 .. Len(nodes)] ==
            IF i = 0 THEN st ELSE Recycle(after[i - 1], nodes[i])
    IN  [after[Len(nodes)] EXCEPT !.head[l] = Null, !.tail[l] = Null, !.size[l] = 0]

Sequence(st, l) == [i \in 1 .. st.size[l] |-> st.val[Chain(st, l)[i]]]

-----------------------------------------------------------------------------
(* What the links must be. *)

(* The links of l lead from its head to its tail in as many steps as its   *)
(* size says, and back the same way.                                       *)
WellLinked(st, l) ==
    LET c == Chain(st, l)
    IN  IF st.size[l] = 0 THEN st.head[l] = Null /\ st.tail[l] = Null
        ELSE /\ Range(c) \subseteq Nodes
             /\ c[1] = st.head[l] /\ c[Len(c)] = st.tail[l]
             /\ st.prev[c[1]] = Null /\ st.next[c[Len(c)]] = Null
             /\ \A i \in 2 .. Len(c) : st.prev[c[i]] = c[i - 1]

(* Every slot the pool gave out is once in one list, or once on the free   *)
(* stack, live_count_ counts the former, and the segments hold them all.   *)
EverySlotOnce(st) ==
    LET inLists == {s \in Lists \X Nodes : s[2] <= st.size[s[1]]}
        place(s) == Chain(st, s[1])[s[2]]
    IN  /\ {place(s) : s \in inLists} \cup Range(st.free) = 1 .. st.made
        /\ Cardinality(inLists) + Len(st.free) = st.made
        /\ st.live = Cardinality(inLists)
        /\ st.made <= st.segments * SegmentCapacity
=============================================================================
