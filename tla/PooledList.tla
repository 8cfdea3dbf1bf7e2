----------------------------- MODULE PooledList -----------------------------
(***************************************************************************)
(* PooledList: the lists of a program that share one pool of nodes.        *)
(***************************************************************************)
EXTENDS PooledNodes

CONSTANT Elements  \* the values in the lists

VARIABLES st,   \* the pool, the nodes and the lists
          seqs  \* seqs[l]: the sequence the same calls would have made

vars == <<st, seqs>>

Init == st = NoNodes /\ seqs = [l \in Lists |-> << >>]

Becomes(l, s) == seqs' = [seqs EXCEPT ![l] = s]

Push(l, v) ==
    /\ HasRoom(st)
    /\ \/ st' = PushBack(st, l, v) /\ Becomes(l, Append(seqs[l], v))
       \/ st' = PushFront(st, l, v) /\ Becomes(l, <<v>> \o seqs[l])

(* insert(pos, value); a position beyond the end is refused. *)
Insert(l, pos, v) ==
    /\ HasRoom(st) /\ pos <= st.size[l]
    /\ st' = InsertValue(st, l, pos, v)
    /\ Becomes(l, SubSeq(seqs[l], 1, pos) \o <<v>> \o SubSeq(seqs[l], pos + 1, Len(seqs[l])))

(* insert_list(pos, other): no list is moved into itself. *)
MoveIn(l, pos, m) ==
    /\ l # m /\ pos <= st.size[l]
    /\ st' = InsertList(st, l, pos, m)
    /\ seqs' = [seqs EXCEPT ![l] = SubSeq(@, 1, pos) \o seqs[m] \o SubSeq(@, pos + 1, Len(@)),
                            ![m] = << >>]

(* erase(idx); an index beyond the end changes nothing. *)
Erase(l, idx) ==
    /\ st' = EraseNode(st, l, NodeAt(st, l, idx))
    /\ Becomes(l, IF idx < Len(seqs[l]) THEN RemoveAt(seqs[l], idx + 1) ELSE seqs[l])

Pop(l) ==
    \/ st' = EraseNode(st, l, st.head[l]) /\ Becomes(l, SubSeq(seqs[l], 2, Len(seqs[l])))
    \/ st' = EraseNode(st, l, st.tail[l]) /\ Becomes(l, SubSeq(seqs[l], 1, Len(seqs[l]) - 1))

Clear(l) == st' = ClearList(st, l) /\ Becomes(l, << >>)

Next ==
    \E l \in Lists :
        \/ \E v \in Elements : Push(l, v)
        \/ \E pos \in 0 .. MaxNodes, v \in Elements : Insert(l, pos, v)
        \/ \E pos \in 0 .. MaxNodes, m \in Lists : MoveIn(l, pos, m)
        \/ \E idx \in 0 .. MaxNodes : Erase(l, idx)
        \/ Pop(l) \/ Clear(l)

Spec == Init /\ [][Next]_vars

-----------------------------------------------------------------------------
(* Whatever the calls on lists that exchange their nodes, the links of     *)
(* each list hold together in both directions, and the pool neither loses  *)
(* a node nor gives one out twice.                                         *)
NodesSound == (\A l \in Lists : WellLinked(st, l)) /\ EverySlotOnce(st)

(* Each list holds the sequence of elements its calls ask for.             *)
AgreesWithSequences == \A l \in Lists : Sequence(st, l) = seqs[l]

(* Both: the nodes that pass from list to list and back to the pool are    *)
(* those the calls moved, in the order the calls ask for.                  *)
ListsSound == NodesSound /\ AgreesWithSequences
=============================================================================
