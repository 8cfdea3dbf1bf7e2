--------------------- MODULE PooledLinkedHashListState ---------------------
(***************************************************************************)
(* What a PooledLinkedHashList keeps, and what holds of it between calls.  *)
(***************************************************************************)
EXTENDS PooledHashTable, PooledNodes

VARIABLES st,     \* _list, and the pool of its nodes
          index,  \* _index
          order   \* the sequence of keys and values the same calls would have made

MainList == CHOOSE l \in Lists : TRUE

(* The table and the list, each sound on its own, hold the same keys, and  *)
(* the table leads from each key to the node that has it.                  *)
IndexMatchesList ==
    /\ index.ok /\ WellLinked(st, MainList) /\ EverySlotOnce(st)
    /\ index.size = st.size[MainList]
    /\ \A i \in 1 .. st.size[MainList] :
           LET node == Chain(st, MainList)[i]
           IN  /\ HasKey(index, st.val[node].key)
               /\ index.entry[Find(index, st.val[node].key)].val = node

(* The list shows the keys in the order the insertions and relocations ask *)
(* for, each with the value it was given last: the least recently used one *)
(* is at the end it is expected at.                                        *)
KeepsOrder == Sequence(st, MainList) = order
=============================================================================
