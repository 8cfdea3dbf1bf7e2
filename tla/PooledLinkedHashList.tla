------------------------ MODULE PooledLinkedHashList ------------------------
(***************************************************************************)
(* PooledLinkedHashList: a list of key and value, and a table that leads   *)
(* from each key to its node of the list.                                  *)
(***************************************************************************)
EXTENDS PooledLinkedHashListState

CONSTANTS Values,       \* the mapped values
          Load,         \* 0.75: the load factor of _index is never set
          ReadsAs       \* ReadsAs[k]: what a key equal to k may read as once its
                        \* entry was destroyed and its block given back

ASSUME ReadsAsAssumption == ReadsAs \in [Keys -> SUBSET Keys]

VARIABLE answer \* the node the last insert_or_assign() returned, and its key

vars == <<st, index, answer, order>>

Pair(k, v) == [key |-> k, val |-> v]
NoAnswer == [node |-> Null, key |-> Null]

Init ==
    /\ st = NoNodes
    /\ index = Rehash(NoTable, MinBuckets)
    /\ answer = NoAnswer
    /\ order = << >>

-----------------------------------------------------------------------------
End(s, toFront) == IF toFront THEN s.head[MainList] ELSE s.tail[MainList]

PushTo(s, toFront, pair) == IF toFront THEN PushFront(s, MainList, pair) ELSE PushBack(s, MainList, pair)

(* The key _index is asked for after ensure_capacity_for_insert(): the     *)
(* reference is into the table, and a rehash destroys what it refers to.   *)
KeysRead(k) == IF EnsureCapacity(index, Load) = index THEN {k} ELSE ReadsAs[k]

(* relocate_existing_node(): the value moves to a new node. *)
RelocatedNodes(s, node, toFront) == PushTo(EraseNode(s, MainList, node), toFront, s.val[node])

(* Fault: a node at either end stays where it is. *)
AtEitherEnd(s, node, toFront) == node \in {s.head[MainList], s.tail[MainList]}

AlreadyThere(s, node, toFront) == node = End(s, toFront)

Relocate(k, s, toFront) ==
    LET node  == index.entry[Find(index, k)].val
        nodes == RelocatedNodes(s, node, toFront)
    IN  IF AlreadyThere(s, node, toFront) THEN st' = s /\ index' = index
        ELSE /\ st' = nodes
             /\ \E read \in KeysRead(k) : index' = Assign(index, Load, read, End(nodes, toFront))

AtEnd(s, toFront, pair) == IF toFront THEN <<pair>> \o s ELSE Append(s, pair)
PlaceOf(k) == CHOOSE i \in DOMAIN order : order[i].key = k
Others(k) == RemoveAt(order, PlaceOf(k))
ValueOf(k) == order[PlaceOf(k)].val

-----------------------------------------------------------------------------
(* append_new_node() *)
AppendNew(k, v, toFront) ==
    /\ ~HasKey(index, k) /\ HasRoom(st)
    /\ st' = PushTo(st, toFront, Pair(k, v))
    /\ index' = Assign(index, Load, k, End(st', toFront))
    /\ order' = AtEnd(order, toFront, Pair(k, v))
    /\ answer' = [node |-> End(st', toFront), key |-> k]

(* insert_or_assign_impl() with a key that is there: the iterator is the   *)
(* index of an entry, and it is read again after the relocation.           *)
AssignExisting(k, v, toFront) ==
    /\ HasKey(index, k)
    /\ LET i == Find(index, k)
       IN  /\ Relocate(k, [st EXCEPT !.val[index.entry[i].val].val = v], toFront)
           /\ answer' = [node |-> IF Occupied(index'.entry[i]) THEN index'.entry[i].val ELSE Null,
                         key |-> k]
    /\ order' = AtEnd(Others(k), toFront, Pair(k, v))

(* move_to_front(), touch() and move_to_back() *)
RelocateNode(k, toFront) ==
    /\ HasKey(index, k)
    /\ Relocate(k, st, toFront)
    /\ order' = AtEnd(Others(k), toFront, Pair(k, ValueOf(k)))
    /\ answer' = NoAnswer

Erase(k) ==
    /\ HasKey(index, k)
    /\ index' = EraseIndex(index, Find(index, k))
    /\ st' = EraseNode(st, MainList, index.entry[Find(index, k)].val)
    /\ order' = Others(k)
    /\ answer' = NoAnswer

(* Fault: pop_back() takes the key of the other end. *)
KeyOfFirst(fromFront) == st.val[st.head[MainList]].key

PoppedKey(fromFront) == st.val[End(st, fromFront)].key

Pop(fromFront) ==
    /\ st.size[MainList] > 0
    /\ index' = EraseIndex(index, Find(index, PoppedKey(fromFront)))
    /\ st' = EraseNode(st, MainList, End(st, fromFront))
    /\ order' = IF fromFront THEN Tail(order) ELSE Front(order)
    /\ answer' = NoAnswer

Clear ==
    /\ index' = ClearTable(index)
    /\ st' = ClearList(st, MainList)
    /\ order' = << >>
    /\ answer' = NoAnswer

Next ==
    \/ \E k \in Keys, toFront \in BOOLEAN :
           \/ \E v \in Values : AppendNew(k, v, toFront) \/ AssignExisting(k, v, toFront)
           \/ RelocateNode(k, toFront)
           \/ Erase(k)
    \/ \E fromFront \in BOOLEAN : Pop(fromFront)
    \/ Clear

Spec == Init /\ [][Next]_vars

-----------------------------------------------------------------------------
(* The pointer insert_or_assign() returns is to the value of its key.      *)
ReturnsOwnValue ==
    answer.key # Null => answer.node # Null /\ st.val[answer.node].key = answer.key
=============================================================================
