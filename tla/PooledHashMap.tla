--------------------------- MODULE PooledHashMap ---------------------------
(***************************************************************************)
(* PooledHashMap: one map, the calls of a program that uses it, and one    *)
(* iterator over it.                                                       *)
(***************************************************************************)
EXTENDS PooledHashTable

CONSTANTS Values,           \* the mapped values
          Counts,           \* the arguments of reserve() and rehash()
          LoadFactors,      \* the arguments of max_load_factor(), as fractions
          DefaultLoad,      \* 0.75 in the code
          RehashBelowSize,  \* whether rehash() is called with less than the size
          NoCursor          \* there is no valid iterator

ASSUME ArgumentsAssumption ==
    /\ Counts \subseteq Nat
    /\ LoadFactors \subseteq Nat \X (Nat \ {0})
    /\ DefaultLoad \in (Nat \ {0}) \X (Nat \ {0}) /\ DefaultLoad[1] <= DefaultLoad[2]

ASSUME NoCursorAssumption == NoCursor \notin Nat

VARIABLES tab,      \* _entries, _bucketCount, _size, _erasedCount
          maxLoad,  \* _maxLoadFactor
          cursor,   \* the index of the iterator, or NoCursor
          unseen,   \* the keys the iterator has still to show
          map       \* the std::unordered_map the same calls would have made

vars == <<tab, maxLoad, cursor, unseen, map>>

NoMap == [k \in {} |-> k]
With(f, k, v) == [j \in DOMAIN f \cup {k} |-> IF j = k THEN v ELSE f[j]]
Without(f, k) == [j \in DOMAIN f \ {k} |-> f[j]]

Init ==
    /\ tab = Rehash(NoTable, MinBuckets)
    /\ maxLoad = DefaultLoad
    /\ map = NoMap
    /\ cursor = NoCursor /\ unseen = {}

(* Whatever may move elements ends the iterator. *)
CursorEnds == cursor' = NoCursor /\ unseen' = {}

Insert(k, v) ==
    /\ tab' = TryEmplace(tab, maxLoad, k, v)
    /\ map' = IF k \in DOMAIN map THEN map ELSE With(map, k, v)
    /\ CursorEnds /\ UNCHANGED maxLoad

AssignTo(k, v) ==
    /\ tab' = Assign(tab, maxLoad, k, v)
    /\ map' = With(map, k, v)
    /\ CursorEnds /\ UNCHANGED maxLoad

(* erase(key): the iterator lives on unless it stood there. *)
Erase(k) ==
    /\ tab' = EraseIndex(tab, Find(tab, k))
    /\ map' = Without(map, k)
    /\ cursor # Find(tab, k) \/ cursor = tab.n
    /\ unseen' = unseen \ {k}
    /\ UNCHANGED <<maxLoad, cursor>>

Clear ==
    /\ tab' = ClearTable(tab)
    /\ map' = NoMap
    /\ CursorEnds /\ UNCHANGED maxLoad

(* reserve(): rehash() unless there are buckets enough. *)
Reserve(count) ==
    LET required == (count * maxLoad[2]) \div maxLoad[1] + 1
    IN  /\ tab' = IF required > tab.n THEN Rehash(tab, required) ELSE tab
        /\ CursorEnds /\ UNCHANGED <<maxLoad, map>>

RehashTo(count) ==
    /\ count >= tab.size \/ RehashBelowSize
    /\ tab' = Rehash(tab, count)
    /\ CursorEnds /\ UNCHANGED <<maxLoad, map>>

(* max_load_factor(): nothing below a tenth is taken. *)
SetMaxLoadFactor(load) ==
    /\ maxLoad' = IF 10 * load[1] > load[2] THEN load ELSE <<1, 10>>
    /\ UNCHANGED <<tab, cursor, unseen, map>>

(* The program goes on with a copy of the map. *)
Copy ==
    /\ tab' = Copied(tab, maxLoad)
    /\ CursorEnds /\ UNCHANGED <<maxLoad, map>>

(* The program goes on with a map that was moved from. *)
MoveFrom ==
    /\ tab' = NoTable
    /\ map' = NoMap
    /\ CursorEnds /\ UNCHANGED maxLoad

-----------------------------------------------------------------------------
(* The iterator *)

(* skip_to_occupied() from index i on *)
NextOccupied(i) == Min({j \in i .. (tab.n - 1) : Occupied(tab.entry[j])} \cup {tab.n})

(* Fault: the iterator is moved on twice. *)
SkipTwo(i) == i + 2

Following(i) == i + 1

(* The iterator comes to index i, and its element is seen. *)
StandAt(i, keys) ==
    /\ cursor' = i
    /\ unseen' = IF i = tab.n THEN keys ELSE keys \ {tab.entry[i].key}

Begin ==
    /\ StandAt(NextOccupied(0), {tab.entry[i].key : i \in {j \in Indices(tab) : Occupied(tab.entry[j])}})
    /\ UNCHANGED <<tab, maxLoad, map>>

Advance ==
    /\ cursor \in Indices(tab)
    /\ StandAt(NextOccupied(Following(cursor)), unseen)
    /\ UNCHANGED <<tab, maxLoad, map>>

(* erase(iterator) returns the iterator that follows. *)
EraseAt ==
    /\ cursor \in Indices(tab)
    /\ tab' = EraseIndex(tab, cursor)
    /\ map' = Without(map, tab.entry[cursor].key)
    /\ StandAt(NextOccupied(Following(cursor)), unseen)
    /\ UNCHANGED maxLoad

-----------------------------------------------------------------------------
Next ==
    \/ \E k \in Keys, v \in Values : Insert(k, v) \/ AssignTo(k, v)
    \/ \E k \in Keys : Erase(k)
    \/ \E count \in Counts : Reserve(count) \/ RehashTo(count)
    \/ \E load \in LoadFactors : SetMaxLoadFactor(load)
    \/ Clear \/ Copy \/ MoveFrom
    \/ Begin \/ Advance \/ EraseAt

Spec == Init /\ [][Next]_vars

-----------------------------------------------------------------------------
(* The keys that sit in some entry. *)
Stored == {i \in Indices(tab) : Occupied(tab.entry[i])}

(* The counts that decide when to rehash are exact, no key is stored       *)
(* twice, find() finds whatever is stored, through tombstones, wrap-around *)
(* and rehashing, and the insertion always gets a slot.                    *)
TableSound ==
    /\ tab.ok
    /\ tab.size = Cardinality(Stored)
    /\ tab.erased = Cardinality({i \in Indices(tab) : tab.entry[i] = Erased})
    /\ \A i \in Stored : Find(tab, tab.entry[i].key) = i

(* find() shows what a std::unordered_map would after the same calls.      *)
AgreesWithMap == Contents(tab) = map

(* An iteration that erases as it goes comes to every element that was     *)
(* there when it began and was not erased before its turn, to none of them *)
(* a second time, and to no other.                                         *)
IterationComplete ==
    /\ [](cursor = tab.n => unseen = {})
    /\ [][Advance \/ EraseAt => cursor' = tab.n \/ tab.entry[cursor'].key \in unseen]_vars
=============================================================================
