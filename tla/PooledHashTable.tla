-------------------------- MODULE PooledHashTable --------------------------
(***************************************************************************)
(* The table of a PooledHashMap as a value, and what the member functions  *)
(* do to it: open addressing with linear probing, tombstones, and          *)
(* rehashing into a new block.  PooledHashMap and PooledLinkedHashList are *)
(* built from these operators.                                             *)
(***************************************************************************)
EXTENDS Integers, FiniteSetsExt

CONSTANTS Keys,        \* the keys of the program
          HashOf,      \* HashOf[k]: the hash of k
          MinBuckets,  \* the least number of buckets: 8 in the code
          TakenEntries \* the indices of its old block that rehash() finds zeroed: the
                       \* block is back in the pool all maps of the type share, and
                       \* the map of another thread has taken it

ASSUME HashAssumption == HashOf \in [Keys -> Nat]
ASSUME MinBucketsAssumption == MinBuckets \in Nat \ {0}
ASSUME TakenEntriesAssumption == TakenEntries \in SUBSET Nat

(* Entry::state, of an entry without a key *)
Empty == [state |-> "Empty"]
Erased == [state |-> "Erased"]

(* entry[i]: Empty, Erased, or the key and value of an occupied entry; ok  *)
(* turns FALSE when the code goes through the null pointer it was given    *)
(* for a slot.                                                             *)
NoTable == [n |-> 0, entry |-> [i \in {} |-> Empty], size |-> 0, erased |-> 0, ok |-> TRUE]

Indices(tab) == 0 .. (tab.n - 1)
Occupied(e) == e \notin {Empty, Erased}
Holds(e, k) == Occupied(e) /\ e.key = k

-----------------------------------------------------------------------------
(* Probing *)

Probe(tab, k, p) == (HashOf[k] + p) % tab.n

(* Fault: a search ends at a tombstone. *)
StopsAtTombstone(tab, k, p) ==
    LET e == tab.entry[Probe(tab, k, p)] IN ~Occupied(e) \/ Holds(e, k)

(* The p-th probe for k ends the search. *)
StopsAt(tab, k, p) ==
    LET e == tab.entry[Probe(tab, k, p)] IN e = Empty \/ Holds(e, k)

(* The number of probes before the one that ends the search for k.         *)
ProbesBefore(tab, k) ==
    Min({p \in Indices(tab) : StopsAt(tab, k, p)} \cup {tab.n})

(* find_existing_index(): the index of k, or the number of buckets.        *)
Find(tab, k) ==
    LET end == ProbesBefore(tab, k)
    IN  IF end < tab.n /\ Holds(tab.entry[Probe(tab, k, end)], k) THEN Probe(tab, k, end)
        ELSE tab.n

HasKey(tab, k) == Find(tab, k) # tab.n

(* find_slot_for_insert(): where k is, or else the first tombstone on the  *)
(* way, or else the empty entry at its end; the number of buckets stands   *)
(* for a null pointer.                                                     *)
SlotForInsert(tab, k) ==
    LET end == ProbesBefore(tab, k)
        tombstones == {p \in 0 .. (end - 1) : tab.entry[Probe(tab, k, p)] = Erased}
    IN  IF tombstones # {} /\ ~HasKey(tab, k) THEN Probe(tab, k, Min(tombstones))
        ELSE IF end < tab.n THEN Probe(tab, k, end)
        ELSE tab.n

-----------------------------------------------------------------------------
(* Changing the table *)

(* Fault: a tombstone that is used again stays counted. *)
ReuseUncounted(tab, i) == tab.erased

(* --_erasedCount, when the entry is a tombstone. *)
ErasedAfter(tab, i) ==
    IF tab.entry[i] = Erased /\ tab.erased > 0 THEN tab.erased - 1 ELSE tab.erased

(* construct_entry() and the counts. *)
Construct(tab, i, k, v) ==
    [tab EXCEPT !.entry[i] = [key |-> k, val |-> v],
                !.size = @ + 1,
                !.erased = ErasedAfter(tab, i)]

(* What emplace(), insert() and try_emplace() do once there is room.       *)
PutNew(tab, k, v) ==
    LET i == SlotForInsert(tab, k)
    IN  CASE ~tab.ok \/ i = tab.n       -> [tab EXCEPT !.ok = FALSE]
          [] Occupied(tab.entry[i])     -> tab
          [] OTHER                      -> Construct(tab, i, k, v)

(* normalize_bucket_count(): the least power of two that is enough. *)
BucketCount(count) ==
    LET least == Max({count, MinBuckets})
        roundUp[c \in 1 .. least] == IF c = 1 THEN 1 ELSE 2 * roundUp[(c + 1) \div 2]
    IN  roundUp[least]

Blank(n) ==
    [NoTable EXCEPT !.n = n, !.entry = [i \in 0 .. (n - 1) |-> Empty]]

(* Step(t, e), for the entries of the table one after the other. *)
ForEach(tab, last, Step(_, _), base) ==
    LET after[i \in -1 .. last] ==
            IF i = -1 THEN base
            ELSE IF Occupied(tab.entry[i]) THEN Step(after[i - 1], tab.entry[i])
            ELSE after[i - 1]
    IN  after[last]

LastOld(tab) == tab.n - 1

(* The old block as rehash() reads it after it gave it back to the pool:   *)
(* a map that has taken it zeroes it, and zero is Entry::Empty.            *)
OldEntries(tab) ==
    [tab EXCEPT !.entry = [i \in Indices(tab) |-> IF i \in TakenEntries THEN Empty ELSE @[i]]]

(* rehash(): every element found in the old block moves to a new one. *)
Rehash(tab, count) ==
    ForEach(OldEntries(tab), LastOld(tab), LAMBDA t, e : PutNew(t, e.key, e.val),
            [Blank(BucketCount(count)) EXCEPT !.ok = tab.ok])

(* A load is a fraction <<numerator, denominator>>. *)
TooFull(tab, load) == (tab.size + tab.erased + 1) * load[2] > tab.n * load[1]

(* ensure_capacity_for_insert() *)
EnsureCapacity(tab, load) ==
    IF tab.n = 0 THEN Rehash(tab, MinBuckets)
    ELSE IF TooFull(tab, load) THEN Rehash(tab, 2 * tab.n)
    ELSE tab

(* insert(), emplace() and try_emplace() *)
TryEmplace(tab, load, k, v) == PutNew(EnsureCapacity(tab, load), k, v)

(* operator[] and an assignment to what it returns *)
Assign(tab, load, k, v) ==
    LET t == TryEmplace(tab, load, k, v)
    IN  IF t.ok THEN [t EXCEPT !.entry[Find(t, k)].val = v] ELSE t

(* erase(): a tombstone takes the place of the element. *)
EraseIndex(tab, i) ==
    IF i = tab.n THEN tab
    ELSE [tab EXCEPT !.entry[i] = Erased, !.size = @ - 1, !.erased = @ + 1]

ClearTable(tab) == Blank(tab.n)

(* The copy constructor, and the copy assignment after its clear(). *)
Copied(tab, load) ==
    ForEach(tab, tab.n - 1, LAMBDA t, e : TryEmplace(t, load, e.key, e.val),
            Rehash(NoTable, IF tab.n = 0 THEN MinBuckets ELSE tab.n))

-----------------------------------------------------------------------------
(* The map as find() shows it. *)
Present(tab) == {k \in Keys : HasKey(tab, k)}
Contents(tab) == [k \in Present(tab) |-> tab.entry[Find(tab, k)].val]
=============================================================================
