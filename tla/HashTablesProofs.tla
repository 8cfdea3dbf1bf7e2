--------------------------- MODULE HashTablesProofs ---------------------------
(***************************************************************************)
(* Proofs about the components that are built on the hash table, for any   *)
(* keys, hashes and values: the table is sound and shows what a            *)
(* std::unordered_map would, and the list that a PooledLinkedHashList      *)
(* keeps beside it has the same keys.                                      *)
(***************************************************************************)
EXTENDS PooledHashMap, PooledNodesProofs, PooledLinkedHashListState

-----------------------------------------------------------------------------
(* Natural numbers                                                         *)

LEMMA MinOfNat ==
    ASSUME NEW T, T \subseteq Nat, T # {}
    PROVE  Min(T) \in T /\ \A y \in T : Min(T) <= y
BY LeastNat DEF Min

LEMMA MaxOfTwo ==
    ASSUME NEW a \in Nat, NEW b \in Nat
    PROVE  Max({a, b}) \in Nat /\ Max({a, b}) >= a /\ Max({a, b}) >= b
<1>1. \E x \in {a, b} : \A y \in {a, b} : y <= x
    OBVIOUS
<1>2. Max({a, b}) \in {a, b} /\ \A y \in {a, b} : y <= Max({a, b})
    BY <1>1 DEF Max
<1> QED
    BY <1>2

LEMMA ModOfSum ==
    ASSUME NEW n \in Nat \ {0}, NEW q \in Int, NEW i \in 0 .. (n - 1)
    PROVE  (n * q + i) % n = i
OBVIOUS

-----------------------------------------------------------------------------
(* Tables                                                                  *)

(* What an entry with a key is, and any entry. *)
IsElement(e) == e.key \in Keys /\ e = [key |-> e.key, val |-> e.val]
IsEntry(e) == IsElement(e) \/ e \in {Empty, Erased}
AreEntries(f, S) == f = [i \in S |-> f[i]] /\ \A i \in S : IsEntry(f[i])

LEMMA EntryKinds ==
    /\ Empty # Erased
    /\ \A e : IsElement(e) => e # Empty /\ e # Erased
<1>1. Empty # Erased
    BY DEF Empty, Erased
<1>2. ASSUME NEW k, NEW v PROVE [key |-> k, val |-> v] # Empty /\ [key |-> k, val |-> v] # Erased
    BY DEF Empty, Erased
<1> QED
    BY <1>1, <1>2 DEF IsElement

LEMMA EntryChanged ==
    ASSUME NEW S, NEW f, AreEntries(f, S), NEW i \in S, NEW e, IsEntry(e)
    PROVE  /\ AreEntries([f EXCEPT ![i] = e], S)
           /\ [f EXCEPT ![i] = e][i] = e
           /\ \A j \in S \ {i} : [f EXCEPT ![i] = e][j] = f[j]
BY DEF AreEntries

IsTable(t) ==
    /\ t = [n |-> t.n, entry |-> t.entry, size |-> t.size, erased |-> t.erased, ok |-> t.ok]
    /\ t.n \in Nat /\ t.size \in Nat /\ t.erased \in Nat
    /\ AreEntries(t.entry, Indices(t))

StoredIn(t) == {i \in Indices(t) : Occupied(t.entry[i])}
ErasedIn(t) == {i \in Indices(t) : t.entry[i] = Erased}
ElementsOf(t) == {t.entry[i] : i \in StoredIn(t)}

(* TableSound, of any table. *)
SoundTable(t) ==
    /\ IsTable(t) /\ t.ok = TRUE
    /\ t.size = Cardinality(StoredIn(t))
    /\ t.erased = Cardinality(ErasedIn(t))
    /\ \A i \in StoredIn(t) : Find(t, t.entry[i].key) = i

(* What an update of one entry and both counts makes of a table. *)
LEMMA UpdatedTable ==
    ASSUME NEW t, IsTable(t), NEW i, NEW e, NEW s, NEW c
    PROVE  [t EXCEPT !.entry[i] = e, !.size = s, !.erased = c]
              = [n |-> t.n, entry |-> [t.entry EXCEPT ![i] = e], size |-> s, erased |-> c,
                 ok |-> t.ok]
<1> DEFINE t1 == [t EXCEPT !.entry[i] = e]
           t2 == [t1 EXCEPT !.size = s]
           t3 == [t2 EXCEPT !.erased = c]
<1>1. [t EXCEPT !.entry[i] = e, !.size = s, !.erased = c] = t3
    OBVIOUS
<1>2. t = [n |-> t.n, entry |-> t.entry, size |-> t.size, erased |-> t.erased, ok |-> t.ok]
    BY DEF IsTable
<1>3. t1 = [n |-> t.n, entry |-> [t.entry EXCEPT ![i] = e], size |-> t.size,
            erased |-> t.erased, ok |-> t.ok]
    BY <1>2
<1> HIDE DEF t1
<1>4. t2 = [n |-> t.n, entry |-> [t.entry EXCEPT ![i] = e], size |-> s,
            erased |-> t.erased, ok |-> t.ok]
    BY <1>3
<1> HIDE DEF t2
<1>5. t3 = [n |-> t.n, entry |-> [t.entry EXCEPT ![i] = e], size |-> s,
            erased |-> c, ok |-> t.ok]
    BY <1>4
<1> HIDE DEF t3
<1> QED
    BY <1>1, <1>5

LEMMA TableFields ==
    ASSUME NEW t, IsTable(t), NEW i \in Indices(t)
    PROVE  /\ t.n \in Nat /\ i \in Nat /\ i < t.n
           /\ IsEntry(t.entry[i])
           /\ Occupied(t.entry[i]) <=> IsElement(t.entry[i])
           /\ Occupied(t.entry[i]) => t.entry[i].key \in Keys
BY EntryKinds DEF IsTable, AreEntries, IsEntry, IsElement, Indices, Occupied

-----------------------------------------------------------------------------
(* Probing                                                                 *)

LEMMA ProbeIndex ==
    ASSUME NEW t, t.n \in Nat \ {0}, NEW k \in Keys, NEW p \in Nat
    PROVE  Probe(t, k, p) \in Indices(t)
<1>1. HashOf[k] + p \in Int
    BY HashAssumption
<1> QED
    BY <1>1 DEF Probe, Indices

(* As many probes as there are buckets reach every bucket. *)
LEMMA ProbesReachAll ==
    ASSUME NEW t, t.n \in Nat, NEW k \in Keys, NEW i \in Indices(t)
    PROVE  \E p \in Indices(t) : Probe(t, k, p) = i
<1> DEFINE n == t.n
           h == HashOf[k]
           r == h % n
           q == h \div n
           p == IF i >= r THEN i - r ELSE i - r + n
<1>1. n \in Nat \ {0} /\ h \in Nat /\ i \in 0 .. (n - 1)
    BY HashAssumption DEF Indices
<1> HIDE DEF h, n
<1>2. r \in 0 .. (n - 1) /\ q \in Int /\ h = n * q + r
    BY <1>1
<1> HIDE DEF r, q
<1>3. p \in 0 .. (n - 1)
    BY <1>1, <1>2
<1>4. h + p = n * q + i \/ h + p = n * (q + 1) + i
    BY <1>1, <1>2
<1>5. (h + p) % n = i
    BY <1>1, <1>2, <1>4, ModOfSum
<1> QED
    BY <1>3, <1>5 DEF Probe, Indices, h, n

(* The search for k ends at the first probe that stops it. *)
LEMMA SearchEnds ==
    ASSUME NEW t, t.n \in Nat, NEW k
    PROVE  /\ ProbesBefore(t, k) \in 0 .. t.n
           /\ ProbesBefore(t, k) < t.n => StopsAt(t, k, ProbesBefore(t, k))
           /\ \A p \in Indices(t) : StopsAt(t, k, p) => ProbesBefore(t, k) <= p
<1> DEFINE ends == {p \in Indices(t) : StopsAt(t, k, p)} \cup {t.n}
<1>1. ends \subseteq Nat /\ ends # {}
    BY DEF Indices
<1>2. Min(ends) \in ends /\ \A p \in ends : Min(ends) <= p
    BY <1>1, MinOfNat
<1>3. ProbesBefore(t, k) = Min(ends)
    BY DEF ProbesBefore
<1> HIDE DEF ends
<1>4. /\ ProbesBefore(t, k) \in ends
      /\ \A p \in ends : ProbesBefore(t, k) <= p
    BY <1>2, <1>3
<1> QED
    BY <1>4 DEF ends, Indices

(* The search ends at probe p, if p is the first to stop it. *)
LEMMA SearchEndsAt ==
    ASSUME NEW t, t.n \in Nat, NEW k, NEW p \in Indices(t), StopsAt(t, k, p),
           \A q \in 0 .. (p - 1) : ~StopsAt(t, k, q)
    PROVE  ProbesBefore(t, k) = p
<1>1. /\ ProbesBefore(t, k) \in 0 .. t.n
      /\ ProbesBefore(t, k) < t.n => StopsAt(t, k, ProbesBefore(t, k))
      /\ ProbesBefore(t, k) <= p
    BY SearchEnds
<1> QED
    BY <1>1 DEF Indices

(* k is at the index of a probe that no earlier one stops. *)
ReachedBy(t, k, i, p) ==
    /\ p \in Indices(t) /\ Probe(t, k, p) = i
    /\ \A q \in 0 .. (p - 1) : ~StopsAt(t, k, q)

LEMMA FindReaches ==
    ASSUME NEW t, t.n \in Nat, NEW k \in Keys
    PROVE  /\ Find(t, k) \in Indices(t) \cup {t.n}
           /\ Find(t, k) # t.n =>
                  /\ Holds(t.entry[Find(t, k)], k)
                  /\ \E p \in Indices(t) : ReachedBy(t, k, Find(t, k), p)
<1> DEFINE end == ProbesBefore(t, k)
<1>1. /\ end \in 0 .. t.n
      /\ \A p \in Indices(t) : StopsAt(t, k, p) => end <= p
    BY SearchEnds
<1> HIDE DEF end
<1>2. Find(t, k) = IF end < t.n /\ Holds(t.entry[Probe(t, k, end)], k) THEN Probe(t, k, end)
                   ELSE t.n
    BY DEF Find, end
<1>3. CASE Find(t, k) = t.n
    BY <1>3
<1>4. CASE Find(t, k) # t.n
    <2>1. /\ end < t.n /\ Holds(t.entry[Probe(t, k, end)], k)
          /\ Find(t, k) = Probe(t, k, end)
        BY <1>2, <1>4
    <2>2. end \in Indices(t) /\ Probe(t, k, end) \in Indices(t)
        BY <1>1, <2>1, ProbeIndex DEF Indices
    <2>3. \A q \in 0 .. (end - 1) : ~StopsAt(t, k, q)
        BY <1>1, <2>1 DEF Indices
    <2> QED
        BY <2>1, <2>2, <2>3 DEF ReachedBy
<1> QED
    BY <1>3, <1>4

LEMMA FindIsReached ==
    ASSUME NEW t, t.n \in Nat, NEW k \in Keys, NEW i, NEW p, ReachedBy(t, k, i, p),
           Holds(t.entry[i], k)
    PROVE  Find(t, k) = i
<1>1. StopsAt(t, k, p)
    BY DEF StopsAt, ReachedBy
<1>2. ProbesBefore(t, k) = p
    BY <1>1, SearchEndsAt DEF ReachedBy
<1> QED
    BY <1>2 DEF Find, ReachedBy, Indices

(* In a sound table a key is found exactly if an element has it. *)
LEMMA HasKeyIff ==
    ASSUME NEW t, SoundTable(t), NEW k \in Keys
    PROVE  /\ HasKey(t, k) <=> \E i \in StoredIn(t) : t.entry[i].key = k
           /\ HasKey(t, k) => Find(t, k) \in StoredIn(t) /\ t.entry[Find(t, k)].key = k
           /\ HasKey(t, k) <=> \E e \in ElementsOf(t) : e.key = k
<1>1. t.n \in Nat
    BY DEF SoundTable, IsTable
<1>2. HasKey(t, k) => Find(t, k) \in StoredIn(t) /\ t.entry[Find(t, k)].key = k
    BY <1>1, FindReaches DEF HasKey, StoredIn, Holds
<1>3. ASSUME NEW i \in StoredIn(t), t.entry[i].key = k PROVE HasKey(t, k)
    <2>1. Find(t, k) = i /\ i \in Indices(t)
        BY <1>3 DEF SoundTable, StoredIn
    <2> QED
        BY <1>1, <2>1 DEF HasKey, Indices
<1> QED
    BY <1>2, <1>3 DEF ElementsOf

(* The number of elements and of tombstones is finite. *)
LEMMA FiniteTable ==
    ASSUME NEW t, IsTable(t)
    PROVE  /\ IsFiniteSet(Indices(t)) /\ Cardinality(Indices(t)) = t.n
           /\ IsFiniteSet(StoredIn(t)) /\ IsFiniteSet(ErasedIn(t))
           /\ Cardinality(StoredIn(t)) \in Nat /\ Cardinality(ErasedIn(t)) \in Nat
<1>1. IsFiniteSet(Indices(t)) /\ Cardinality(Indices(t)) = t.n
    <2>1. t.n \in Nat /\ 0 \in Int /\ t.n - 1 \in Int
        BY DEF IsTable
    <2>2. /\ IsFiniteSet(0 .. (t.n - 1))
          /\ Cardinality(0 .. (t.n - 1)) = IF 0 > t.n - 1 THEN 0 ELSE (t.n - 1) - 0 + 1
        BY <2>1, FS_Interval
    <2> QED
        BY <2>1, <2>2 DEF Indices
<1>2. StoredIn(t) \subseteq Indices(t) /\ ErasedIn(t) \subseteq Indices(t)
    BY DEF StoredIn, ErasedIn
<1>3. IsFiniteSet(StoredIn(t)) /\ IsFiniteSet(ErasedIn(t))
    BY <1>1, <1>2, FS_Subset
<1> QED
    BY <1>1, <1>3, FS_CardinalityType

-----------------------------------------------------------------------------
(* Where an insertion goes                                                 *)

LEMMA SlotOfKey ==
    ASSUME NEW t, SoundTable(t), NEW k \in Keys, HasKey(t, k)
    PROVE  SlotForInsert(t, k) = Find(t, k)
BY DEF SlotForInsert, HasKey, Find

(* As long as there is room, a key that is not there gets a slot that its  *)
(* search goes past.                                                       *)
LEMMA SlotIsFree ==
    ASSUME NEW t, SoundTable(t), NEW k \in Keys, ~HasKey(t, k), t.size < t.n
    PROVE  /\ SlotForInsert(t, k) \in Indices(t)
           /\ ~Occupied(t.entry[SlotForInsert(t, k)])
           /\ \E p \in Indices(t) : ReachedBy(t, k, SlotForInsert(t, k), p)
<1> DEFINE end == ProbesBefore(t, k)
           tombstones == {p \in 0 .. (end - 1) : t.entry[Probe(t, k, p)] = Erased}
           slot == SlotForInsert(t, k)
<1>1. t.n \in Nat \ {0} /\ t.size \in Nat
    BY DEF SoundTable, IsTable
<1>2. /\ end \in 0 .. t.n
      /\ end < t.n => StopsAt(t, k, end)
      /\ \A p \in Indices(t) : StopsAt(t, k, p) => end <= p
    BY <1>1, SearchEnds
<1>3. slot = IF tombstones # {} THEN Probe(t, k, Min(tombstones))
             ELSE IF end < t.n THEN Probe(t, k, end) ELSE t.n
    BY DEF SlotForInsert
<1>4. \A i \in Indices(t) : ~Holds(t.entry[i], k)
    BY HasKeyIff DEF Holds, StoredIn
<1> HIDE DEF end
<1>5. \A q \in 0 .. (end - 1) : q \in Indices(t) /\ ~StopsAt(t, k, q)
    BY <1>1, <1>2 DEF Indices
<1>6. CASE tombstones # {}
    <2>1. Min(tombstones) \in tombstones
        <3>1. tombstones \subseteq Nat
            OBVIOUS
        <3> QED
            BY <1>6, <3>1, MinOfNat
    <2> DEFINE p == Min(tombstones)
    <2>2. p \in 0 .. (end - 1) /\ t.entry[Probe(t, k, p)] = Erased
        BY <2>1
    <2> HIDE DEF p, tombstones
    <2>3. slot = Probe(t, k, p)
        BY <1>3, <1>6 DEF p
    <2>4. p \in Indices(t) /\ \A q \in 0 .. (p - 1) : ~StopsAt(t, k, q)
        BY <1>2, <1>5, <2>2
    <2>5. slot \in Indices(t)
        BY <1>1, <2>2, <2>3, ProbeIndex
    <2> QED
        BY <2>2, <2>3, <2>4, <2>5 DEF ReachedBy, Occupied
<1>7. CASE tombstones = {} /\ end < t.n
    <2>1. slot = Probe(t, k, end) /\ end \in Indices(t)
        BY <1>1, <1>2, <1>3, <1>7 DEF Indices
    <2>2. slot \in Indices(t)
        BY <1>1, <1>2, <2>1, ProbeIndex
    <2>3. t.entry[slot] = Empty
        BY <1>2, <1>4, <1>7, <2>1, <2>2 DEF StopsAt
    <2> QED
        BY <1>5, <2>1, <2>2, <2>3 DEF ReachedBy, Occupied
<1>8. CASE tombstones = {} /\ end = t.n
    <2>1. \A p \in Indices(t) : Occupied(t.entry[Probe(t, k, p)])
        BY <1>1, <1>5, <1>8 DEF StopsAt, Occupied, Indices
    <2>2. StoredIn(t) = Indices(t)
        BY <1>1, <2>1, ProbesReachAll DEF StoredIn
    <2> QED
        BY <1>1, <2>2, FiniteTable DEF SoundTable
<1>9. tombstones # {} \/ (tombstones = {} /\ end < t.n) \/ (tombstones = {} /\ end = t.n)
    BY <1>1, <1>2
<1> QED
    BY <1>6, <1>7, <1>8, <1>9

(* The first probe that reaches an index. *)
LEMMA FirstProbe ==
    ASSUME NEW t, t.n \in Nat, NEW k, NEW i, NEW p, ReachedBy(t, k, i, p)
    PROVE  \E q \in Indices(t) : /\ ReachedBy(t, k, i, q)
                                 /\ \A r \in 0 .. (q - 1) : Probe(t, k, r) # i
<1> DEFINE hits == {q \in 0 .. p : Probe(t, k, q) = i}
<1>1. p \in Nat /\ p < t.n /\ p \in hits
    BY DEF ReachedBy, Indices
<1>2. PICK q \in hits : \A r \in hits : q <= r
    <2>1. hits \subseteq Nat
        OBVIOUS
    <2> QED
        BY <1>1, <2>1, LeastNat
<1>3. q \in 0 .. p /\ Probe(t, k, q) = i
    BY <1>2
<1>4. \A r \in 0 .. (q - 1) : Probe(t, k, r) # i
    BY <1>1, <1>2, <1>3
<1>5. ReachedBy(t, k, i, q)
    BY <1>1, <1>3 DEF ReachedBy, Indices
<1> QED
    BY <1>4, <1>5 DEF ReachedBy

LEMMA ConstructSound ==
    ASSUME NEW t, SoundTable(t), NEW k \in Keys, NEW v, ~HasKey(t, k),
           NEW i, ~Occupied(t.entry[i]), \E p \in Indices(t) : ReachedBy(t, k, i, p)
    PROVE  /\ SoundTable(Construct(t, i, k, v))
           /\ Construct(t, i, k, v).n = t.n
           /\ Construct(t, i, k, v).size = t.size + 1
           /\ ElementsOf(Construct(t, i, k, v)) = ElementsOf(t) \cup {[key |-> k, val |-> v]}
<1> DEFINE e == [key |-> k, val |-> v]
           u == Construct(t, i, k, v)
<1>1. IsTable(t) /\ t.ok = TRUE
    BY DEF SoundTable
<1>2. PICK p \in Indices(t) : /\ ReachedBy(t, k, i, p)
                              /\ \A r \in 0 .. (p - 1) : Probe(t, k, r) # i
    BY <1>1, FirstProbe DEF IsTable
<1>3. i \in Indices(t)
    <2>1. p \in Nat /\ t.n \in Nat \ {0} /\ Probe(t, k, p) = i
        BY <1>1, <1>2 DEF ReachedBy, Indices, IsTable
    <2> QED
        BY <2>1, ProbeIndex
<1>4. /\ u.n = t.n /\ u.size = t.size + 1 /\ u.ok = TRUE
      /\ u.erased = IF t.entry[i] = Erased /\ t.erased > 0 THEN t.erased - 1 ELSE t.erased
      /\ u.entry = [t.entry EXCEPT ![i] = e]
      /\ u = [n |-> u.n, entry |-> u.entry, size |-> u.size, erased |-> u.erased, ok |-> u.ok]
    <2>1. u = [n |-> t.n, entry |-> [t.entry EXCEPT ![i] = e], size |-> t.size + 1,
               erased |-> ErasedAfter(t, i), ok |-> t.ok]
        <3>1. u = [t EXCEPT !.entry[i] = e, !.size = t.size + 1, !.erased = ErasedAfter(t, i)]
            BY DEF Construct
        <3>2. \A x, y, z : [t EXCEPT !.entry[i] = x, !.size = y, !.erased = z]
                 = [n |-> t.n, entry |-> [t.entry EXCEPT ![i] = x], size |-> y, erased |-> z,
                    ok |-> t.ok]
            BY <1>1, UpdatedTable
        <3> HIDE DEF e, u
        <3> QED
            BY <3>1, <3>2
    <2> QED
        BY <1>1, <2>1 DEF ErasedAfter
<1>5. IsElement(e) /\ Occupied(e) /\ e.key = k
    BY EntryKinds DEF IsElement, Occupied
<1> HIDE DEF e, u
<1>6. Indices(u) = Indices(t)
    BY <1>4 DEF Indices
<1>7. /\ AreEntries(u.entry, Indices(t))
      /\ u.entry[i] = e
      /\ \A j \in Indices(t) \ {i} : u.entry[j] = t.entry[j]
    BY <1>1, <1>3, <1>4, <1>5, EntryChanged DEF IsTable, IsEntry
<1>8. IsTable(u)
    BY <1>1, <1>4, <1>6, <1>7 DEF IsTable
<1>9. StoredIn(u) = StoredIn(t) \cup {i} /\ i \notin StoredIn(t)
    BY <1>3, <1>5, <1>6, <1>7 DEF StoredIn
<1>10. ErasedIn(u) = ErasedIn(t) \ {i}
    BY <1>3, <1>5, <1>6, <1>7 DEF ErasedIn, Occupied
<1>11. u.size = Cardinality(StoredIn(u))
    <2>1. IsFiniteSet(StoredIn(t))
        BY <1>1, FiniteTable
    <2>2. Cardinality(StoredIn(t) \cup {i}) = Cardinality(StoredIn(t)) + 1
        BY <1>9, <2>1, FS_AddElement
    <2> QED
        BY <1>4, <1>9, <2>2 DEF SoundTable
<1>12. u.erased = Cardinality(ErasedIn(u))
    <2>1. /\ i \in ErasedIn(t) <=> t.entry[i] = Erased
          /\ t.erased = Cardinality(ErasedIn(t)) /\ t.erased \in Nat
        BY <1>1, <1>3 DEF ErasedIn, SoundTable, IsTable
    <2>2. CASE i \in ErasedIn(t)
        <3>1. Cardinality(ErasedIn(u)) = Cardinality(ErasedIn(t)) - 1
            BY <1>1, <1>10, <2>2, FiniteTable, FS_RemoveElement
        <3>2. Cardinality(ErasedIn(t)) # 0
            BY <1>1, <2>2, FiniteTable, FS_EmptySet
        <3> QED
            BY <1>4, <2>1, <2>2, <3>1, <3>2
    <2>3. CASE i \notin ErasedIn(t)
        BY <1>4, <1>10, <2>1, <2>3
    <2> QED
        BY <2>2, <2>3
<1>13. \A key, q : Probe(u, key, q) = Probe(t, key, q)
    BY <1>4 DEF Probe
<1>14. Find(u, k) = i
    <2>1. ASSUME NEW q \in 0 .. (p - 1) PROVE ~StopsAt(u, k, q)
        <3>1. ~StopsAt(t, k, q) /\ Probe(t, k, q) # i /\ Probe(t, k, q) \in Indices(t)
            BY <1>1, <1>2, <1>3, ProbeIndex DEF ReachedBy, IsTable, Indices
        <3> QED
            BY <1>7, <1>13, <3>1 DEF StopsAt
    <2>2. ReachedBy(u, k, i, p)
        BY <1>2, <1>6, <1>13, <2>1 DEF ReachedBy
    <2>3. Holds(u.entry[i], k)
        BY <1>5, <1>7 DEF Holds
    <2> QED
        BY <1>8, <2>2, <2>3, FindIsReached DEF IsTable
<1>15. ASSUME NEW j \in StoredIn(t) PROVE Find(u, u.entry[j].key) = j
    <2> DEFINE kj == t.entry[j].key
    <2>1. j \in Indices(t) /\ j # i /\ u.entry[j] = t.entry[j] /\ kj \in Keys
        BY <1>1, <1>7, <1>9, TableFields DEF StoredIn
    <2>2. kj # k /\ Find(t, kj) = j /\ j # t.n
        <3>1. Find(t, kj) = j
            BY DEF SoundTable
        <3>2. j # t.n
            BY <1>1, <2>1 DEF Indices, IsTable
        <3>3. kj # k
            BY HasKeyIff
        <3> QED
            BY <3>1, <3>2, <3>3
    <2> HIDE DEF kj
    <2>3. PICK r \in Indices(t) : ReachedBy(t, kj, j, r)
        BY <1>1, <2>1, <2>2, FindReaches DEF IsTable
    <2>4. ASSUME NEW q \in 0 .. (r - 1) PROVE ~StopsAt(u, kj, q)
        <3>1. ~StopsAt(t, kj, q) /\ Probe(t, kj, q) \in Indices(t)
            BY <1>1, <2>1, <2>3, ProbeIndex DEF ReachedBy, IsTable, Indices
        <3>2. CASE Probe(t, kj, q) = i
            BY <1>5, <1>7, <1>13, <2>1, <2>2, <3>2 DEF StopsAt, Holds, Occupied
        <3>3. CASE Probe(t, kj, q) # i
            BY <1>7, <1>13, <2>1, <3>1, <3>3 DEF StopsAt
        <3> QED
            BY <3>2, <3>3
    <2>5. ReachedBy(u, kj, j, r)
        BY <1>6, <1>13, <2>1, <2>3, <2>4 DEF ReachedBy
    <2>6. Holds(u.entry[j], kj)
        BY <2>1 DEF StoredIn, Holds, kj
    <2>7. Find(u, kj) = j
        BY <1>8, <2>1, <2>5, <2>6, FindIsReached DEF IsTable
    <2> QED
        BY <2>1, <2>7 DEF kj
<1>16. SoundTable(u)
    BY <1>4, <1>5, <1>7, <1>8, <1>9, <1>11, <1>12, <1>14, <1>15 DEF SoundTable
<1>17. ElementsOf(u) = ElementsOf(t) \cup {e}
    <2>1. \A j \in StoredIn(t) : u.entry[j] = t.entry[j]
        BY <1>7, <1>9 DEF StoredIn
    <2> QED
        BY <1>7, <1>9, <2>1 DEF ElementsOf
<1> QED
    BY <1>4, <1>16, <1>17 DEF u, e

LEMMA PutNewSound ==
    ASSUME NEW t, SoundTable(t), NEW k \in Keys, NEW v, HasKey(t, k) \/ t.size < t.n
    PROVE  /\ SoundTable(PutNew(t, k, v))
           /\ PutNew(t, k, v).n = t.n
           /\ PutNew(t, k, v).size <= t.size + 1
           /\ HasKey(t, k) => PutNew(t, k, v) = t
           /\ ~HasKey(t, k) => ElementsOf(PutNew(t, k, v)) = ElementsOf(t) \cup {[key |-> k, val |-> v]}
<1> DEFINE i == SlotForInsert(t, k)
<1>1. t.ok = TRUE /\ t.n \in Nat /\ t.size \in Nat
    BY DEF SoundTable, IsTable
<1>2. CASE HasKey(t, k)
    <2>1. i = Find(t, k) /\ i # t.n /\ Occupied(t.entry[i])
        BY <1>2, SlotOfKey, HasKeyIff DEF HasKey, StoredIn
    <2>2. PutNew(t, k, v) = t
        BY <1>1, <2>1 DEF PutNew
    <2> QED
        BY <1>1, <1>2, <2>2
<1>3. CASE ~HasKey(t, k)
    <2>1. /\ i \in Indices(t) /\ ~Occupied(t.entry[i])
          /\ \E p \in Indices(t) : ReachedBy(t, k, i, p)
        BY <1>3, SlotIsFree
    <2>2. i # t.n
        BY <1>1, <2>1 DEF Indices
    <2>3. PutNew(t, k, v) = Construct(t, i, k, v)
        BY <1>1, <2>1, <2>2 DEF PutNew
    <2> HIDE DEF i
    <2>4. /\ SoundTable(Construct(t, i, k, v))
          /\ Construct(t, i, k, v).n = t.n
          /\ Construct(t, i, k, v).size = t.size + 1
          /\ ElementsOf(Construct(t, i, k, v)) = ElementsOf(t) \cup {[key |-> k, val |-> v]}
        BY <1>3, <2>1, ConstructSound
    <2> QED
        BY <1>1, <1>3, <2>3, <2>4
<1> QED
    BY <1>2, <1>3

-----------------------------------------------------------------------------
(* Rehashing                                                               *)

(* The recursion of BucketCount() defines a function. *)
LEMMA RoundUpExists ==
    ASSUME NEW m \in Nat
    PROVE  \E g : g = [c \in 1 .. m |-> IF c = 1 THEN 1 ELSE 2 * g[(c + 1) \div 2]]
<1> DEFINE D(g, c) == IF c = 1 THEN 1 ELSE 2 * g[(c + 1) \div 2]
           Runs(g, n) == g = [c \in 1 .. n |-> D(g, c)]
           Bad == {n \in Nat : ~\E g : Runs(g, n)}
<1>1. SUFFICES ASSUME Bad # {} PROVE FALSE
    OBVIOUS
<1>2. PICK n \in Bad : \A x \in Bad : n <= x
    <2>1. Bad \subseteq Nat
        OBVIOUS
    <2> QED
        BY <1>1, <2>1, LeastNat
<1>3. n \in Nat /\ ~\E g : Runs(g, n)
    BY <1>2
<1>4. n # 0
    <2>1. Runs([c \in 1 .. 0 |-> 1], 0)
        OBVIOUS
    <2> QED
        BY <1>3, <2>1
<1>5. PICK g : Runs(g, n - 1)
    <2>1. n - 1 \in Nat
        BY <1>3, <1>4
    <2>2. n - 1 \notin Bad
        <3> HIDE DEF Bad
        <3> QED
            BY <1>2, <1>3
    <2> HIDE DEF Runs
    <2> QED
        BY <2>1, <2>2
<1> DEFINE h == [c \in 1 .. n |-> D(g, c)]
<1>6. ASSUME NEW c \in 1 .. n PROVE D(g, c) = D(h, c)
    <2>1. CASE c = 1
        BY <2>1
    <2>2. CASE c # 1
        <3> DEFINE b == (c + 1) \div 2
        <3>1. b \in 1 .. (n - 1)
            BY <1>3, <2>2
        <3>2. g[b] = D(g, b) /\ h[b] = D(g, b)
            <4> HIDE DEF b, D
            <4> QED
                BY <1>3, <1>5, <3>1
        <3> QED
            BY <2>2, <3>2
    <2> QED
        BY <2>1, <2>2
<1>7. Runs(h, n)
    <2> HIDE DEF D
    <2> QED
        BY <1>6
<1> QED
    BY <1>3, <1>7

(* normalize_bucket_count() gives at least as many buckets as asked for. *)
LEMMA EnoughBuckets ==
    ASSUME NEW count \in Nat
    PROVE  /\ BucketCount(count) \in Nat \ {0}
           /\ BucketCount(count) >= count
<1> DEFINE least == Max({count, MinBuckets})
           Runs(g) == g = [c \in 1 .. least |-> IF c = 1 THEN 1 ELSE 2 * g[(c + 1) \div 2]]
           f == CHOOSE g : Runs(g)
<1>1. least \in Nat \ {0} /\ least >= count
    BY MinBucketsAssumption, MaxOfTwo
<1>2. BucketCount(count) = f[least]
    BY DEF BucketCount
<1> HIDE DEF least
<1>3. \E g : Runs(g)
    BY <1>1, RoundUpExists
<1>4. Runs(f)
    BY <1>3
<1> HIDE DEF f
<1>5. \A c \in 1 .. least : f[c] = IF c = 1 THEN 1 ELSE 2 * f[(c + 1) \div 2]
    BY <1>4
<1> HIDE DEF Runs
<1> DEFINE Bad == {c \in 1 .. least : ~(f[c] \in Nat /\ f[c] >= c)}
<1>6. Bad = {}
    <2> SUFFICES ASSUME Bad # {} PROVE FALSE
        OBVIOUS
    <2>1. PICK c \in Bad : \A x \in Bad : c <= x
        <3>1. Bad \subseteq Nat
            BY <1>1
        <3> QED
            BY <3>1, LeastNat
    <2>2. c \in 1 .. least /\ ~(f[c] \in Nat /\ f[c] >= c)
        BY <2>1
    <2>3. c # 1
        BY <1>5, <2>2
    <2> DEFINE b == (c + 1) \div 2
    <2>4. b \in 1 .. least /\ b < c /\ 2 * b >= c
        BY <1>1, <2>2, <2>3
    <2> HIDE DEF b
    <2>5. f[b] \in Nat /\ f[b] >= b
        BY <1>1, <2>1, <2>2, <2>4
    <2>6. f[c] = 2 * f[b]
        BY <1>5, <2>2, <2>3 DEF b
    <2> QED
        BY <2>2, <2>4, <2>5, <2>6
<1>7. f[least] \in Nat /\ f[least] >= least
    BY <1>1, <1>6
<1> QED
    BY <1>1, <1>2, <1>7

LEMMA RecordOfBlank ==
    ASSUME NEW t, NEW m, NEW f, NEW s, NEW c, NEW ok, NEW n, NEW e,
           t = [n |-> m, entry |-> f, size |-> s, erased |-> c, ok |-> ok]
    PROVE  [t EXCEPT !.n = n, !.entry = e]
              = [n |-> n, entry |-> e, size |-> s, erased |-> c, ok |-> ok]
<1> DEFINE t1 == [t EXCEPT !.n = n]
           t2 == [t1 EXCEPT !.entry = e]
<1>1. [t EXCEPT !.n = n, !.entry = e] = t2
    OBVIOUS
<1>2. t1 = [n |-> n, entry |-> f, size |-> s, erased |-> c, ok |-> ok]
    OBVIOUS
<1> HIDE DEF t1
<1>3. t2 = [n |-> n, entry |-> e, size |-> s, erased |-> c, ok |-> ok]
    BY <1>2
<1> QED
    BY <1>1, <1>3

LEMMA BlankSound ==
    ASSUME NEW n \in Nat
    PROVE  /\ SoundTable(Blank(n)) /\ Blank(n).n = n /\ Blank(n).size = 0 /\ Blank(n).ok = TRUE
           /\ ElementsOf(Blank(n)) = {} /\ \A k \in Keys : ~HasKey(Blank(n), k)
<1> DEFINE u == Blank(n)
<1>1. u = [n |-> n, entry |-> [i \in 0 .. (n - 1) |-> Empty], size |-> 0, erased |-> 0, ok |-> TRUE]
    <2> DEFINE e == [i \in 0 .. (n - 1) |-> Empty]
               f == [i \in {} |-> Empty]
    <2>1. NoTable = [n |-> 0, entry |-> f, size |-> 0, erased |-> 0, ok |-> TRUE]
        BY DEF NoTable
    <2>2. u = [NoTable EXCEPT !.n = n, !.entry = e]
        BY DEF Blank
    <2> HIDE DEF e, f, u
    <2>3. u = [n |-> n, entry |-> e, size |-> 0, erased |-> 0, ok |-> TRUE]
        BY <2>1, <2>2, RecordOfBlank
    <2> QED
        BY <2>3 DEF e
<1> HIDE DEF u
<1>2. IsTable(u) /\ u.ok = TRUE /\ u.n = n /\ u.size = 0
    BY <1>1 DEF IsTable, AreEntries, IsEntry, Indices
<1>3. StoredIn(u) = {} /\ ErasedIn(u) = {}
    BY <1>1, EntryKinds DEF StoredIn, ErasedIn, Occupied, Indices
<1>4. SoundTable(u)
    BY <1>1, <1>2, <1>3, FS_EmptySet DEF SoundTable
<1>5. ElementsOf(u) = {}
    BY <1>3 DEF ElementsOf
<1> QED
    BY <1>2, <1>4, <1>5, HasKeyIff DEF u

LEMMA NoTableSound ==
    SoundTable(NoTable) /\ ElementsOf(NoTable) = {} /\ NoTable.n = 0 /\ NoTable.size = 0
<1>1. NoTable = [n |-> 0, entry |-> [i \in {} |-> Empty], size |-> 0, erased |-> 0, ok |-> TRUE]
    BY DEF NoTable
<1>2. IsTable(NoTable)
    BY <1>1 DEF IsTable, AreEntries, IsEntry, Indices
<1>3. StoredIn(NoTable) = {} /\ ErasedIn(NoTable) = {}
    BY <1>1 DEF StoredIn, ErasedIn, Indices
<1>4. SoundTable(NoTable)
    BY <1>1, <1>2, <1>3, FS_EmptySet DEF SoundTable
<1> QED
    BY <1>1, <1>3, <1>4 DEF ElementsOf

(* The loop of rehash(), and that of the copy constructor. *)
LoopBody(t, g, i, base, load, copies) ==
    IF i = -1 THEN base
    ELSE IF Occupied(t.entry[i])
         THEN IF copies THEN TryEmplace(g[i - 1], load, t.entry[i].key, t.entry[i].val)
              ELSE PutNew(g[i - 1], t.entry[i].key, t.entry[i].val)
         ELSE g[i - 1]

IsLoop(g, t, last, base, load, copies) ==
    g = [i \in -1 .. last |-> LoopBody(t, g, i, base, load, copies)]

LEMMA LoopExists ==
    ASSUME NEW t, NEW n \in Nat, NEW base, NEW load, NEW copies
    PROVE  \E g : IsLoop(g, t, n - 1, base, load, copies)
<1> DEFINE D(g, i) == LoopBody(t, g, i, base, load, copies)
           Runs(g, m) == g = [i \in -1 .. (m - 1) |-> D(g, i)]
           Bad == {m \in Nat : ~\E g : Runs(g, m)}
<1>1. SUFFICES ASSUME Bad # {} PROVE FALSE
    BY DEF IsLoop
<1>2. PICK m \in Bad : \A x \in Bad : m <= x
    <2>1. Bad \subseteq Nat
        OBVIOUS
    <2> QED
        BY <1>1, <2>1, LeastNat
<1>3. m \in Nat /\ ~\E g : Runs(g, m)
    BY <1>2
<1>4. m # 0
    <2> DEFINE g == [i \in -1 .. (0 - 1) |-> base]
    <2>1. \A i \in -1 .. (0 - 1) : D(g, i) = base
        BY DEF LoopBody
    <2>2. Runs(g, 0)
        <3> HIDE DEF D
        <3> QED
            BY <2>1
    <2> QED
        BY <1>3, <2>2
<1>5. PICK g : Runs(g, m - 1)
    <2>1. m - 1 \in Nat /\ m - 1 \notin Bad
        BY <1>2, <1>3, <1>4
    <2> QED
        BY <2>1
<1> DEFINE h == [i \in -1 .. (m - 1) |-> D(g, i)]
<1>6. ASSUME NEW i \in -1 .. (m - 1) PROVE D(g, i) = D(h, i)
    <2>1. CASE i = -1
        BY <2>1 DEF LoopBody
    <2>2. CASE i # -1
        <3>1. i - 1 \in -1 .. ((m - 1) - 1) /\ i - 1 \in -1 .. (m - 1)
            BY <1>3, <2>2
        <3>2. g[i - 1] = D(g, i - 1) /\ h[i - 1] = D(g, i - 1)
            <4> HIDE DEF D
            <4> QED
                BY <1>3, <1>5, <3>1
        <3>3. g[i - 1] = h[i - 1]
            BY <3>2
        <3> HIDE DEF h
        <3> QED
            BY <2>2, <3>3 DEF LoopBody
    <2> QED
        BY <2>1, <2>2
<1>7. Runs(h, m)
    <2> HIDE DEF D
    <2> QED
        BY <1>6
<1> QED
    BY <1>3, <1>7

(* What a loop over the entries needs of a table: each key in one entry.   *)
OldTable(t) ==
    /\ IsTable(t) /\ t.ok = TRUE
    /\ Cardinality(StoredIn(t)) <= t.size
    /\ \A i, j \in StoredIn(t) : t.entry[i].key = t.entry[j].key => i = j

LEMMA SoundIsOld ==
    ASSUME NEW t, SoundTable(t)
    PROVE  OldTable(t)
<1>1. IsTable(t) /\ t.ok = TRUE /\ t.size = Cardinality(StoredIn(t)) /\ t.size \in Nat
    BY DEF SoundTable, IsTable
<1>2. \A i, j \in StoredIn(t) : t.entry[i].key = t.entry[j].key => i = j
    BY DEF SoundTable
<1> QED
    BY <1>1, <1>2 DEF OldTable

(* The old block, whichever of its entries another map has taken. *)
LEMMA OldEntriesKept ==
    ASSUME NEW t, SoundTable(t)
    PROVE  /\ OldTable(OldEntries(t))
           /\ OldEntries(t).n = t.n /\ OldEntries(t).size = t.size
           /\ TakenEntries = {} => ElementsOf(OldEntries(t)) = ElementsOf(t)
<1> DEFINE o == OldEntries(t)
           entries == [i \in Indices(t) |-> IF i \in TakenEntries THEN Empty ELSE t.entry[i]]
<1>1. IsTable(t) /\ t.ok = TRUE /\ t.n \in Nat /\ t.size \in Nat /\ t.erased \in Nat
    BY DEF SoundTable, IsTable
<1>2. t = [n |-> t.n, entry |-> t.entry, size |-> t.size, erased |-> t.erased, ok |-> t.ok]
    BY <1>1 DEF IsTable
<1>3. o = [n |-> t.n, entry |-> entries, size |-> t.size, erased |-> t.erased, ok |-> t.ok]
    <2>1. o = [t EXCEPT !.entry = entries]
        BY DEF OldEntries
    <2> HIDE DEF o, entries
    <2> QED
        BY <1>2, <2>1
<1>4. /\ o.n = t.n /\ o.entry = entries /\ o.size = t.size /\ o.erased = t.erased
      /\ o.ok = t.ok /\ Indices(o) = Indices(t)
    BY <1>3 DEF Indices
<1>5. \A i \in Indices(t) : entries[i] = IF i \in TakenEntries THEN Empty ELSE t.entry[i]
    OBVIOUS
<1>6. AreEntries(entries, Indices(t))
    BY <1>1 DEF IsTable, AreEntries, IsEntry
<1> HIDE DEF o, entries
<1>7. IsTable(o)
    BY <1>1, <1>3, <1>4, <1>6 DEF IsTable
<1>8. StoredIn(o) \subseteq StoredIn(t) /\ \A i \in StoredIn(o) : o.entry[i] = t.entry[i]
    BY <1>4, <1>5 DEF StoredIn, Occupied
<1>9. Cardinality(StoredIn(o)) <= t.size
    <2>1. IsFiniteSet(StoredIn(t))
        BY <1>1, FiniteTable
    <2> QED
        BY <1>8, <2>1, FS_Subset DEF SoundTable
<1>10. \A i, j \in StoredIn(o) : o.entry[i].key = o.entry[j].key => i = j
    BY <1>8, SoundIsOld DEF OldTable
<1>11. ASSUME TakenEntries = {} PROVE ElementsOf(o) = ElementsOf(t)
    <2>1. StoredIn(o) = StoredIn(t)
        BY <1>4, <1>5, <1>11 DEF StoredIn
    <2> QED
        BY <1>8, <2>1 DEF ElementsOf
<1> QED
    BY <1>1, <1>4, <1>7, <1>9, <1>10, <1>11 DEF OldTable, o

(* The elements at the indices up to i, which the loop has moved. *)
Earlier(t, i) == {j \in StoredIn(t) : j <= i}
Moved(t, i) == {t.entry[j] : j \in Earlier(t, i)}

LEMMA MovedAll ==
    ASSUME NEW t, OldTable(t)
    PROVE  /\ Earlier(t, -1) = {} /\ Moved(t, -1) = {}
           /\ Moved(t, t.n - 1) = ElementsOf(t)
<1>1. \A j \in StoredIn(t) : j \in 0 .. (t.n - 1)
    BY DEF StoredIn, Indices
<1>2. t.n \in Nat
    BY DEF OldTable, IsTable
<1>3. Earlier(t, -1) = {} /\ Earlier(t, t.n - 1) = StoredIn(t)
    BY <1>1, <1>2 DEF Earlier
<1> QED
    BY <1>3 DEF Moved, ElementsOf

LEMMA MovedOneMore ==
    ASSUME NEW t, OldTable(t), NEW i \in Indices(t), Occupied(t.entry[i])
    PROVE  /\ Moved(t, i) = Moved(t, i - 1) \cup {t.entry[i]}
           /\ t.entry[i].key \in Keys
           /\ t.entry[i] = [key |-> t.entry[i].key, val |-> t.entry[i].val]
           /\ \A e \in Moved(t, i - 1) : e.key # t.entry[i].key
           /\ Cardinality(Earlier(t, i - 1)) \in Nat
           /\ Cardinality(Earlier(t, i)) = Cardinality(Earlier(t, i - 1)) + 1
           /\ Cardinality(Earlier(t, i)) <= t.size
<1>1. IsTable(t) /\ i \in StoredIn(t)
    BY DEF OldTable, StoredIn
<1>2. \A j \in StoredIn(t) : j \in Nat
    BY DEF StoredIn, Indices
<1>3. Earlier(t, i) = Earlier(t, i - 1) \cup {i} /\ i \notin Earlier(t, i - 1)
    BY <1>1, <1>2 DEF Earlier
<1>4. Earlier(t, i) \subseteq StoredIn(t) /\ Earlier(t, i - 1) \subseteq StoredIn(t)
    BY DEF Earlier
<1>5. IsFiniteSet(StoredIn(t))
    BY <1>1, FiniteTable
<1>6. IsFiniteSet(Earlier(t, i - 1)) /\ Cardinality(Earlier(t, i)) <= Cardinality(StoredIn(t))
    BY <1>4, <1>5, FS_Subset
<1>7. Cardinality(Earlier(t, i - 1)) \in Nat
    BY <1>6, FS_CardinalityType
<1>8. Cardinality(Earlier(t, i - 1) \cup {i}) = Cardinality(Earlier(t, i - 1)) + 1
    BY <1>3, <1>6, FS_AddElement
<1>9. IsElement(t.entry[i]) /\ t.entry[i].key \in Keys
    BY <1>1, TableFields
<1>10. ASSUME NEW j \in Earlier(t, i - 1), t.entry[j].key = t.entry[i].key PROVE FALSE
    <2>1. j = i
        BY <1>1, <1>4, <1>10 DEF OldTable
    <2> QED
        BY <1>3, <2>1
<1>11. Cardinality(Earlier(t, i)) <= t.size
    <2>1. Cardinality(Earlier(t, i)) \in Nat /\ Cardinality(StoredIn(t)) \in Nat
        BY <1>3, <1>5, <1>6, <1>7, <1>8, FS_CardinalityType
    <2>2. Cardinality(StoredIn(t)) <= t.size /\ t.size \in Nat
        BY DEF OldTable, IsTable
    <2> QED
        BY <1>6, <2>1, <2>2
<1> QED
    BY <1>3, <1>7, <1>8, <1>9, <1>10, <1>11 DEF Moved, IsElement

LEMMA MovedNoMore ==
    ASSUME NEW t, OldTable(t), NEW i \in Indices(t), ~Occupied(t.entry[i])
    PROVE  Moved(t, i) = Moved(t, i - 1) /\ Earlier(t, i) = Earlier(t, i - 1)
<1>1. \A j \in StoredIn(t) : j \in Nat /\ j # i
    BY DEF StoredIn, Indices
<1>2. Earlier(t, i) = Earlier(t, i - 1)
    BY <1>1 DEF Earlier, Indices
<1> QED
    BY <1>2 DEF Moved

LEMMA SizeFits ==
    ASSUME NEW t, SoundTable(t)
    PROVE  t.n \in Nat /\ t.size \in Nat /\ t.erased \in Nat /\ t.size <= t.n
<1>1. IsTable(t) /\ StoredIn(t) \subseteq Indices(t)
    BY DEF SoundTable, StoredIn
<1>2. Cardinality(StoredIn(t)) <= Cardinality(Indices(t))
    BY <1>1, FiniteTable, FS_Subset
<1> QED
    BY <1>1, <1>2, FiniteTable DEF SoundTable, IsTable

(* rehash() leaves a sound table, when it gets room for the elements, and  *)
(* keeps every one of them unless its old block is taken from under it.    *)
LEMMA RehashSound ==
    ASSUME NEW t, SoundTable(t), NEW count \in Nat, t.size <= count
    PROVE  /\ SoundTable(Rehash(t, count))
           /\ Rehash(t, count).n >= count /\ Rehash(t, count).n \in Nat \ {0}
           /\ Rehash(t, count).size <= t.size
           /\ TakenEntries = {} => ElementsOf(Rehash(t, count)) = ElementsOf(t)
<1> DEFINE o == OldEntries(t)
           base == [Blank(BucketCount(count)) EXCEPT !.ok = t.ok]
           Loop(g) == g = [i \in -1 .. (t.n - 1) |->
                IF i = -1 THEN base
                ELSE IF Occupied(o.entry[i]) THEN PutNew(g[i - 1], o.entry[i].key, o.entry[i].val)
                ELSE g[i - 1]]
           after == CHOOSE g : Loop(g)
           m == BucketCount(count)
<1>1. Rehash(t, count) = after[t.n - 1]
    BY DEF Rehash, ForEach, LastOld
<1>2. /\ t.n \in Nat /\ t.size \in Nat /\ t.ok = TRUE
      /\ OldTable(o) /\ o.n = t.n /\ o.size = t.size /\ Indices(o) = Indices(t)
    BY SizeFits, OldEntriesKept DEF SoundTable, Indices
<1>3. m \in Nat \ {0} /\ m >= count
    BY EnoughBuckets
<1>4. SoundTable(base) /\ base.n = m /\ base.size = 0 /\ ElementsOf(base) = {}
    <2> DEFINE b == Blank(m)
    <2>1. SoundTable(b) /\ b.n = m /\ b.size = 0 /\ b.ok = TRUE /\ ElementsOf(b) = {}
        BY <1>3, BlankSound
    <2>2. b = [n |-> b.n, entry |-> b.entry, size |-> b.size, erased |-> b.erased, ok |-> b.ok]
        BY <2>1 DEF SoundTable, IsTable
    <2> HIDE DEF b
    <2>3. [b EXCEPT !.ok = TRUE] = b
        BY <2>1, <2>2
    <2>4. base = b
        BY <1>2, <2>3 DEF b
    <2> QED
        BY <2>1, <2>4
<1> HIDE DEF base, m, o
<1>5. \E g : Loop(g)
    <2>1. PICK g : IsLoop(g, o, t.n - 1, base, <<1, 1>>, FALSE)
        BY <1>2, LoopExists
    <2>2. Loop(g)
        BY <2>1 DEF IsLoop, LoopBody
    <2> QED
        BY <2>2
<1>6. Loop(after)
    BY <1>5
<1> HIDE DEF after
<1>7. /\ after[-1] = base
      /\ \A i \in Indices(o) :
            after[i] = IF Occupied(o.entry[i])
                       THEN PutNew(after[i - 1], o.entry[i].key, o.entry[i].val)
                       ELSE after[i - 1]
    BY <1>2, <1>6 DEF Indices
<1> HIDE DEF Loop
<1> DEFINE R(i) == /\ SoundTable(after[i]) /\ after[i].n = m
                   /\ after[i].size <= Cardinality(Earlier(o, i))
                   /\ ElementsOf(after[i]) = Moved(o, i)
<1>8. R(-1)
    BY <1>2, <1>4, <1>7, MovedAll, FS_EmptySet
<1>9. ASSUME NEW i \in Indices(o), R(i - 1) PROVE R(i)
    <2>1. CASE Occupied(o.entry[i])
        <3> DEFINE k == o.entry[i].key
                   v == o.entry[i].val
                   u == after[i - 1]
        <3>1. /\ k \in Keys /\ o.entry[i] = [key |-> k, val |-> v]
              /\ Moved(o, i) = Moved(o, i - 1) \cup {o.entry[i]}
              /\ \A e \in Moved(o, i - 1) : e.key # k
              /\ Cardinality(Earlier(o, i - 1)) \in Nat
              /\ Cardinality(Earlier(o, i)) = Cardinality(Earlier(o, i - 1)) + 1
              /\ Cardinality(Earlier(o, i)) <= t.size
            BY <1>2, <2>1, MovedOneMore
        <3>2. after[i] = PutNew(u, k, v)
            BY <1>7, <2>1
        <3>3. /\ SoundTable(u) /\ u.n = m /\ u.size <= Cardinality(Earlier(o, i - 1))
              /\ ElementsOf(u) = Moved(o, i - 1)
            BY <1>9
        <3> HIDE DEF k, v, u
        <3>4. ~HasKey(u, k)
            BY <3>1, <3>3, HasKeyIff
        <3>5. u.size \in Nat /\ u.size < u.n
            BY <1>2, <1>3, <3>1, <3>3, SizeFits
        <3>6. /\ SoundTable(PutNew(u, k, v)) /\ PutNew(u, k, v).n = u.n
              /\ PutNew(u, k, v).size <= u.size + 1
              /\ ElementsOf(PutNew(u, k, v)) = ElementsOf(u) \cup {[key |-> k, val |-> v]}
            BY <3>1, <3>3, <3>4, <3>5, PutNewSound
        <3>7. PutNew(u, k, v).size \in Nat
            BY <3>6, SizeFits
        <3> QED
            BY <3>1, <3>2, <3>3, <3>5, <3>6, <3>7
    <2>2. CASE ~Occupied(o.entry[i])
        BY <1>2, <1>7, <1>9, <2>2, MovedNoMore
    <2> QED
        BY <2>1, <2>2
<1> HIDE DEF R
<1> DEFINE Bad == {l \in Nat : l <= t.n /\ ~R(l - 1)}
<1>10. Bad = {}
    <2> SUFFICES ASSUME Bad # {} PROVE FALSE
        OBVIOUS
    <2>1. PICK l \in Bad : \A x \in Bad : l <= x
        <3>1. Bad \subseteq Nat
            OBVIOUS
        <3> QED
            BY <3>1, LeastNat
    <2>2. l \in Nat /\ l <= t.n /\ ~R(l - 1) /\ l # 0
        BY <1>8, <2>1
    <2>3. R((l - 1) - 1)
        BY <1>2, <2>1, <2>2
    <2>4. l - 1 \in Indices(o)
        BY <1>2, <2>2 DEF Indices
    <2> QED
        BY <1>9, <2>2, <2>3, <2>4
<1>11. R(t.n - 1)
    BY <1>2, <1>10
<1>12. Cardinality(Earlier(o, t.n - 1)) <= t.size
    <2>1. Earlier(o, t.n - 1) = StoredIn(o)
        BY <1>2 DEF Earlier, StoredIn, Indices
    <2> QED
        BY <1>2, <2>1 DEF OldTable
<1>13. after[t.n - 1].size \in Nat /\ Cardinality(Earlier(o, t.n - 1)) \in Nat
    <2>1. Earlier(o, t.n - 1) = StoredIn(o)
        BY <1>2 DEF Earlier, StoredIn, Indices
    <2> QED
        BY <1>2, <1>11, <2>1, SizeFits, FiniteTable DEF OldTable, R
<1> QED
    BY <1>1, <1>2, <1>3, <1>11, <1>12, <1>13, MovedAll, OldEntriesKept DEF R, o

-----------------------------------------------------------------------------
(* Insertions                                                              *)

(* A load factor that leaves a bucket free. *)
IsLoad(load) ==
    load \in (Nat \ {0}) \X (Nat \ {0}) /\ load[1] <= load[2]

LEMMA CancelFactor ==
    ASSUME NEW a \in Nat, NEW n \in Nat, NEW p \in Nat, NEW q \in Nat \ {0},
           a * q <= n * p, p <= q
    PROVE  a <= n
<1>1. n * p <= n * q
    OBVIOUS
<1>2. a * q <= n * q
    BY <1>1
<1>3. ASSUME a >= n + 1 PROVE FALSE
    <2>1. a * q >= (n + 1) * q
        BY <1>3
    <2> QED
        BY <1>2, <2>1
<1> QED
    BY <1>3

(* ensure_capacity_for_insert() leaves room for one element. *)
LEMMA EnsureCapacitySound ==
    ASSUME NEW t, SoundTable(t), NEW load, IsLoad(load)
    PROVE  /\ SoundTable(EnsureCapacity(t, load))
           /\ EnsureCapacity(t, load).size < EnsureCapacity(t, load).n
           /\ TakenEntries = {} => ElementsOf(EnsureCapacity(t, load)) = ElementsOf(t)
<1> DEFINE u == EnsureCapacity(t, load)
<1>1. t.n \in Nat /\ t.size \in Nat /\ t.erased \in Nat /\ t.size <= t.n
    BY SizeFits
<1>2. CASE t.n = 0
    <2>1. u = Rehash(t, MinBuckets) /\ MinBuckets \in Nat /\ t.size = 0 /\ MinBuckets > 0
        BY <1>1, <1>2, MinBucketsAssumption DEF EnsureCapacity
    <2>2. /\ SoundTable(u) /\ u.n >= MinBuckets /\ u.size <= t.size
          /\ TakenEntries = {} => ElementsOf(u) = ElementsOf(t)
        BY <2>1, RehashSound
    <2> HIDE DEF u
    <2>3. u.n \in Nat /\ u.size \in Nat
        BY <2>2, SizeFits
    <2> QED
        BY <2>1, <2>2, <2>3 DEF u
<1>3. CASE t.n # 0 /\ TooFull(t, load)
    <2>1. u = Rehash(t, 2 * t.n) /\ 2 * t.n \in Nat /\ t.size <= 2 * t.n /\ t.size < 2 * t.n
        BY <1>1, <1>3 DEF EnsureCapacity
    <2>2. /\ SoundTable(u) /\ u.n >= 2 * t.n /\ u.size <= t.size
          /\ TakenEntries = {} => ElementsOf(u) = ElementsOf(t)
        BY <2>1, RehashSound
    <2> HIDE DEF u
    <2>3. u.n \in Nat /\ u.size \in Nat
        BY <2>2, SizeFits
    <2> QED
        BY <1>1, <2>1, <2>2, <2>3 DEF u
<1>4. CASE t.n # 0 /\ ~TooFull(t, load)
    <2>1. u = t
        BY <1>4 DEF EnsureCapacity
    <2>2. load[1] \in Nat /\ load[2] \in Nat \ {0} /\ load[1] <= load[2]
        BY DEF IsLoad
    <2>3. (t.size + t.erased + 1) * load[2] <= t.n * load[1]
        BY <1>1, <1>4, <2>2 DEF TooFull
    <2>4. t.size + t.erased + 1 <= t.n
        BY <1>1, <2>2, <2>3, CancelFactor
    <2> QED
        BY <1>1, <2>1, <2>4
<1> QED
    BY <1>2, <1>3, <1>4

LEMMA TryEmplaceSound ==
    ASSUME NEW t, SoundTable(t), NEW load, IsLoad(load), NEW k \in Keys, NEW v
    PROVE  /\ SoundTable(TryEmplace(t, load, k, v))
           /\ HasKey(TryEmplace(t, load, k, v), k)
           /\ TakenEntries = {} =>
                 IF HasKey(t, k) THEN ElementsOf(TryEmplace(t, load, k, v)) = ElementsOf(t)
                 ELSE ElementsOf(TryEmplace(t, load, k, v))
                         = ElementsOf(t) \cup {[key |-> k, val |-> v]}
<1> DEFINE u == EnsureCapacity(t, load)
           w == PutNew(u, k, v)
<1>1. SoundTable(u) /\ u.size < u.n /\ (TakenEntries = {} => ElementsOf(u) = ElementsOf(t))
    BY EnsureCapacitySound
<1>2. TryEmplace(t, load, k, v) = w
    BY DEF TryEmplace
<1> HIDE DEF u
<1>3. TakenEntries = {} => (HasKey(u, k) <=> HasKey(t, k))
    BY <1>1, HasKeyIff
<1>4. /\ SoundTable(w)
      /\ HasKey(u, k) => w = u
      /\ ~HasKey(u, k) => ElementsOf(w) = ElementsOf(u) \cup {[key |-> k, val |-> v]}
    BY <1>1, PutNewSound
<1> HIDE DEF w
<1>5. HasKey(w, k)
    <2>1. CASE HasKey(u, k)
        BY <1>4, <2>1
    <2>2. CASE ~HasKey(u, k)
        <3>1. [key |-> k, val |-> v] \in ElementsOf(w) /\ [key |-> k, val |-> v].key = k
            BY <1>4, <2>2
        <3> QED
            BY <1>4, <3>1, HasKeyIff
    <2> QED
        BY <2>1, <2>2
<1> QED
    BY <1>1, <1>2, <1>3, <1>4, <1>5

(* The keys of a sound table lead to one element each. *)
LEMMA OneElement ==
    ASSUME NEW t, SoundTable(t), NEW i \in StoredIn(t)
    PROVE  /\ i \in Indices(t) /\ i \in Nat /\ i < t.n
           /\ IsElement(t.entry[i]) /\ t.entry[i].key \in Keys
           /\ \A j \in StoredIn(t) : t.entry[j].key = t.entry[i].key => j = i
           /\ \A e \in ElementsOf(t) : e.key = t.entry[i].key <=> e = t.entry[i]
<1>1. i \in Indices(t) /\ IsTable(t) /\ Occupied(t.entry[i])
    BY DEF StoredIn, SoundTable
<1>2. \A j \in StoredIn(t) : t.entry[j].key = t.entry[i].key => j = i
    BY DEF SoundTable
<1> QED
    BY <1>1, <1>2, TableFields DEF ElementsOf

SameElsewhere(t, u, i) ==
    u.n = t.n /\ \A j \in Indices(t) \ {i} : u.entry[j] = t.entry[j]
DoesNotStop(e, k) == e # Empty /\ ~Holds(e, k)

(* The search for a key goes the same way through two tables that differ   *)
(* at one index only, where neither is Empty nor holds the key.            *)
LEMMA SameSearch ==
    ASSUME NEW t, SoundTable(t), NEW u, IsTable(u), NEW i, SameElsewhere(t, u, i),
           NEW j \in StoredIn(t), Holds(u.entry[j], t.entry[j].key),
           i = j \/ DoesNotStop(u.entry[i], t.entry[j].key),
           t.entry[i] # Empty
    PROVE  Find(u, t.entry[j].key) = j
<1> USE DEF SameElsewhere, DoesNotStop
<1> DEFINE k == t.entry[j].key
<1>1. IsTable(t) /\ j \in Indices(t) /\ k \in Keys /\ Find(t, k) = j /\ t.n \in Nat
    BY OneElement DEF SoundTable, IsTable
<1>2. PICK p \in Indices(t) : ReachedBy(t, k, j, p)
    BY <1>1, FindReaches DEF Indices
<1>3. \A q : Probe(u, k, q) = Probe(t, k, q)
    BY DEF Probe
<1> HIDE DEF k
<1>4. ASSUME NEW q \in 0 .. (p - 1) PROVE ~StopsAt(u, k, q)
    <2>1. ~StopsAt(t, k, q) /\ Probe(t, k, q) \in Indices(t)
        BY <1>1, <1>2, ProbeIndex DEF ReachedBy, Indices
    <2>2. CASE Probe(t, k, q) = i
        <3>1. i # j
            <4>1. Holds(t.entry[j], k)
                BY DEF Holds, StoredIn, k
            <4> QED
                BY <2>1, <2>2, <4>1 DEF StopsAt
        <3> QED
            BY <1>3, <2>2, <3>1 DEF StopsAt, k
    <2>3. CASE Probe(t, k, q) # i
        BY <1>3, <2>1, <2>3 DEF StopsAt
    <2> QED
        BY <2>2, <2>3
<1>5. ReachedBy(u, k, j, p)
    BY <1>2, <1>3, <1>4 DEF ReachedBy, Indices
<1>6. Holds(u.entry[j], k)
    BY DEF Holds, k
<1>7. Find(u, k) = j
    BY <1>1, <1>5, <1>6, FindIsReached
<1> QED
    BY <1>7 DEF k

(* Another value for the key of an entry. *)
LEMMA ValueSound ==
    ASSUME NEW t, SoundTable(t), NEW i \in StoredIn(t), NEW v
    PROVE  /\ SoundTable([t EXCEPT !.entry[i].val = v])
           /\ ElementsOf([t EXCEPT !.entry[i].val = v])
                 = {e \in ElementsOf(t) : e.key # t.entry[i].key}
                   \cup {[key |-> t.entry[i].key, val |-> v]}
<1> DEFINE k == t.entry[i].key
           e == [key |-> k, val |-> v]
           u == [t EXCEPT !.entry[i].val = v]
<1>1. /\ IsTable(t) /\ t.ok = TRUE /\ i \in Indices(t) /\ i \in Nat
      /\ IsElement(t.entry[i]) /\ k \in Keys
    BY OneElement DEF SoundTable
<1>2. /\ u.n = t.n /\ u.size = t.size /\ u.ok = TRUE /\ u.erased = t.erased
      /\ u.entry = [t.entry EXCEPT ![i] = e]
      /\ u = [n |-> u.n, entry |-> u.entry, size |-> u.size, erased |-> u.erased, ok |-> u.ok]
    <2>1. t = [n |-> t.n, entry |-> t.entry, size |-> t.size, erased |-> t.erased, ok |-> t.ok]
        BY <1>1 DEF IsTable
    <2>2. [t.entry[i] EXCEPT !.val = v] = e
        BY <1>1 DEF IsElement
    <2>3. u = [t EXCEPT !.entry[i] = [t.entry[i] EXCEPT !.val = v]]
        OBVIOUS
    <2>4. u = [t EXCEPT !.entry[i] = e]
        BY <2>2, <2>3
    <2> HIDE DEF e, u
    <2>5. u = [n |-> t.n, entry |-> [t.entry EXCEPT ![i] = e], size |-> t.size,
               erased |-> t.erased, ok |-> t.ok]
        BY <2>1, <2>4
    <2> QED
        BY <1>1, <2>5
<1>3. IsElement(e) /\ Occupied(e) /\ e.key = k
    BY <1>1, EntryKinds DEF IsElement, Occupied
<1> HIDE DEF e, u
<1>4. Indices(u) = Indices(t)
    BY <1>2 DEF Indices
<1>5. /\ AreEntries(u.entry, Indices(t))
      /\ u.entry[i] = e
      /\ \A j \in Indices(t) \ {i} : u.entry[j] = t.entry[j]
    BY <1>1, <1>2, <1>3, EntryChanged DEF IsTable, IsEntry
<1>6. IsTable(u)
    BY <1>1, <1>2, <1>4, <1>5 DEF IsTable
<1>7. Occupied(t.entry[i]) /\ t.entry[i] # Empty /\ t.entry[i] # Erased
    BY DEF StoredIn, Occupied
<1>8. StoredIn(u) = StoredIn(t) /\ ErasedIn(u) = ErasedIn(t)
    BY <1>1, <1>3, <1>4, <1>5, <1>7 DEF StoredIn, ErasedIn, Occupied
<1>9. ASSUME NEW j \in StoredIn(t) PROVE Find(u, u.entry[j].key) = j
    <2>1. j \in Indices(t) /\ (j # i => t.entry[j].key # k)
        BY OneElement
    <2>2. Holds(u.entry[j], t.entry[j].key)
        BY <1>3, <1>5, <2>1 DEF StoredIn, k, Holds
    <2>3. i = j \/ DoesNotStop(u.entry[i], t.entry[j].key)
        BY <1>3, <1>5, <2>1 DEF DoesNotStop, Holds, Occupied
    <2>4. SameElsewhere(t, u, i)
        BY <1>2, <1>5 DEF SameElsewhere
    <2>5. Find(u, t.entry[j].key) = j
        BY <1>6, <1>7, <2>2, <2>3, <2>4, SameSearch
    <2> QED
        BY <2>2, <2>5 DEF Holds
<1>10. SoundTable(u)
    BY <1>2, <1>6, <1>8, <1>9 DEF SoundTable
<1>11. ElementsOf(u) = {x \in ElementsOf(t) : x.key # k} \cup {e}
    <2>1. ASSUME NEW j \in StoredIn(t) PROVE u.entry[j] = IF j = i THEN e ELSE t.entry[j]
        BY <1>5 DEF StoredIn
    <2>2. \A j \in StoredIn(t) : t.entry[j].key = k <=> j = i
        BY OneElement
    <2> QED
        BY <1>8, <2>1, <2>2 DEF ElementsOf
<1> QED
    BY <1>10, <1>11 DEF u, e

LEMMA AssignSound ==
    ASSUME NEW t, SoundTable(t), NEW load, IsLoad(load), NEW k \in Keys, NEW v
    PROVE  /\ SoundTable(Assign(t, load, k, v))
           /\ TakenEntries = {} =>
                 ElementsOf(Assign(t, load, k, v))
                    = {e \in ElementsOf(t) : e.key # k} \cup {[key |-> k, val |-> v]}
<1> DEFINE u == TryEmplace(t, load, k, v)
           i == Find(u, k)
<1>1. /\ SoundTable(u) /\ HasKey(u, k)
      /\ TakenEntries = {} =>
            IF HasKey(t, k) THEN ElementsOf(u) = ElementsOf(t)
            ELSE ElementsOf(u) = ElementsOf(t) \cup {[key |-> k, val |-> v]}
    BY TryEmplaceSound
<1>2. Assign(t, load, k, v) = [u EXCEPT !.entry[i].val = v]
    BY <1>1 DEF Assign, SoundTable
<1> HIDE DEF u
<1>3. i \in StoredIn(u) /\ u.entry[i].key = k
    BY <1>1, HasKeyIff
<1> HIDE DEF i
<1>4. /\ SoundTable([u EXCEPT !.entry[i].val = v])
      /\ ElementsOf([u EXCEPT !.entry[i].val = v])
            = {e \in ElementsOf(u) : e.key # k} \cup {[key |-> k, val |-> v]}
    BY <1>1, <1>3, ValueSound
<1>5. TakenEntries = {} => {e \in ElementsOf(u) : e.key # k} = {e \in ElementsOf(t) : e.key # k}
    BY <1>1
<1> QED
    BY <1>2, <1>4, <1>5

-----------------------------------------------------------------------------
(* Erasing                                                                 *)

LEMMA EraseSound ==
    ASSUME NEW t, SoundTable(t), NEW i \in StoredIn(t)
    PROVE  /\ SoundTable(EraseIndex(t, i)) /\ EraseIndex(t, i).n = t.n
           /\ StoredIn(EraseIndex(t, i)) = StoredIn(t) \ {i}
           /\ \A j \in StoredIn(t) \ {i} : EraseIndex(t, i).entry[j] = t.entry[j]
           /\ ElementsOf(EraseIndex(t, i)) = {e \in ElementsOf(t) : e.key # t.entry[i].key}
<1> DEFINE u == EraseIndex(t, i)
<1>1. /\ IsTable(t) /\ t.ok = TRUE /\ i \in Indices(t) /\ i \in Nat /\ i < t.n
      /\ IsElement(t.entry[i]) /\ t.entry[i].key \in Keys
    BY OneElement DEF SoundTable
<1>2. /\ u.n = t.n /\ u.size = t.size - 1 /\ u.ok = TRUE /\ u.erased = t.erased + 1
      /\ u.entry = [t.entry EXCEPT ![i] = Erased]
      /\ u = [n |-> u.n, entry |-> u.entry, size |-> u.size, erased |-> u.erased, ok |-> u.ok]
    <2>1. t.n \in Nat
        BY <1>1 DEF IsTable
    <2>2. u = [t EXCEPT !.entry[i] = Erased, !.size = t.size - 1, !.erased = t.erased + 1]
        BY <1>1, <2>1 DEF EraseIndex
    <2> HIDE DEF u
    <2>3. u = [n |-> t.n, entry |-> [t.entry EXCEPT ![i] = Erased], size |-> t.size - 1,
               erased |-> t.erased + 1, ok |-> t.ok]
        <3>1. \A x, y, z : [t EXCEPT !.entry[i] = x, !.size = y, !.erased = z]
                 = [n |-> t.n, entry |-> [t.entry EXCEPT ![i] = x], size |-> y, erased |-> z,
                    ok |-> t.ok]
            BY <1>1, UpdatedTable
        <3> QED
            BY <2>2, <3>1
    <2> QED
        BY <1>1, <2>3
<1> HIDE DEF u
<1>3. Indices(u) = Indices(t)
    BY <1>2 DEF Indices
<1>4. /\ AreEntries(u.entry, Indices(t))
      /\ u.entry[i] = Erased
      /\ \A j \in Indices(t) \ {i} : u.entry[j] = t.entry[j]
    BY <1>1, <1>2, EntryChanged DEF IsTable, IsEntry
<1>5. Occupied(t.entry[i]) /\ t.entry[i] # Empty /\ t.entry[i] # Erased
    BY DEF StoredIn, Occupied
<1>6. StoredIn(u) = StoredIn(t) \ {i} /\ ErasedIn(u) = ErasedIn(t) \cup {i} /\ i \notin ErasedIn(t)
    BY <1>1, <1>3, <1>4, <1>5 DEF StoredIn, ErasedIn, Occupied
<1>7. /\ Cardinality(StoredIn(u)) = t.size - 1 /\ Cardinality(StoredIn(u)) \in Nat
      /\ Cardinality(ErasedIn(u)) = t.erased + 1 /\ Cardinality(ErasedIn(u)) \in Nat
    <2>1. IsFiniteSet(StoredIn(t)) /\ IsFiniteSet(ErasedIn(t))
        BY <1>1, FiniteTable
    <2>2. IsFiniteSet(StoredIn(u)) /\ Cardinality(StoredIn(u)) = Cardinality(StoredIn(t)) - 1
        BY <1>6, <2>1, FS_RemoveElement
    <2>3. IsFiniteSet(ErasedIn(u)) /\ Cardinality(ErasedIn(u)) = Cardinality(ErasedIn(t)) + 1
        BY <1>6, <2>1, FS_AddElement
    <2> QED
        BY <2>2, <2>3, FS_CardinalityType DEF SoundTable
<1>8. IsTable(u)
    BY <1>1, <1>2, <1>3, <1>4, <1>7 DEF IsTable
<1>9. ASSUME NEW j \in StoredIn(t), j # i PROVE Find(u, u.entry[j].key) = j
    <2>1. u.entry[j] = t.entry[j]
        BY <1>4, <1>9 DEF StoredIn
    <2>2. Holds(u.entry[j], t.entry[j].key) /\ DoesNotStop(u.entry[i], t.entry[j].key)
        BY <1>4, <2>1, EntryKinds DEF StoredIn, DoesNotStop, Holds, Occupied
    <2>3. SameElsewhere(t, u, i)
        BY <1>2, <1>4 DEF SameElsewhere
    <2>4. Find(u, t.entry[j].key) = j
        BY <1>5, <1>8, <2>2, <2>3, SameSearch
    <2> QED
        BY <2>1, <2>4
<1>10. SoundTable(u)
    BY <1>2, <1>6, <1>7, <1>8, <1>9 DEF SoundTable
<1>11. \A j \in StoredIn(t) \ {i} : u.entry[j] = t.entry[j]
    BY <1>4 DEF StoredIn
<1>12. ElementsOf(u) = {x \in ElementsOf(t) : x.key # t.entry[i].key}
    <2>1. \A j \in StoredIn(t) : t.entry[j].key = t.entry[i].key <=> j = i
        BY OneElement
    <2> QED
        BY <1>6, <1>11, <2>1 DEF ElementsOf
<1> QED
    BY <1>2, <1>6, <1>10, <1>11, <1>12 DEF u

-----------------------------------------------------------------------------
(* Copying                                                                 *)

(* A copy holds the same elements: each is inserted into it in turn, and  *)
(* no block is taken from under a rehash on the way.                       *)
LEMMA CopySound ==
    ASSUME NEW t, SoundTable(t), NEW load, IsLoad(load)
    PROVE  /\ SoundTable(Copied(t, load))
           /\ TakenEntries = {} => ElementsOf(Copied(t, load)) = ElementsOf(t)
<1> DEFINE buckets == IF t.n = 0 THEN MinBuckets ELSE t.n
           base == Rehash(NoTable, buckets)
           Loop(g) == g = [i \in -1 .. (t.n - 1) |->
                IF i = -1 THEN base
                ELSE IF Occupied(t.entry[i])
                     THEN TryEmplace(g[i - 1], load, t.entry[i].key, t.entry[i].val)
                ELSE g[i - 1]]
           after == CHOOSE g : Loop(g)
<1>1. Copied(t, load) = after[t.n - 1]
    BY DEF Copied, ForEach
<1>2. t.n \in Nat
    BY SizeFits
<1>3. SoundTable(base) /\ (TakenEntries = {} => ElementsOf(base) = {})
    <2>1. buckets \in Nat /\ NoTable.size <= buckets
        BY <1>2, NoTableSound, MinBucketsAssumption
    <2> HIDE DEF buckets
    <2> QED
        BY <2>1, NoTableSound, RehashSound
<1> HIDE DEF base
<1>4. \E g : Loop(g)
    <2>1. PICK g : IsLoop(g, t, t.n - 1, base, load, TRUE)
        BY <1>2, LoopExists
    <2>2. Loop(g)
        BY <2>1 DEF IsLoop, LoopBody
    <2> QED
        BY <2>2
<1>5. Loop(after)
    BY <1>4
<1> HIDE DEF after
<1>6. /\ after[-1] = base
      /\ \A i \in Indices(t) :
            after[i] = IF Occupied(t.entry[i])
                       THEN TryEmplace(after[i - 1], load, t.entry[i].key, t.entry[i].val)
                       ELSE after[i - 1]
    BY <1>2, <1>5 DEF Indices
<1> HIDE DEF Loop
<1> DEFINE R(i) == /\ SoundTable(after[i])
                   /\ TakenEntries = {} => ElementsOf(after[i]) = Moved(t, i)
<1> OldTable(t)
    BY SoundIsOld
<1>7. R(-1)
    BY <1>3, <1>6, MovedAll
<1>8. ASSUME NEW i \in Indices(t), R(i - 1) PROVE R(i)
    <2>1. CASE Occupied(t.entry[i])
        <3> DEFINE k == t.entry[i].key
                   v == t.entry[i].val
                   u == after[i - 1]
        <3>1. /\ k \in Keys /\ t.entry[i] = [key |-> k, val |-> v]
              /\ Moved(t, i) = Moved(t, i - 1) \cup {t.entry[i]}
              /\ \A e \in Moved(t, i - 1) : e.key # k
            BY <2>1, MovedOneMore
        <3>2. after[i] = TryEmplace(u, load, k, v)
            BY <1>6, <2>1
        <3>3. SoundTable(u) /\ (TakenEntries = {} => ElementsOf(u) = Moved(t, i - 1))
            BY <1>8
        <3> HIDE DEF k, v, u
        <3>4. TakenEntries = {} => ~HasKey(u, k)
            BY <3>1, <3>3, HasKeyIff
        <3>5. /\ SoundTable(TryEmplace(u, load, k, v))
              /\ TakenEntries = {} =>
                    ElementsOf(TryEmplace(u, load, k, v)) = ElementsOf(u) \cup {[key |-> k, val |-> v]}
            BY <3>1, <3>3, <3>4, TryEmplaceSound
        <3> QED
            BY <3>1, <3>2, <3>3, <3>5
    <2>2. CASE ~Occupied(t.entry[i])
        BY <1>6, <1>8, <2>2, MovedNoMore
    <2> QED
        BY <2>1, <2>2
<1> HIDE DEF R
<1> DEFINE Bad == {l \in Nat : l <= t.n /\ ~R(l - 1)}
<1>9. Bad = {}
    <2> SUFFICES ASSUME Bad # {} PROVE FALSE
        OBVIOUS
    <2>1. PICK l \in Bad : \A x \in Bad : l <= x
        <3>1. Bad \subseteq Nat
            OBVIOUS
        <3> QED
            BY <3>1, LeastNat
    <2>2. l \in Nat /\ l <= t.n /\ ~R(l - 1) /\ l # 0
        BY <1>7, <2>1
    <2>3. R((l - 1) - 1)
        BY <1>2, <2>1, <2>2
    <2>4. l - 1 \in Indices(t)
        BY <1>2, <2>2 DEF Indices
    <2> QED
        BY <1>8, <2>2, <2>3, <2>4
<1>10. R(t.n - 1)
    BY <1>2, <1>9
<1> QED
    BY <1>1, <1>10, MovedAll DEF R

-----------------------------------------------------------------------------
(* The map and the iterator                                                *)

(* The map has the keys and the values of a set of elements. *)
Agrees(elements, m) ==
    /\ m = [k \in DOMAIN m |-> m[k]]
    /\ DOMAIN m = {e.key : e \in elements}
    /\ \A e \in elements : m[e.key] = e.val

(* An iterator that is not at the end stands at an element. *)
AtElement == cursor \in Indices(tab) => cursor \in StoredIn(tab)

(* The keys in the entries of t after index i. *)
KeysAfter(t, i) == {t.entry[j].key : j \in {x \in StoredIn(t) : x > i}}

(* What is still to be shown is what is ahead of the iterator. *)
Ahead ==
    \/ cursor = NoCursor /\ unseen = {}
    \/ cursor \in 0 .. tab.n /\ unseen = KeysAfter(tab, cursor)

MapInv ==
    /\ SoundTable(tab) /\ IsLoad(maxLoad)
    /\ TakenEntries = {} => Agrees(ElementsOf(tab), map)
    /\ AtElement /\ Ahead

LEMMA ContentsAgree ==
    ASSUME NEW t, SoundTable(t), NEW m, Agrees(ElementsOf(t), m)
    PROVE  Contents(t) = m
<1>1. \A e \in ElementsOf(t) : e.key \in Keys
    BY OneElement DEF ElementsOf
<1>2. Present(t) = DOMAIN m
    BY <1>1, HasKeyIff DEF Present, Agrees
<1>3. ASSUME NEW k \in Present(t) PROVE t.entry[Find(t, k)].val = m[k]
    <2>1. Find(t, k) \in StoredIn(t) /\ t.entry[Find(t, k)].key = k
        BY HasKeyIff DEF Present
    <2>2. t.entry[Find(t, k)] \in ElementsOf(t)
        BY <2>1 DEF ElementsOf
    <2> QED
        BY <2>1, <2>2 DEF Agrees
<1>4. Contents(t) = [k \in DOMAIN m |-> m[k]]
    BY <1>2, <1>3 DEF Contents
<1> QED
    BY <1>4 DEF Agrees

LEMMA AgreesEmpty == Agrees({}, NoMap)
BY DEF Agrees, NoMap

(* An element with a new key, and another one with a key that is there. *)
LEMMA AgreesWith ==
    ASSUME NEW elements, NEW m, Agrees(elements, m), NEW k, NEW v
    PROVE  Agrees({e \in elements : e.key # k} \cup {[key |-> k, val |-> v]}, With(m, k, v))
<1> DEFINE new == {e \in elements : e.key # k} \cup {[key |-> k, val |-> v]}
           w == With(m, k, v)
<1>1. /\ w = [j \in DOMAIN w |-> w[j]] /\ DOMAIN w = DOMAIN m \cup {k}
      /\ \A j \in DOMAIN m \cup {k} : w[j] = IF j = k THEN v ELSE m[j]
    BY DEF With
<1> HIDE DEF w
<1>2. {e.key : e \in new} = DOMAIN m \cup {k}
    <2>1. {e.key : e \in new} \subseteq DOMAIN m \cup {k}
        BY DEF Agrees
    <2>2. ASSUME NEW j \in DOMAIN m, j # k PROVE \E e \in new : e.key = j
        <3>1. PICK e \in elements : e.key = j
            BY DEF Agrees
        <3> QED
            BY <2>2, <3>1
    <2>3. [key |-> k, val |-> v] \in new /\ [key |-> k, val |-> v].key = k
        OBVIOUS
    <2> HIDE DEF new
    <2> QED
        BY <2>1, <2>2, <2>3
<1>3. ASSUME NEW e \in new PROVE w[e.key] = e.val
    <2>1. CASE e \in elements /\ e.key # k
        BY <1>1, <2>1 DEF Agrees
    <2>2. CASE e = [key |-> k, val |-> v]
        BY <1>1, <2>2
    <2> QED
        BY <2>1, <2>2
<1> HIDE DEF new
<1>4. Agrees(new, w)
    BY <1>1, <1>2, <1>3 DEF Agrees
<1> QED
    BY <1>4 DEF new, w

LEMMA AgreesWithout ==
    ASSUME NEW elements, NEW m, Agrees(elements, m), NEW k
    PROVE  Agrees({e \in elements : e.key # k}, Without(m, k))
<1> DEFINE w == Without(m, k)
<1>1. /\ w = [j \in DOMAIN w |-> w[j]] /\ DOMAIN w = DOMAIN m \ {k}
      /\ \A j \in DOMAIN m \ {k} : w[j] = m[j]
    BY DEF Without
<1> HIDE DEF w
<1>2. {e.key : e \in {x \in elements : x.key # k}} = DOMAIN m \ {k}
    BY DEF Agrees
<1>3. ASSUME NEW e \in elements, e.key # k PROVE w[e.key] = e.val
    BY <1>1, <1>3 DEF Agrees
<1>4. Agrees({x \in elements : x.key # k}, w)
    BY <1>1, <1>2, <1>3 DEF Agrees
<1> QED
    BY <1>4 DEF w

(* skip_to_occupied() *)
LEMMA NextOccupiedIs ==
    ASSUME SoundTable(tab), NEW i \in Nat
    PROVE  /\ NextOccupied(i) \in 0 .. tab.n
           /\ NextOccupied(i) # tab.n => NextOccupied(i) \in StoredIn(tab)
           /\ NextOccupied(i) # tab.n => NextOccupied(i) >= i
           /\ \A j \in StoredIn(tab) : j >= i => j >= NextOccupied(i)
<1> DEFINE stops == {j \in i .. (tab.n - 1) : Occupied(tab.entry[j])} \cup {tab.n}
<1>1. tab.n \in Nat
    BY SizeFits
<1>2. stops \subseteq Nat /\ stops # {}
    BY <1>1
<1>3. Min(stops) \in stops /\ \A j \in stops : Min(stops) <= j
    BY <1>2, MinOfNat
<1>4. NextOccupied(i) = Min(stops)
    BY DEF NextOccupied
<1> HIDE DEF stops
<1>5. NextOccupied(i) \in stops /\ \A j \in stops : NextOccupied(i) <= j
    BY <1>3, <1>4
<1> HIDE DEF NextOccupied
<1> QED
    BY <1>1, <1>5 DEF stops, StoredIn, Indices

-----------------------------------------------------------------------------
(* The invariant                                                           *)

LEMMA MapInit == Init => MapInv
<1> SUFFICES ASSUME Init PROVE MapInv
    OBVIOUS
<1>1. NoTable.size <= MinBuckets /\ MinBuckets \in Nat
    BY NoTableSound, MinBucketsAssumption
<1>2. SoundTable(tab) /\ (TakenEntries = {} => ElementsOf(tab) = {})
    BY <1>1, NoTableSound, RehashSound DEF Init
<1>3. IsLoad(maxLoad)
    BY ArgumentsAssumption DEF Init, IsLoad
<1> QED
    BY <1>2, <1>3, AgreesEmpty, NoCursorAssumption DEF Init, MapInv, Ahead, AtElement, Indices

LEMMA CursorEndsAhead == CursorEnds => Ahead' /\ AtElement'
BY NoCursorAssumption DEF CursorEnds, Ahead, AtElement, Indices

LEMMA InsertStep ==
    ASSUME MapInv, NEW k \in Keys, NEW v \in Values, Insert(k, v)
    PROVE  MapInv'
<1>1. SoundTable(tab) /\ IsLoad(maxLoad) /\ (TakenEntries = {} => Agrees(ElementsOf(tab), map))
    BY DEF MapInv
<1>2. /\ SoundTable(tab')
      /\ TakenEntries = {} =>
            IF HasKey(tab, k) THEN ElementsOf(tab') = ElementsOf(tab)
            ELSE ElementsOf(tab') = ElementsOf(tab) \cup {[key |-> k, val |-> v]}
    BY <1>1, TryEmplaceSound DEF Insert
<1>3. TakenEntries = {} => (HasKey(tab, k) <=> k \in DOMAIN map)
    BY <1>1, HasKeyIff DEF Agrees
<1>4. TakenEntries = {} => Agrees(ElementsOf(tab'), map')
    <2> SUFFICES ASSUME TakenEntries = {} PROVE Agrees(ElementsOf(tab'), map')
        OBVIOUS
    <2>1. CASE HasKey(tab, k)
        BY <1>1, <1>2, <1>3, <2>1 DEF Insert
    <2>2. CASE ~HasKey(tab, k)
        <3>1. {e \in ElementsOf(tab) : e.key # k} = ElementsOf(tab)
            BY <1>1, <2>2, HasKeyIff
        <3>2. map' = With(map, k, v)
            BY <1>3, <2>2 DEF Insert
        <3> QED
            BY <1>1, <1>2, <2>2, <3>1, <3>2, AgreesWith
    <2> QED
        BY <2>1, <2>2
<1> QED
    BY <1>1, <1>2, <1>4, CursorEndsAhead DEF Insert, MapInv

LEMMA AssignStep ==
    ASSUME MapInv, NEW k \in Keys, NEW v \in Values, AssignTo(k, v)
    PROVE  MapInv'
<1>1. SoundTable(tab) /\ IsLoad(maxLoad) /\ (TakenEntries = {} => Agrees(ElementsOf(tab), map))
    BY DEF MapInv
<1>2. /\ SoundTable(tab')
      /\ TakenEntries = {} =>
            ElementsOf(tab') = {e \in ElementsOf(tab) : e.key # k} \cup {[key |-> k, val |-> v]}
    BY <1>1, AssignSound DEF AssignTo
<1>3. TakenEntries = {} => Agrees(ElementsOf(tab'), map')
    BY <1>1, <1>2, AgreesWith DEF AssignTo
<1> QED
    BY <1>1, <1>2, <1>3, CursorEndsAhead DEF AssignTo, MapInv

(* What is ahead of an iterator once the element at index i is erased. *)
LEMMA AheadAfterErase ==
    ASSUME SoundTable(tab), NEW i \in StoredIn(tab), tab' = EraseIndex(tab, i), NEW c \in Nat
    PROVE  KeysAfter(tab', c) = KeysAfter(tab, c) \ {tab.entry[i].key}
<1>1. /\ StoredIn(tab') = StoredIn(tab) \ {i}
      /\ \A j \in StoredIn(tab) \ {i} : tab'.entry[j] = tab.entry[j]
    BY EraseSound
<1>2. \A j \in StoredIn(tab) : tab.entry[j].key = tab.entry[i].key => j = i
    BY OneElement
<1> QED
    BY <1>1, <1>2 DEF KeysAfter

LEMMA EraseStep ==
    ASSUME MapInv, NEW k \in Keys, Erase(k)
    PROVE  MapInv'
<1> DEFINE i == Find(tab, k)
<1>1. /\ SoundTable(tab) /\ IsLoad(maxLoad) /\ (TakenEntries = {} => Agrees(ElementsOf(tab), map)) /\ Ahead
      /\ maxLoad' = maxLoad /\ cursor' = cursor /\ AtElement
    BY DEF MapInv, Erase
<1>2. CASE HasKey(tab, k)
    <2>1. i \in StoredIn(tab) /\ tab.entry[i].key = k
        BY <1>1, <1>2, HasKeyIff
    <2>2. /\ SoundTable(tab')
          /\ ElementsOf(tab') = {e \in ElementsOf(tab) : e.key # k}
        BY <1>1, <2>1, EraseSound DEF Erase
    <2>3. TakenEntries = {} => Agrees(ElementsOf(tab'), map')
        BY <1>1, <2>2, AgreesWithout DEF Erase
    <2>4. Ahead'
        <3>1. CASE cursor = NoCursor /\ unseen = {}
            BY <3>1 DEF Erase, Ahead
        <3>2. CASE cursor \in 0 .. tab.n /\ unseen = KeysAfter(tab, cursor)
            <4>1. unseen' = unseen \ {k} /\ tab' = EraseIndex(tab, i)
                BY DEF Erase
            <4> HIDE DEF i
            <4>2. tab'.n = tab.n
                BY <1>1, <2>1, <4>1, EraseSound
            <4>3. KeysAfter(tab', cursor) = KeysAfter(tab, cursor) \ {k}
                BY <1>1, <2>1, <3>2, <4>1, AheadAfterErase
            <4> QED
                BY <1>1, <3>2, <4>1, <4>2, <4>3 DEF Ahead
        <3> QED
            BY <1>1, <3>1, <3>2 DEF Ahead
    <2>5. AtElement'
        <3>1. cursor # i
            BY <1>1, <2>1, OneElement DEF Erase
        <3>2. tab' = EraseIndex(tab, i)
            BY DEF Erase
        <3> HIDE DEF i
        <3>3. tab'.n = tab.n /\ StoredIn(tab') = StoredIn(tab) \ {i}
            BY <1>1, <2>1, <3>2, EraseSound
        <3> QED
            BY <1>1, <3>1, <3>3 DEF AtElement, Indices
    <2> QED
        BY <1>1, <2>2, <2>3, <2>4, <2>5 DEF MapInv
<1>3. CASE ~HasKey(tab, k)
    <2>1. tab' = tab
        BY <1>3 DEF Erase, EraseIndex, HasKey
    <2>2. ElementsOf(tab) = {e \in ElementsOf(tab) : e.key # k}
        BY <1>1, <1>3, HasKeyIff
    <2>3. TakenEntries = {} => Agrees(ElementsOf(tab'), map')
        BY <1>1, <2>1, <2>2, AgreesWithout DEF Erase
    <2>4. Ahead'
        <3>1. k \notin unseen
            <4>1. \A j \in StoredIn(tab) : tab.entry[j].key # k
                BY <1>1, <1>3, HasKeyIff
            <4> QED
                BY <1>1, <4>1 DEF Ahead, KeysAfter
        <3>2. unseen' = unseen
            BY <3>1 DEF Erase
        <3> QED
            BY <1>1, <2>1, <3>2 DEF Ahead
    <2>5. AtElement'
        BY <1>1, <2>1 DEF AtElement
    <2> QED
        BY <1>1, <2>1, <2>3, <2>4, <2>5 DEF MapInv
<1> QED
    BY <1>2, <1>3

LEMMA ClearStep ==
    ASSUME MapInv, Clear
    PROVE  MapInv'
<1>1. IsLoad(maxLoad) /\ tab.n \in Nat
    BY SizeFits DEF MapInv
<1>2. SoundTable(tab') /\ ElementsOf(tab') = {}
    BY <1>1, BlankSound DEF Clear, ClearTable
<1> QED
    BY <1>1, <1>2, AgreesEmpty, CursorEndsAhead DEF Clear, MapInv

LEMMA MoveStep ==
    ASSUME MapInv, MoveFrom
    PROVE  MapInv'
BY NoTableSound, AgreesEmpty, CursorEndsAhead DEF MoveFrom, MapInv

LEMMA QuotientType ==
    ASSUME NEW a \in Nat, NEW b \in Nat \ {0}, NEW c \in Nat
    PROVE  (a * c) \div b + 1 \in Nat
<1>1. a * c \in Nat
    OBVIOUS
<1> QED
    BY <1>1

LEMMA ReserveStep ==
    ASSUME MapInv, NEW count \in Counts, Reserve(count)
    PROVE  MapInv'
<1> DEFINE required == (count * maxLoad[2]) \div maxLoad[1] + 1
<1>1. /\ SoundTable(tab) /\ IsLoad(maxLoad) /\ (TakenEntries = {} => Agrees(ElementsOf(tab), map))
      /\ tab' = (IF required > tab.n THEN Rehash(tab, required) ELSE tab)
      /\ CursorEnds /\ maxLoad' = maxLoad /\ map' = map
    BY DEF MapInv, Reserve
<1>2. required \in Nat
    BY <1>1, ArgumentsAssumption, QuotientType DEF IsLoad
<1> HIDE DEF required
<1>3. tab.n \in Nat /\ tab.size \in Nat /\ tab.size <= tab.n
    BY <1>1, SizeFits
<1>4. SoundTable(tab') /\ (TakenEntries = {} => ElementsOf(tab') = ElementsOf(tab))
    <2>1. CASE required > tab.n
        BY <1>1, <1>2, <1>3, <2>1, RehashSound
    <2>2. CASE ~(required > tab.n)
        BY <1>1, <2>2
    <2> QED
        BY <2>1, <2>2
<1> QED
    BY <1>1, <1>4, CursorEndsAhead DEF MapInv

LEMMA RehashStep ==
    ASSUME MapInv, ~RehashBelowSize, NEW count \in Counts, RehashTo(count)
    PROVE  MapInv'
<1>1. /\ SoundTable(tab) /\ IsLoad(maxLoad) /\ (TakenEntries = {} => Agrees(ElementsOf(tab), map))
      /\ tab' = Rehash(tab, count) /\ count \in Nat /\ count >= tab.size
      /\ CursorEnds /\ maxLoad' = maxLoad /\ map' = map
    BY ArgumentsAssumption DEF MapInv, RehashTo
<1>2. tab.size <= count
    BY <1>1, SizeFits
<1>3. SoundTable(tab') /\ (TakenEntries = {} => ElementsOf(tab') = ElementsOf(tab))
    BY <1>1, <1>2, RehashSound
<1> QED
    BY <1>1, <1>3, CursorEndsAhead DEF MapInv

LEMMA SetMaxLoadStep ==
    ASSUME MapInv, NEW load \in LoadFactors, load[1] <= load[2], SetMaxLoadFactor(load)
    PROVE  MapInv'
<1>1. load \in Nat \X (Nat \ {0})
    BY ArgumentsAssumption
<1>2. IsLoad(maxLoad')
    <2>1. CASE 10 * load[1] > load[2]
        <3>1. load[1] \in Nat \ {0} /\ load[2] \in Nat \ {0} /\ load = <<load[1], load[2]>>
            BY <1>1, <2>1
        <3> QED
            BY <2>1, <3>1 DEF SetMaxLoadFactor, IsLoad
    <2>2. CASE ~(10 * load[1] > load[2])
        BY <2>2 DEF SetMaxLoadFactor, IsLoad
    <2> QED
        BY <2>1, <2>2
<1> QED
    BY <1>2 DEF SetMaxLoadFactor, MapInv, Ahead, AtElement

LEMMA CopyStep ==
    ASSUME MapInv, Copy
    PROVE  MapInv'
<1>1. SoundTable(tab) /\ IsLoad(maxLoad) /\ (TakenEntries = {} => Agrees(ElementsOf(tab), map))
    BY DEF MapInv
<1>2. SoundTable(tab') /\ (TakenEntries = {} => ElementsOf(tab') = ElementsOf(tab))
    BY <1>1, CopySound DEF Copy
<1> QED
    BY <1>1, <1>2, CursorEndsAhead DEF Copy, MapInv

(* The iterator comes to the first element at index i or after it: it had  *)
(* still to show that one, and shows what comes after it from there on.    *)
LEMMA StandsAhead ==
    ASSUME SoundTable(tab), NEW i \in Nat, NEW keys, StandAt(NextOccupied(i), keys),
           keys = {tab.entry[j].key : j \in {x \in StoredIn(tab) : x >= i}}
    PROVE  /\ cursor' \in 0 .. tab.n
           /\ unseen' = KeysAfter(tab, cursor')
           /\ cursor' \in Indices(tab) =>
                 /\ cursor' \in StoredIn(tab) /\ cursor' >= i
                 /\ tab.entry[cursor'].key \in keys
           /\ cursor' # tab.n => cursor' \in Indices(tab)
<1> DEFINE n == NextOccupied(i)
<1>1. /\ n \in 0 .. tab.n /\ (n # tab.n => n \in StoredIn(tab) /\ n >= i)
      /\ \A j \in StoredIn(tab) : j >= i => j >= n
    BY NextOccupiedIs
<1>2. /\ cursor' = n
      /\ unseen' = IF n = tab.n THEN keys ELSE keys \ {tab.entry[n].key}
    BY DEF StandAt
<1> HIDE DEF n
<1>3. \A j \in StoredIn(tab) : j \in Nat /\ j < tab.n
    BY OneElement
<1>4. CASE n = tab.n
    <2>1. \A j \in StoredIn(tab) : ~(j >= i) /\ ~(j > n)
        BY <1>1, <1>3, <1>4, SizeFits
    <2> QED
        BY <1>1, <1>2, <1>4, <2>1, SizeFits DEF KeysAfter, Indices
<1>5. CASE n # tab.n
    <2>1. n \in StoredIn(tab) /\ n >= i /\ n \in Indices(tab)
        BY <1>1, <1>5, OneElement
    <2>2. \A j \in StoredIn(tab) : tab.entry[j].key = tab.entry[n].key => j = n
        BY <2>1, OneElement
    <2>3. \A j \in StoredIn(tab) : j >= i /\ j # n <=> j > n
        BY <1>1, <1>3, <2>1
    <2>4. unseen' = KeysAfter(tab, n)
        BY <1>2, <1>5, <2>2, <2>3 DEF KeysAfter
    <2>5. tab.entry[n].key \in keys
        BY <2>1
    <2> QED
        BY <1>1, <1>2, <2>1, <2>4, <2>5
<1> QED
    BY <1>4, <1>5

LEMMA BeginStep ==
    ASSUME MapInv, Begin
    PROVE  MapInv'
<1> DEFINE keys == {tab.entry[i].key : i \in {j \in Indices(tab) : Occupied(tab.entry[j])}}
<1>1. SoundTable(tab) /\ StandAt(NextOccupied(0), keys)
    BY DEF MapInv, Begin
<1>2. keys = {tab.entry[j].key : j \in {x \in StoredIn(tab) : x >= 0}}
    BY DEF StoredIn, Indices
<1> HIDE DEF keys
<1>3. /\ cursor' \in 0 .. tab.n /\ unseen' = KeysAfter(tab, cursor')
      /\ cursor' \in Indices(tab) => cursor' \in StoredIn(tab)
    BY <1>1, <1>2, StandsAhead
<1> QED
    BY <1>3 DEF Begin, MapInv, Ahead, AtElement

(* What the iterator comes to, and has still to show, once it moves on. *)
LEMMA MovesAhead ==
    ASSUME MapInv, cursor \in Indices(tab), StandAt(NextOccupied(Following(cursor)), unseen)
    PROVE  /\ cursor' \in 0 .. tab.n
           /\ unseen' = KeysAfter(tab, cursor')
           /\ cursor' \in Indices(tab) =>
                 /\ cursor' \in StoredIn(tab) /\ cursor' > cursor
                 /\ tab.entry[cursor'].key \in unseen
           /\ cursor' # tab.n => cursor' \in Indices(tab)
<1>1. SoundTable(tab) /\ Ahead /\ cursor \in Nat /\ Following(cursor) \in Nat
    BY DEF MapInv, Indices, Following
<1>2. unseen = KeysAfter(tab, cursor)
    BY <1>1, NoCursorAssumption DEF Ahead
<1>3. ASSUME NEW j \in StoredIn(tab) PROVE j > cursor <=> j >= Following(cursor)
    BY <1>1, OneElement DEF Following
<1>4. unseen = {tab.entry[j].key : j \in {x \in StoredIn(tab) : x >= Following(cursor)}}
    BY <1>2, <1>3 DEF KeysAfter
<1>5. /\ cursor' \in 0 .. tab.n /\ unseen' = KeysAfter(tab, cursor')
      /\ cursor' \in Indices(tab) =>
            /\ cursor' \in StoredIn(tab) /\ cursor' >= Following(cursor)
            /\ tab.entry[cursor'].key \in unseen
      /\ cursor' # tab.n => cursor' \in Indices(tab)
    BY <1>1, <1>4, StandsAhead
<1>6. cursor' \in Indices(tab) => cursor' > cursor
    BY <1>1, <1>5 DEF Indices, Following
<1> QED
    BY <1>5, <1>6

LEMMA AdvanceStep ==
    ASSUME MapInv, Advance
    PROVE  MapInv' /\ (cursor' = tab.n \/ tab.entry[cursor'].key \in unseen)
<1>1. /\ cursor' \in 0 .. tab.n /\ unseen' = KeysAfter(tab, cursor')
      /\ cursor' \in Indices(tab) => cursor' \in StoredIn(tab)
      /\ cursor' = tab.n \/ tab.entry[cursor'].key \in unseen
    BY MovesAhead DEF Advance
<1> QED
    BY <1>1 DEF Advance, MapInv, Ahead, AtElement

LEMMA EraseAtStep ==
    ASSUME MapInv, EraseAt
    PROVE  MapInv' /\ (cursor' = tab.n \/ tab.entry[cursor'].key \in unseen)
<1> DEFINE k == tab.entry[cursor].key
<1>1. /\ SoundTable(tab) /\ IsLoad(maxLoad)
      /\ TakenEntries = {} => Agrees(ElementsOf(tab), map)
      /\ cursor \in Indices(tab) /\ cursor \in StoredIn(tab)
      /\ tab' = EraseIndex(tab, cursor) /\ map' = Without(map, k) /\ maxLoad' = maxLoad
    BY DEF MapInv, AtElement, EraseAt
<1>2. /\ SoundTable(tab') /\ tab'.n = tab.n
      /\ StoredIn(tab') = StoredIn(tab) \ {cursor}
      /\ ElementsOf(tab') = {e \in ElementsOf(tab) : e.key # k}
    BY <1>1, EraseSound
<1>3. TakenEntries = {} => Agrees(ElementsOf(tab'), map')
    BY <1>1, <1>2, AgreesWithout
<1>4. /\ cursor' \in 0 .. tab.n /\ unseen' = KeysAfter(tab, cursor')
      /\ cursor' \in Indices(tab) => cursor' \in StoredIn(tab) /\ cursor' > cursor
      /\ cursor' = tab.n \/ tab.entry[cursor'].key \in unseen
    BY MovesAhead DEF EraseAt
<1>5. k \notin unseen'
    <2>1. \A j \in StoredIn(tab) : tab.entry[j].key = k => j = cursor
        BY <1>1, OneElement
    <2>2. ~(cursor > cursor') /\ cursor # tab.n /\ cursor \in Nat
        BY <1>1, <1>4, SizeFits DEF Indices
    <2> QED
        BY <1>4, <2>1, <2>2 DEF KeysAfter
<1>6. KeysAfter(tab', cursor') = KeysAfter(tab, cursor') \ {k}
    <2>1. cursor' \in Nat
        BY <1>4
    <2> QED
        BY <1>1, <2>1, AheadAfterErase
<1> HIDE DEF k
<1>7. Ahead'
    BY <1>2, <1>4, <1>5, <1>6 DEF Ahead
<1>8. AtElement'
    BY <1>1, <1>2, <1>4 DEF AtElement, Indices
<1> QED
    BY <1>1, <1>2, <1>3, <1>4, <1>7, <1>8 DEF MapInv

LEMMA MapStep ==
    ASSUME ~RehashBelowSize, \A load \in LoadFactors : load[1] <= load[2],
           MapInv, [Next]_vars
    PROVE  MapInv'
<1>1. CASE UNCHANGED vars
    BY <1>1 DEF vars, MapInv, Ahead, AtElement
<1>2. CASE Next
    BY <1>2, InsertStep, AssignStep, EraseStep, ClearStep, ReserveStep, RehashStep,
       SetMaxLoadStep, CopyStep, MoveStep, BeginStep, AdvanceStep, EraseAtStep DEF Next
<1> QED
    BY <1>1, <1>2

-----------------------------------------------------------------------------
(* The results: a program that rehashes to no less than the size, with     *)
(* load factors of at most one.                                            *)

(* The invariant of the table, the map and the iterator holds throughout.  *)
LEMMA MapInvariant ==
    ASSUME ~RehashBelowSize, \A load \in LoadFactors : load[1] <= load[2]
    PROVE  Spec => []MapInv
<1>1. MapInv /\ [Next]_vars => MapInv'
    BY MapStep
<1> QED
    BY <1>1, MapInit, PTL DEF Spec

(* The counts are exact, find() finds what is stored at the one index      *)
(* where it is, and an insertion always gets a slot; a rehash whose old    *)
(* block is taken leaves it so too.                                        *)
THEOREM TableIsSound ==
    ASSUME ~RehashBelowSize, \A load \in LoadFactors : load[1] <= load[2]
    PROVE  Spec => []TableSound
<1>1. MapInv => TableSound
    BY DEF MapInv, SoundTable, TableSound, Stored, StoredIn, ErasedIn
<1> QED
    BY <1>1, MapInvariant, PTL

(* find() shows what a std::unordered_map would after the same calls, as   *)
(* long as no other map takes the block that a rehash still reads.         *)
THEOREM MapAgrees ==
    ASSUME TakenEntries = {},
           ~RehashBelowSize, \A load \in LoadFactors : load[1] <= load[2]
    PROVE  Spec => []AgreesWithMap
<1>1. MapInv => AgreesWithMap
    BY ContentsAgree DEF MapInv, AgreesWithMap
<1> QED
    BY <1>1, MapInvariant, PTL

(* An iteration comes to every element that was there when it began and    *)
(* that was not erased before its turn, to each of them once and to no     *)
(* other one: each step comes to one that is still to be shown, and none   *)
(* is left at the end.                                                     *)
THEOREM IterationIsComplete ==
    ASSUME ~RehashBelowSize, \A load \in LoadFactors : load[1] <= load[2]
    PROVE  Spec => IterationComplete
<1>1. MapInv => (cursor = tab.n => unseen = {})
    <2> SUFFICES ASSUME MapInv, cursor = tab.n, unseen # {} PROVE FALSE
        OBVIOUS
    <2>1. SoundTable(tab) /\ tab.n \in Nat
        BY SizeFits DEF MapInv
    <2>2. PICK j \in StoredIn(tab) : j > cursor
        BY <2>1, NoCursorAssumption DEF MapInv, Ahead, KeysAfter
    <2> QED
        BY <2>1, <2>2, OneElement
<1>2. MapInv /\ [Next]_vars
        => [Advance \/ EraseAt => cursor' = tab.n \/ tab.entry[cursor'].key \in unseen]_vars
    BY AdvanceStep, EraseAtStep
<1> QED
    BY <1>1, <1>2, MapInvariant, PTL DEF Spec, IterationComplete

-----------------------------------------------------------------------------
(* A list and the table that leads to its nodes                            *)

(* The element that leads from the key of the i-th pair of o to the i-th   *)
(* node of q.                                                              *)
LeadsTo(q, o, i) == [key |-> o[i].key, val |-> q[i]]

(* The elements lead from each key of o, which has each once, to its node. *)
Indexes(elements, q, o) ==
    /\ Len(q) = Len(o)
    /\ elements = {LeadsTo(q, o, i) : i \in 1 .. Len(o)}
    /\ \A i, j \in 1 .. Len(o) : o[i].key = o[j].key => i = j

WithoutKey(elements, k) == {e \in elements : e.key # k}

LEMMA IndexesCut ==
    ASSUME NEW S, NEW T, NEW q \in Seq(S), NEW o \in Seq(T), NEW elements, Indexes(elements, q, o),
           NEW i \in 1 .. Len(o)
    PROVE  Indexes(WithoutKey(elements, o[i].key), Cut(q, i - 1), Cut(o, i - 1))
<1> DEFINE n == Len(o)
           q2 == Cut(q, i - 1)
           o2 == Cut(o, i - 1)
           kept == WithoutKey(elements, o[i].key)
<1>1. n \in Nat /\ Len(q) = n /\ i - 1 \in 0 .. n - 1 /\ i \in Nat /\ i <= n /\ i >= 1 /\ (i - 1) + 1 = i
    BY DEF Indexes
<1>2. IsCut(q2, q, i - 1, S) /\ IsCut(o2, o, i - 1, T)
    BY <1>1, CutProperties
<1> HIDE DEF q2, o2, kept
<1>2a. \A e : e \in kept <=> e \in elements /\ e.key # o[i].key
    BY DEF kept, WithoutKey
<1>3. Len(q2) = n - 1 /\ Len(o2) = n - 1
    BY <1>1, <1>2 DEF IsCut
<1> DEFINE From(j) == IF j < i THEN j ELSE j + 1
<1>4. ASSUME NEW j \in 1 .. n - 1
      PROVE  From(j) \in 1 .. n /\ From(j) # i /\ q2[j] = q[From(j)] /\ o2[j] = o[From(j)]
    <2>1. CASE j < i
        <3>1. j \in 1 .. i - 1
            BY <1>1, <2>1
        <3> QED
            BY <1>1, <1>2, <2>1, <3>1 DEF IsCut
    <2>2. CASE ~(j < i)
        <3>1. j \in i .. n - 1
            BY <1>1, <2>2
        <3>2. q2[j] = q[j + 1] /\ o2[j] = o[j + 1]
            BY <1>1, <1>2, <3>1 DEF IsCut
        <3> QED
            BY <1>1, <2>2, <3>2
    <2> QED
        BY <2>1, <2>2
<1>5. \A j, k \in 1 .. n - 1 : From(j) = From(k) => j = k
    BY <1>1
<1>6. ASSUME NEW k \in 1 .. n, k # i PROVE \E j \in 1 .. n - 1 : From(j) = k
    <2>1. CASE k < i
        <3>1. k \in 1 .. n - 1 /\ From(k) = k
            BY <1>1, <2>1
        <3> QED
            BY <3>1
    <2>2. CASE k > i
        <3>1. k - 1 \in 1 .. n - 1 /\ From(k - 1) = k
            BY <1>1, <2>2
        <3> QED
            BY <3>1
    <2> QED
        BY <1>1, <1>6, <2>1, <2>2
<1> HIDE DEF From
<1>7. \A j \in 1 .. n - 1 : LeadsTo(q2, o2, j) = LeadsTo(q, o, From(j))
    BY <1>4 DEF LeadsTo
<1>8. \A j \in 1 .. n : LeadsTo(q, o, j).key = o[j].key
    BY DEF LeadsTo
<1>9. elements = {LeadsTo(q, o, j) : j \in 1 .. n} /\ \A j, k \in 1 .. n : o[j].key = o[k].key => j = k
    BY DEF Indexes
<1>10. kept = {LeadsTo(q2, o2, j) : j \in 1 .. n - 1}
    <2>1. ASSUME NEW e \in kept PROVE \E j \in 1 .. n - 1 : e = LeadsTo(q2, o2, j)
        <3>1. PICK k \in 1 .. n : e = LeadsTo(q, o, k)
            BY <1>9, <1>2a
        <3>2. k # i
            BY <1>2a, <1>8, <3>1
        <3> QED
            BY <1>6, <1>7, <3>1, <3>2
    <2>2. ASSUME NEW j \in 1 .. n - 1 PROVE LeadsTo(q2, o2, j) \in kept
        BY <1>4, <1>2a, <1>7, <1>8, <1>9
    <2> QED
        BY <2>1, <2>2
<1>11. ASSUME NEW j \in 1 .. n - 1, NEW k \in 1 .. n - 1, o2[j].key = o2[k].key PROVE j = k
    <2>1. o[From(j)].key = o[From(k)].key /\ From(j) \in 1 .. n /\ From(k) \in 1 .. n
        BY <1>4, <1>11
    <2> QED
        BY <1>5, <1>9, <2>1
<1> QED
    BY <1>3, <1>10, <1>11 DEF Indexes, q2, o2, kept

LEMMA IndexesSplice ==
    ASSUME NEW S, NEW T, NEW q \in Seq(S), NEW o \in Seq(T), NEW elements, Indexes(elements, q, o),
           NEW x \in S, NEW pair \in T, \A i \in 1 .. Len(o) : o[i].key # pair.key,
           NEW b \in 0 .. Len(o)
    PROVE  Indexes(elements \cup {[key |-> pair.key, val |-> x]},
                   Splice(q, b, <<x>>), Splice(o, b, <<pair>>))
<1> DEFINE n == Len(o)
           q2 == Splice(q, b, <<x>>)
           o2 == Splice(o, b, <<pair>>)
           new == [key |-> pair.key, val |-> x]
<1>1. n \in Nat /\ Len(q) = n /\ b \in Nat /\ b <= n /\ Len(<<x>>) = 1 /\ Len(<<pair>>) = 1
      /\ <<x>> \in Seq(S) /\ <<pair>> \in Seq(T) /\ b \in 0 .. Len(q)
    BY DEF Indexes
<1>2. IsSplice(q2, q, b, <<x>>, S) /\ IsSplice(o2, o, b, <<pair>>, T)
    BY <1>1, SpliceProperties
<1> HIDE DEF q2, o2
<1>3. Len(q2) = n + 1 /\ Len(o2) = n + 1 /\ q2[b + 1] = x /\ o2[b + 1] = pair
    <2>1. 1 \in 1 .. 1 /\ <<x>>[1] = x /\ <<pair>>[1] = pair
        OBVIOUS
    <2> QED
        BY <1>1, <1>2, <2>1 DEF IsSplice
<1> DEFINE To(j) == IF j <= b THEN j ELSE j + 1
<1>4. ASSUME NEW j \in 1 .. n
      PROVE  To(j) \in 1 .. n + 1 /\ To(j) # b + 1 /\ q2[To(j)] = q[j] /\ o2[To(j)] = o[j]
    <2>1. CASE j <= b
        <3>1. j \in 1 .. b
            BY <1>1, <2>1
        <3> QED
            BY <1>1, <1>2, <2>1, <3>1 DEF IsSplice
    <2>2. CASE ~(j <= b)
        <3>1. j \in (b + 1) .. n /\ 1 + j = j + 1
            BY <1>1, <2>2
        <3>2. q2[1 + j] = q[j] /\ o2[1 + j] = o[j]
            BY <1>1, <1>2, <3>1 DEF IsSplice
        <3> QED
            BY <1>1, <2>2, <3>1, <3>2
    <2> QED
        BY <2>1, <2>2
<1>5. ASSUME NEW k \in 1 .. n + 1, k # b + 1 PROVE \E j \in 1 .. n : To(j) = k
    <2>1. CASE k <= b
        BY <1>1, <2>1
    <2>2. CASE k > b + 1
        <3>1. k - 1 \in 1 .. n /\ To(k - 1) = k
            BY <1>1, <2>2
        <3> QED
            BY <3>1
    <2> QED
        BY <1>1, <1>5, <2>1, <2>2
<1> HIDE DEF To
<1>6. \A j \in 1 .. n : LeadsTo(q2, o2, To(j)) = LeadsTo(q, o, j)
    BY <1>4 DEF LeadsTo
<1>7. b + 1 \in 1 .. n + 1 /\ LeadsTo(q2, o2, b + 1) = new
    BY <1>1, <1>3 DEF LeadsTo
<1>8. elements = {LeadsTo(q, o, j) : j \in 1 .. n} /\ \A j, k \in 1 .. n : o[j].key = o[k].key => j = k
    BY DEF Indexes
<1> HIDE DEF new
<1>9. elements \cup {new} = {LeadsTo(q2, o2, j) : j \in 1 .. n + 1}
    <2>1. ASSUME NEW e \in elements PROVE \E k \in 1 .. n + 1 : e = LeadsTo(q2, o2, k)
        BY <1>4, <1>6, <1>8
    <2>2. ASSUME NEW k \in 1 .. n + 1 PROVE LeadsTo(q2, o2, k) \in elements \cup {new}
        <3>1. CASE k = b + 1
            BY <1>7, <3>1
        <3>2. CASE k # b + 1
            BY <1>5, <1>6, <1>8, <3>2
        <3> QED
            BY <3>1, <3>2
    <2> QED
        BY <1>7, <2>1, <2>2
<1>10. ASSUME NEW k \in 1 .. n + 1, k # b + 1
       PROVE  \E j \in 1 .. n : To(j) = k /\ o2[k] = o[j]
    BY <1>4, <1>5, <1>10
<1>11. ASSUME NEW k \in 1 .. n + 1, NEW l \in 1 .. n + 1, o2[k].key = o2[l].key PROVE k = l
    <2>1. CASE k = b + 1 /\ l # b + 1
        BY <1>3, <1>10, <1>11, <2>1
    <2>2. CASE l = b + 1 /\ k # b + 1
        BY <1>3, <1>10, <1>11, <2>2
    <2>3. CASE k # b + 1 /\ l # b + 1
        <3>1. PICK i \in 1 .. n : To(i) = k /\ o2[k] = o[i]
            BY <1>10, <2>3
        <3>2. PICK j \in 1 .. n : To(j) = l /\ o2[l] = o[j]
            BY <1>10, <2>3
        <3>3. i = j
            BY <1>8, <1>11, <3>1, <3>2
        <3> QED
            BY <3>1, <3>2, <3>3
    <2> QED
        BY <2>1, <2>2, <2>3
<1> QED
    BY <1>3, <1>9, <1>11 DEF Indexes, q2, o2, new

(* The pair of a key that is there. *)
LEMMA KeyLeads ==
    ASSUME NEW t, SoundTable(t), NEW q, NEW T, NEW o \in Seq(T), Indexes(ElementsOf(t), q, o), NEW k \in Keys
    PROVE  /\ HasKey(t, k) <=> \E i \in 1 .. Len(o) : o[i].key = k
           /\ \A i \in 1 .. Len(o) : o[i].key = k => t.entry[Find(t, k)].val = q[i]
<1>1. ElementsOf(t) = {LeadsTo(q, o, i) : i \in 1 .. Len(o)}
    BY DEF Indexes
<1>2. \A i \in 1 .. Len(o) : LeadsTo(q, o, i).key = o[i].key /\ LeadsTo(q, o, i).val = q[i]
    BY DEF LeadsTo
<1>3. HasKey(t, k) <=> \E i \in 1 .. Len(o) : o[i].key = k
    BY <1>1, <1>2, HasKeyIff
<1>4. ASSUME NEW i \in 1 .. Len(o), o[i].key = k PROVE t.entry[Find(t, k)].val = q[i]
    <2>1. Find(t, k) \in StoredIn(t) /\ t.entry[Find(t, k)].key = k
        BY <1>3, <1>4, HasKeyIff
    <2>2. \A e \in ElementsOf(t) : e.key = k <=> e = t.entry[Find(t, k)]
        BY <2>1, OneElement
    <2>3. LeadsTo(q, o, i) \in ElementsOf(t)
        BY <1>1
    <2> QED
        BY <1>2, <1>4, <2>2, <2>3
<1> QED
    BY <1>3, <1>4

(* As many elements as pairs. *)
LEMMA SizeOfIndex ==
    ASSUME NEW t, SoundTable(t), NEW q, NEW T, NEW o \in Seq(T), Indexes(ElementsOf(t), q, o),
           \A i \in 1 .. Len(o) : o[i].key \in Keys
    PROVE  t.size = Len(o)
<1> DEFINE f == [i \in 1 .. Len(o) |-> Find(t, o[i].key)]
<1>1. ASSUME NEW i \in 1 .. Len(o)
      PROVE  Find(t, o[i].key) \in StoredIn(t) /\ t.entry[Find(t, o[i].key)].key = o[i].key
    BY <1>1, KeyLeads, HasKeyIff
<1>2. f \in [1 .. Len(o) -> StoredIn(t)]
    BY <1>1
<1>3. \A i, j \in 1 .. Len(o) : f[i] = f[j] => i = j
    BY <1>1 DEF Indexes
<1>4. ASSUME NEW j \in StoredIn(t) PROVE \E i \in 1 .. Len(o) : f[i] = j
    <2>1. t.entry[j] \in ElementsOf(t)
        BY DEF ElementsOf
    <2>2. PICK i \in 1 .. Len(o) : t.entry[j] = LeadsTo(q, o, i)
        BY <2>1 DEF Indexes
    <2>3. t.entry[j].key = o[i].key
        BY <2>2 DEF LeadsTo
    <2>4. Find(t, t.entry[j].key) = j
        BY DEF SoundTable
    <2> QED
        BY <2>3, <2>4
<1> HIDE DEF f
<1>5. ExistsBijection(1 .. Len(o), StoredIn(t))
    BY <1>2, <1>3, <1>4, BijectionIs
<1>6. Len(o) \in Nat /\ IsFiniteSet(1 .. Len(o)) /\ Cardinality(1 .. Len(o)) = Len(o)
    BY IntervalSize
<1>7. Cardinality(StoredIn(t)) = Cardinality(1 .. Len(o))
    <2>1. IsFiniteSet(StoredIn(t))
        BY FiniteTable DEF SoundTable
    <2> QED
        BY <1>5, <1>6, <2>1, FS_Bijection
<1> QED
    BY <1>6, <1>7 DEF SoundTable

-----------------------------------------------------------------------------
(* PooledLinkedHashList                                                    *)

CONSTANTS Load, ReadsAs
VARIABLE answer

LinkedHash == INSTANCE PooledLinkedHashList

(* The operators of PooledHashTable and PooledNodes under their names in   *)
(* PooledLinkedHashList.                                                   *)

LEMMA SameFind ==
    ASSUME NEW t, NEW k
    PROVE  LinkedHash!Find(t, k) = Find(t, k) /\ (LinkedHash!HasKey(t, k) <=> HasKey(t, k))
<1>1. LinkedHash!ProbesBefore(t, k) = ProbesBefore(t, k)
    BY DEF LinkedHash!ProbesBefore, ProbesBefore, LinkedHash!StopsAt, StopsAt, LinkedHash!Probe, Probe,
           LinkedHash!Holds, Holds, LinkedHash!Occupied, Occupied, LinkedHash!Empty, Empty, LinkedHash!Erased, Erased,
           LinkedHash!Indices, Indices, LinkedHash!Min, Min
<1>2. LinkedHash!Find(t, k) = Find(t, k)
    BY <1>1 DEF LinkedHash!Find, Find, LinkedHash!Probe, Probe,
           LinkedHash!Holds, Holds, LinkedHash!Occupied, Occupied, LinkedHash!Empty, Empty, LinkedHash!Erased, Erased
<1> QED
    BY <1>2 DEF LinkedHash!HasKey, HasKey

LEMMA SamePut ==
    ASSUME NEW t, NEW k, NEW v
    PROVE  LinkedHash!PutNew(t, k, v) = PutNew(t, k, v)
<1>1. LinkedHash!ProbesBefore(t, k) = ProbesBefore(t, k)
    BY DEF LinkedHash!ProbesBefore, ProbesBefore, LinkedHash!StopsAt, StopsAt, LinkedHash!Probe, Probe,
           LinkedHash!Holds, Holds, LinkedHash!Occupied, Occupied, LinkedHash!Empty, Empty, LinkedHash!Erased, Erased,
           LinkedHash!Indices, Indices, LinkedHash!Min, Min
<1>2. LinkedHash!SlotForInsert(t, k) = SlotForInsert(t, k)
    BY <1>1, SameFind DEF LinkedHash!SlotForInsert, SlotForInsert, LinkedHash!Probe, Probe,
           LinkedHash!Erased, Erased, LinkedHash!Min, Min
<1>3. \A i : LinkedHash!Construct(t, i, k, v) = Construct(t, i, k, v)
    BY DEF LinkedHash!Construct, Construct, LinkedHash!ErasedAfter, ErasedAfter, LinkedHash!Erased, Erased
<1>4. \A e : LinkedHash!Occupied(e) <=> Occupied(e)
    BY DEF LinkedHash!Occupied, Occupied, LinkedHash!Empty, Empty, LinkedHash!Erased, Erased
<1> QED
    BY <1>2, <1>3, <1>4, Zenon DEF LinkedHash!PutNew, PutNew

LEMMA SameBlank ==
    /\ LinkedHash!NoTable = NoTable
    /\ \A n : LinkedHash!Blank(n) = Blank(n)
    /\ \A t : LinkedHash!ClearTable(t) = ClearTable(t)
BY DEF LinkedHash!NoTable, NoTable, LinkedHash!Blank, Blank, LinkedHash!ClearTable, ClearTable,
       LinkedHash!Empty, Empty

LEMMA SameBuckets ==
    ASSUME NEW count
    PROVE  LinkedHash!BucketCount(count) = BucketCount(count)
BY DEF LinkedHash!BucketCount, BucketCount, LinkedHash!Max, Max

LEMMA SameOld ==
    ASSUME NEW t
    PROVE  LinkedHash!OldEntries(t) = OldEntries(t)
BY DEF LinkedHash!OldEntries, OldEntries, LinkedHash!Indices, Indices, LinkedHash!Empty, Empty

LEMMA SameRehash ==
    ASSUME NEW t, NEW count
    PROVE  LinkedHash!Rehash(t, count) = Rehash(t, count)
<1> DEFINE o == OldEntries(t)
           base == [Blank(BucketCount(count)) EXCEPT !.ok = t.ok]
           A == CHOOSE g : g = [i \in -1 .. (t.n - 1) |->
                IF i = -1 THEN base
                ELSE IF LinkedHash!Occupied(o.entry[i])
                     THEN LinkedHash!PutNew(g[i - 1], o.entry[i].key, o.entry[i].val)
                ELSE g[i - 1]]
           B == CHOOSE g : g = [i \in -1 .. (t.n - 1) |->
                IF i = -1 THEN base
                ELSE IF Occupied(o.entry[i])
                     THEN PutNew(g[i - 1], o.entry[i].key, o.entry[i].val)
                ELSE g[i - 1]]
<1>1. LinkedHash!Rehash(t, count) = A[t.n - 1]
    BY SameBlank, SameBuckets, SameOld DEF LinkedHash!Rehash, LinkedHash!ForEach, LinkedHash!LastOld
<1>2. Rehash(t, count) = B[t.n - 1]
    BY DEF Rehash, ForEach, LastOld
<1>3. \A e : LinkedHash!Occupied(e) <=> Occupied(e)
    BY DEF LinkedHash!Occupied, Occupied, LinkedHash!Empty, Empty, LinkedHash!Erased, Erased
<1>4. A = B
    <2> HIDE DEF base, o
    <2> QED
        BY <1>3, SamePut
<1> HIDE DEF A, B
<1> QED
    BY <1>1, <1>2, <1>4

LEMMA SameAssign ==
    ASSUME NEW t, NEW load, NEW k, NEW v
    PROVE  /\ LinkedHash!EnsureCapacity(t, load) = EnsureCapacity(t, load)
           /\ LinkedHash!Assign(t, load, k, v) = Assign(t, load, k, v)
<1>1. LinkedHash!EnsureCapacity(t, load) = EnsureCapacity(t, load)
    BY SameRehash DEF LinkedHash!EnsureCapacity, EnsureCapacity, LinkedHash!TooFull, TooFull
<1>2. LinkedHash!TryEmplace(t, load, k, v) = TryEmplace(t, load, k, v)
    BY <1>1, SamePut DEF LinkedHash!TryEmplace, TryEmplace
<1>3. LinkedHash!Assign(t, load, k, v) = Assign(t, load, k, v)
    BY <1>2, SameFind DEF LinkedHash!Assign, Assign
<1> QED
    BY <1>1, <1>3

LEMMA SameEraseIndex ==
    ASSUME NEW t, NEW i
    PROVE  LinkedHash!EraseIndex(t, i) = EraseIndex(t, i)
BY DEF LinkedHash!EraseIndex, EraseIndex, LinkedHash!Erased, Erased

LEMMA SamePoolOps ==
    ASSUME NEW s, NEW v
    PROVE  /\ LinkedHash!NextSlot(s) = NextSlot(s)
           /\ LinkedHash!HasRoom(s) <=> HasRoom(s)
           /\ LinkedHash!Create(s, v) = Create(s, v)
<1>1. LinkedHash!NextSlot(s) = NextSlot(s)
    BY DEF LinkedHash!NextSlot, NextSlot, LinkedHash!Last, Last
<1>2. LinkedHash!PopFree(s) = PopFree(s)
    BY DEF LinkedHash!PopFree, PopFree, LinkedHash!Front, Front
<1>3. LinkedHash!Create(s, v) = Create(s, v)
    BY <1>1, <1>2, Zenon DEF LinkedHash!Create, Create
<1>4. LinkedHash!HasRoom(s) <=> HasRoom(s)
    BY <1>1 DEF LinkedHash!HasRoom, HasRoom, LinkedHash!Nodes, Nodes
<1> QED
    BY <1>1, <1>3, <1>4

LEMMA SamePush ==
    ASSUME NEW s, NEW l, NEW v
    PROVE  LinkedHash!PushBack(s, l, v) = PushBack(s, l, v) /\ LinkedHash!PushFront(s, l, v) = PushFront(s, l, v)
<1>1. LinkedHash!NextSlot(s) = NextSlot(s) /\ LinkedHash!Create(s, v) = Create(s, v)
    BY SamePoolOps
<1> DEFINE x == NextSlot(s)
           c == Create(s, v)
<1>2. LinkedHash!SetNext(c, s.tail[l], x) = SetNext(c, s.tail[l], x)
    BY DEF LinkedHash!SetNext, SetNext
<1>3. LinkedHash!SetPrev(c, s.head[l], x) = SetPrev(c, s.head[l], x)
    BY DEF LinkedHash!SetPrev, SetPrev
<1> QED
    BY <1>1, <1>2, <1>3, Zenon DEF LinkedHash!PushBack, PushBack, LinkedHash!PushFront, PushFront

LEMMA SameEraseNode ==
    ASSUME NEW s, NEW l, NEW x
    PROVE  LinkedHash!EraseNode(s, l, x) = EraseNode(s, l, x)
BY DEF LinkedHash!EraseNode, LinkedHash!SetNext, LinkedHash!SetPrev, LinkedHash!Recycle,
       EraseNode, SetNext, SetPrev, Recycle

LEMMA SameClear ==
    ASSUME NEW s, NEW l
    PROVE  LinkedHash!ClearList(s, l) = ClearList(s, l)
BY DEF LinkedHash!ClearList, ClearList, LinkedHash!Chain, Chain, LinkedHash!Walk, Walk, LinkedHash!Recycle, Recycle

LEMMA SameNoNodes == LinkedHash!NoNodes = NoNodes
BY DEF LinkedHash!NoNodes, NoNodes, LinkedHash!Nodes, Nodes

-----------------------------------------------------------------------------
Pairs == [key : Keys, val : Values]
NodePairs == Pairs \cup {Null}

(* The nodes of s hold the pairs of o, and the elements lead to them. *)
Leads(elements, s, o) ==
    \E p, sq : /\ LaidOut(s, NodePairs, p, sq) /\ sq[MainList] = o
              /\ Indexes(elements, p[MainList], o)

IndexesList(t, s, o) == SoundTable(t) /\ o \in Seq(Pairs) /\ Leads(ElementsOf(t), s, o)

Lacks(o, k) == \A i \in 1 .. Len(o) : o[i].key # k

LEMMA NodePairFacts ==
    ASSUME Lists # {}
    PROVE  MainList \in Lists /\ Null \notin Nodes /\ Null \in NodePairs
BY NodesAssumption DEF MainList, LinkedHash!MainList, Nodes, NodePairs

(* Another value in a node. *)
LEMMA ValueSet ==
    ASSUME NEW s, NEW V, NEW p, NEW sq, LaidOut(s, V, p, sq), NEW l \in Lists,
           NEW i \in 1 .. Len(p[l]), NEW v \in V
    PROVE  LaidOut([s EXCEPT !.val[p[l][i]] = v], V, p, [sq EXCEPT ![l] = [sq[l] EXCEPT ![i] = v]])
<1> DEFINE x == p[l][i]
           s2 == [s EXCEPT !.val[x] = v]
           o2 == [sq[l] EXCEPT ![i] = v]
           sq2 == [sq EXCEPT ![l] = o2]
<1>1. /\ l \in Rows /\ p[l] \in Seq(Nodes) /\ Len(p[l]) \in Nat /\ sq[l] \in Seq(V)
      /\ Len(sq[l]) = Len(p[l]) /\ s \in NodeRecords(V) /\ Placed(p, s.made)
      /\ sq \in [Lists -> Seq(V)] /\ s.made \in Nat
    BY HeldRow DEF NodeRecords
<1>2. x \in Nodes
    BY <1>1
<1>3. o2 \in Seq(V) /\ Len(o2) = Len(sq[l]) /\ \A j \in 1 .. Len(o2) : o2[j] = IF j = i THEN v ELSE sq[l][j]
    BY <1>1
<1>4. \A m \in Lists : \A j \in 1 .. Len(p[m]) : p[m][j] = x <=> m = l /\ j = i
    <2>1. ASSUME NEW m \in Lists, NEW j \in 1 .. Len(p[m]), p[m][j] = x PROVE m = l /\ j = i
        <3>1. m \in Rows
            BY HeldRow
        <3> QED
            BY <1>1, <2>1, <3>1, OnePlace
    <2> QED
        BY <2>1
<1>5. /\ s2 \in NodeRecords(V)
      /\ s2.val = [s.val EXCEPT ![x] = v]
      /\ s2.free = s.free /\ s2.made = s.made /\ s2.segments = s.segments /\ s2.live = s.live
      /\ s2.prev = s.prev /\ s2.next = s.next
      /\ s2.head = s.head /\ s2.tail = s.tail /\ s2.size = s.size
    BY <1>1, <1>2 DEF NodeRecords
<1>6. s.val \in [Nodes -> V]
    BY <1>1 DEF NodeRecords
<1> HIDE DEF x, s2, o2
<1>7. sq2 \in [Lists -> Seq(V)]
    BY <1>1, <1>3
<1>8. ASSUME NEW m \in Lists PROVE IsList(s2, m, p[m]) /\ Shows(s2, p[m], sq2[m])
    <2>1. IsList(s, m, p[m]) /\ Shows(s, p[m], sq[m]) /\ p[m] \in Seq(Nodes)
        BY ListsInHolds
    <2>2. IsList(s2, m, p[m])
        BY <1>5, <2>1 DEF IsList
    <2>3. CASE m = l
        <3>1. sq2[m] = o2
            BY <1>1, <2>3
        <3>2. \A j \in 1 .. Len(p[m]) : s2.val[p[m][j]] = o2[j]
            BY <1>1, <1>2, <1>3, <1>4, <1>5, <1>6, <2>1, <2>3 DEF Shows
        <3> QED
            BY <1>1, <1>3, <2>2, <2>3, <3>1, <3>2 DEF Shows
    <2>4. CASE m # l
        <3>1. sq2[m] = sq[m]
            BY <1>1, <2>4
        <3>2. \A j \in 1 .. Len(p[m]) : s2.val[p[m][j]] = s.val[p[m][j]]
            BY <1>4, <1>5, <1>6, <2>1, <2>4
        <3> QED
            BY <2>1, <2>2, <3>1, <3>2 DEF Shows
    <2> QED
        BY <2>3, <2>4
<1> HIDE DEF sq2
<1> QED
    BY <1>5, <1>7, <1>8 DEF LaidOut, x, s2, o2, sq2

EndOf(o, toFront) == IF toFront THEN 0 ELSE Len(o)

LEMMA PairPushed ==
    ASSUME Lists # {}, NEW s, NEW p, NEW sq, LaidOut(s, NodePairs, p, sq), HasRoom(s),
           sq[MainList] \in Seq(Pairs), NEW pair \in Pairs, NEW toFront \in BOOLEAN
    PROVE  LET s2 == LinkedHash!PushTo(s, toFront, pair)
               o == sq[MainList]
               b == EndOf(o, toFront)
               x == NextSlot(s)
           IN  /\ x \in Nodes /\ LinkedHash!End(s2, toFront) = x
               /\ LinkedHash!AtEnd(o, toFront, pair) = Splice(o, b, <<pair>>)
               /\ \E p2, sq2 : /\ LaidOut(s2, NodePairs, p2, sq2)
                               /\ sq2[MainList] = Splice(o, b, <<pair>>)
                               /\ p2[MainList] = Splice(p[MainList], b, <<x>>)
<1> DEFINE s2 == LinkedHash!PushTo(s, toFront, pair)
           o == sq[MainList]
           q == p[MainList]
           b == EndOf(o, toFront)
           x == NextSlot(s)
           p2 == Taken(s, p, MainList, b)
           sq2 == [sq EXCEPT ![MainList] = Splice(o, b, <<pair>>)]
<1>1. MainList \in Lists /\ Null \notin Nodes /\ Null \in NodePairs /\ pair \in NodePairs
    BY NodePairFacts DEF NodePairs
<1>2. /\ q \in Seq(Nodes) /\ Len(q) \in Nat /\ Len(o) = Len(q) /\ sq \in [Lists -> Seq(NodePairs)]
      /\ MainList \in Rows /\ Placed(p, s.made) /\ p[FreeRow] = s.free /\ s \in NodeRecords(NodePairs)
    BY <1>1, HeldRow
<1>3. o \in Seq(Pairs)
    OBVIOUS
<1>4. b \in 0 .. Len(q)
    BY <1>2 DEF EndOf
<1>5. x \in Nodes
    BY <1>1, <1>2, <1>4, SlotTaken
<1>6. LinkedHash!AtEnd(o, toFront, pair) = Splice(o, b, <<pair>>)
    BY <1>3, AppendIsSplice, PrependIsSplice DEF LinkedHash!AtEnd, EndOf
<1>7. LaidOut(s2, NodePairs, p2, sq2)
    <2>1. CASE toFront
        <3>1. LaidOut(PushFront(s, MainList, pair), NodePairs, Taken(s, p, MainList, 0),
                      [sq EXCEPT ![MainList] = <<pair>> \o o])
            BY <1>1, PushedFront
        <3>2. <<pair>> \o o = Splice(o, b, <<pair>>) /\ b = 0
            BY <1>3, <2>1, PrependIsSplice DEF EndOf
        <3>3. s2 = PushFront(s, MainList, pair)
            BY <2>1, SamePush DEF LinkedHash!PushTo, MainList, LinkedHash!MainList
        <3> QED
            BY <3>1, <3>2, <3>3
    <2>2. CASE ~toFront
        <3>1. LaidOut(PushBack(s, MainList, pair), NodePairs, Taken(s, p, MainList, Len(q)),
                      [sq EXCEPT ![MainList] = Append(o, pair)])
            BY <1>1, PushedBack
        <3>2. Append(o, pair) = Splice(o, b, <<pair>>) /\ b = Len(q)
            BY <1>2, <1>3, <2>2, AppendIsSplice DEF EndOf
        <3>3. s2 = PushBack(s, MainList, pair)
            BY <2>2, SamePush DEF LinkedHash!PushTo, MainList, LinkedHash!MainList
        <3> QED
            BY <3>1, <3>2, <3>3
    <2> QED
        BY <2>1, <2>2
<1> DEFINE q2 == Splice(q, b, <<x>>)
<1>8. p2[MainList] = q2
    BY <1>2 DEF Taken, Rearranged
<1>9. IsSplice(q2, q, b, <<x>>, Nodes)
    <2>1. <<x>> \in Seq(Nodes)
        BY <1>5
    <2> HIDE DEF x, b, q
    <2> QED
        BY <1>2, <1>4, <2>1, SpliceProperties
<1>10. sq2[MainList] = Splice(o, b, <<pair>>)
    BY <1>1, <1>2
<1> HIDE DEF s2, p2, sq2, q2
<1>11. s2.head[MainList] = At(q2, 1) /\ s2.tail[MainList] = At(q2, Len(q2))
    BY <1>1, <1>7, <1>8, HeldRow
<1>12. Len(q2) = Len(q) + 1 /\ q2[b + 1] = x
    <2>1. 1 \in 1 .. Len(<<x>>) /\ <<x>>[1] = x /\ Len(<<x>>) = 1
        OBVIOUS
    <2> QED
        BY <1>9, <2>1 DEF IsSplice
<1>13. LinkedHash!End(s2, toFront) = x
    <2>1. CASE toFront
        <3>1. b + 1 = 1 /\ 1 \in 1 .. Len(q2)
            BY <1>2, <1>12, <2>1 DEF EndOf
        <3> QED
            BY <1>11, <1>12, <2>1, <3>1 DEF At, LinkedHash!End, MainList, LinkedHash!MainList
    <2>2. CASE ~toFront
        <3>1. b + 1 = Len(q2) /\ Len(q2) \in 1 .. Len(q2)
            BY <1>2, <1>12, <2>2 DEF EndOf
        <3> QED
            BY <1>11, <1>12, <2>2, <3>1 DEF At, LinkedHash!End, MainList, LinkedHash!MainList
    <2> QED
        BY <2>1, <2>2
<1> QED
    BY <1>5, <1>6, <1>7, <1>8, <1>10, <1>13 DEF s2, q2

(* A pair is pushed, and the table leads to its node. *)
LEMMA PairAdded ==
    ASSUME TakenEntries = {}, Lists # {}, NEW load, IsLoad(load), NEW t, SoundTable(t),
           NEW s, HasRoom(s), NEW o \in Seq(Pairs), NEW pair \in Pairs, NEW toFront \in BOOLEAN,
           Leads(WithoutKey(ElementsOf(t), pair.key), s, o), Lacks(o, pair.key)
    PROVE  LET s2 == LinkedHash!PushTo(s, toFront, pair)
           IN  IndexesList(Assign(t, load, pair.key, LinkedHash!End(s2, toFront)), s2,
                           LinkedHash!AtEnd(o, toFront, pair))
<1> DEFINE s2 == LinkedHash!PushTo(s, toFront, pair)
           b == EndOf(o, toFront)
           x == NextSlot(s)
           o2 == Splice(o, b, <<pair>>)
           t2 == Assign(t, load, pair.key, x)
<1>0. PICK p, sq : /\ LaidOut(s, NodePairs, p, sq) /\ sq[MainList] = o
                   /\ Indexes(WithoutKey(ElementsOf(t), pair.key), p[MainList], o)
    BY DEF Leads
<1>1. /\ x \in Nodes /\ LinkedHash!End(s2, toFront) = x
      /\ LinkedHash!AtEnd(o, toFront, pair) = o2
      /\ \E p2, sq2 : /\ LaidOut(s2, NodePairs, p2, sq2)
                      /\ sq2[MainList] = o2
                      /\ p2[MainList] = Splice(p[MainList], b, <<x>>)
    BY <1>0, PairPushed
<1>2. PICK p2, sq2 : /\ LaidOut(s2, NodePairs, p2, sq2)
                     /\ sq2[MainList] = o2
                     /\ p2[MainList] = Splice(p[MainList], b, <<x>>)
    BY <1>1
<1>3. p[MainList] \in Seq(Nodes) /\ pair.key \in Keys
    BY <1>0, NodePairFacts, HeldRow DEF Pairs
<1>4. b \in 0 .. Len(o)
    BY DEF EndOf
<1> DEFINE E == WithoutKey(ElementsOf(t), pair.key)
<1>5. Indexes(E \cup {[key |-> pair.key, val |-> x]}, p2[MainList], o2)
    <2> HIDE DEF E, x, b
    <2>1. Indexes(E, p[MainList], o)
        BY <1>0 DEF E
    <2>2. x \in Nodes
        BY <1>1
    <2>3. Indexes(E \cup {[key |-> pair.key, val |-> x]}, Splice(p[MainList], b, <<x>>), o2)
        BY <1>3, <1>4, <2>1, <2>2, IndexesSplice DEF Lacks
    <2> QED
        BY <1>2, <2>3
<1>6. SoundTable(t2) /\ ElementsOf(t2) = E \cup {[key |-> pair.key, val |-> x]}
    BY <1>3, AssignSound DEF WithoutKey
<1>7. o2 \in Seq(Pairs)
    <2>1. <<pair>> \in Seq(Pairs)
        OBVIOUS
    <2>2. IsSplice(o2, o, b, <<pair>>, Pairs)
        BY <1>4, <2>1, SpliceProperties
    <2> QED
        BY <2>2 DEF IsSplice
<1> HIDE DEF t2, o2, s2, E, x
<1>8. IndexesList(t2, s2, o2)
    BY <1>2, <1>5, <1>6, <1>7 DEF IndexesList, Leads
<1> QED
    BY <1>1, <1>8 DEF t2, s2

(* The node of a pair is erased. *)
LEMMA PairErased ==
    ASSUME Lists # {}, NEW s, NEW p, NEW sq, LaidOut(s, NodePairs, p, sq), NEW elements,
           NEW o \in Seq(Pairs), sq[MainList] = o, Indexes(elements, p[MainList], o),
           NEW i \in 1 .. Len(o)
    PROVE  LET s2 == LinkedHash!EraseNode(s, MainList, p[MainList][i])
               o2 == Cut(o, i - 1)
           IN  /\ HasRoom(s2) /\ o2 \in Seq(Pairs)
               /\ Lacks(o2, o[i].key) /\ Leads(WithoutKey(elements, o[i].key), s2, o2)
<1> DEFINE q == p[MainList]
           x == q[i]
           s2 == EraseNode(s, MainList, x)
           o2 == Cut(o, i - 1)
           q2 == Cut(q, i - 1)
           p2 == Rearranged(p, MainList, q2, FreeRow, Append(s.free, x))
           sq2 == [sq EXCEPT ![MainList] = o2]
<1>1. MainList \in Lists /\ Null \notin Nodes /\ Null \in NodePairs
    BY NodePairFacts
<1>2. /\ q \in Seq(Nodes) /\ Len(q) \in Nat /\ Len(o) = Len(q) /\ sq \in [Lists -> Seq(NodePairs)]
      /\ MainList \in Rows /\ p[FreeRow] = s.free
    BY <1>1, HeldRow
<1>3. i - 1 \in 0 .. Len(q) - 1 /\ (i - 1) + 1 = i /\ i \in 1 .. Len(q)
    BY <1>2
<1>4. LaidOut(EraseNode(s, MainList, q[(i - 1) + 1]), NodePairs,
              Rearranged(p, MainList, Cut(q, i - 1), FreeRow, Append(s.free, q[(i - 1) + 1])),
              [sq EXCEPT ![MainList] = Cut(sq[MainList], i - 1)])
    BY <1>1, <1>3, NodeErased
<1>5. LaidOut(s2, NodePairs, p2, sq2)
    BY <1>3, <1>4
<1>6. p2[MainList] = q2 /\ sq2[MainList] = o2 /\ p2[FreeRow] = Append(s.free, x)
    <2>1. FreeRow \in Rows /\ MainList # FreeRow
        BY <1>1, FreeRowIsNoList DEF Rows
    <2> QED
        BY <1>1, <1>2, <2>1 DEF Rearranged
<1>7. /\ Indexes(WithoutKey(elements, o[i].key), q2, o2)
      /\ Lacks(o2, o[i].key)
    <2>1. Indexes(elements, q, o) /\ o \in Seq(Pairs)
        OBVIOUS
    <2> HIDE DEF q
    <2>2. q \in Seq(Nodes) /\ i \in 1 .. Len(o)
        BY <1>2
    <2>3. Indexes(WithoutKey(elements, o[i].key), Cut(q, i - 1), Cut(o, i - 1))
        BY <2>1, <2>2, IndexesCut
    <2>4. ASSUME NEW j \in 1 .. Len(o2) PROVE o2[j].key # o[i].key
        <3> HIDE DEF o2, q2
        <3>1. LeadsTo(q2, o2, j) \in WithoutKey(elements, o[i].key)
            BY <2>3 DEF Indexes, o2, q2
        <3> QED
            BY <3>1 DEF LeadsTo, WithoutKey
    <2> QED
        BY <2>3, <2>4 DEF Lacks
<1>8. o2 \in Seq(Pairs)
    <2>1. IsCut(o2, o, i - 1, Pairs)
        BY <1>2, <1>3, CutProperties
    <2> QED
        BY <2>1 DEF IsCut
<1>9. HasRoom(s2)
    <2> HIDE DEF s2, p2, sq2
    <2>1. s2.free = Append(s.free, x)
        BY <1>1, <1>5, <1>6, HeldRow
    <2>2. s.free \in Seq(Nodes) /\ x \in Nodes
        BY <1>1, <1>2, <1>3, HeldRow DEF NodeRecords
    <2>3. Append(s.free, x) # << >> /\ Last(Append(s.free, x)) = x
        BY <2>2 DEF Last
    <2> QED
        BY <2>1, <2>2, <2>3 DEF HasRoom, NextSlot
<1>10. LinkedHash!EraseNode(s, MainList, p[MainList][i]) = s2
    BY SameEraseNode
<1> HIDE DEF s2, p2, sq2, o2, q2
<1>11. Leads(WithoutKey(elements, o[i].key), s2, o2)
    BY <1>5, <1>6, <1>7 DEF Leads
<1> QED
    BY <1>7, <1>8, <1>9, <1>10, <1>11 DEF o2

-----------------------------------------------------------------------------
LinkedInv == IndexesList(index, st, order)

(* The pair of a key that is there, and what is left without it. *)
LEMMA PlaceIs ==
    ASSUME SoundTable(index), order \in Seq(Pairs), NEW q, Indexes(ElementsOf(index), q, order),
           NEW k \in Keys, LinkedHash!HasKey(index, k)
    PROVE  \E i \in 1 .. Len(order) :
               /\ order[i].key = k /\ order[i] \in Pairs
               /\ LinkedHash!Others(k) = Cut(order, i - 1)
               /\ LinkedHash!Pair(k, LinkedHash!ValueOf(k)) = order[i]
               /\ LinkedHash!Find(index, k) \in StoredIn(index)
               /\ index.entry[LinkedHash!Find(index, k)].key = k
               /\ index.entry[LinkedHash!Find(index, k)].val = q[i]
<1>1. HasKey(index, k) /\ LinkedHash!Find(index, k) = Find(index, k)
    BY SameFind
<1>2. PICK i \in 1 .. Len(order) : order[i].key = k
    BY <1>1, KeyLeads
<1>3. /\ Find(index, k) \in StoredIn(index) /\ index.entry[Find(index, k)].key = k
      /\ index.entry[Find(index, k)].val = q[i]
    BY <1>1, <1>2, HasKeyIff, KeyLeads
<1>4. \A j \in 1 .. Len(order) : order[j].key = k => j = i
    BY <1>2 DEF Indexes
<1>5. DOMAIN order = 1 .. Len(order) /\ order[i] \in Pairs
    OBVIOUS
<1>6. LinkedHash!PlaceOf(k) = i
    BY <1>2, <1>4, <1>5 DEF LinkedHash!PlaceOf
<1>7. LinkedHash!Others(k) = Cut(order, i - 1)
    <2>1. i - 1 \in Nat /\ (i - 1) + 1 = i
        OBVIOUS
    <2>2. RemoveAt(order, i) = Cut(order, i - 1)
        BY <2>1, RemoveAtIsCut
    <2> QED
        BY <1>6, <2>2 DEF LinkedHash!Others, LinkedHash!RemoveAt, RemoveAt
<1>8. LinkedHash!Pair(k, LinkedHash!ValueOf(k)) = order[i]
    BY <1>2, <1>5, <1>6 DEF LinkedHash!Pair, LinkedHash!ValueOf, Pairs
<1> QED
    BY <1>1, <1>2, <1>3, <1>5, <1>7, <1>8

(* What was moved from an end to the same end. *)
LEMMA MovedNowhere ==
    ASSUME NEW S, NEW o \in Seq(S), NEW i \in 1 .. Len(o), NEW toFront \in BOOLEAN,
           i = IF toFront THEN 1 ELSE Len(o)
    PROVE  LinkedHash!AtEnd(Cut(o, i - 1), toFront, o[i]) = o
<1> DEFINE c == Cut(o, i - 1)
           x == o[i]
           b == IF toFront THEN 0 ELSE Len(c)
           r == Splice(c, b, <<x>>)
<1>1. x \in S /\ i - 1 \in 0 .. Len(o) - 1 /\ Len(o) \in Nat
    OBVIOUS
<1>2. IsCut(c, o, i - 1, S)
    BY <1>1, CutProperties
<1> HIDE DEF c, x
<1>3. c \in Seq(S) /\ Len(c) = Len(o) - 1 /\ Len(c) \in Nat /\ b \in 0 .. Len(c)
    BY <1>1, <1>2 DEF IsCut
<1>4. <<x>> \in Seq(S) /\ Len(<<x>>) = 1 /\ <<x>>[1] = x
    BY <1>1
<1>5. IsSplice(r, c, b, <<x>>, S)
    <2> HIDE DEF b
    <2> QED
        BY <1>3, <1>4, SpliceProperties
<1>6. LinkedHash!AtEnd(c, toFront, x) = r
    BY <1>1, <1>3, AppendIsSplice, PrependIsSplice DEF LinkedHash!AtEnd
<1> HIDE DEF r
<1>7. r \in Seq(S) /\ Len(r) = Len(o)
    BY <1>3, <1>4, <1>5 DEF IsSplice
<1>8. ASSUME NEW j \in 1 .. Len(o) PROVE r[j] = o[j]
    <2>1. CASE toFront
        <3>1. b = 0 /\ i = 1
            BY <2>1
        <3>2. CASE j = 1
            <4>1. r[0 + 1] = x
                BY <1>4, <1>5, <3>1 DEF IsSplice
            <4> QED
                BY <3>1, <3>2, <4>1 DEF x
        <3>3. CASE j # 1
            <4>1. j - 1 \in 1 .. Len(c) /\ (j - 1) + 1 = j /\ 1 + (j - 1) = j
                BY <1>3, <3>3
            <4>2. r[1 + (j - 1)] = c[j - 1]
                BY <1>4, <1>5, <3>1, <4>1 DEF IsSplice
            <4>3. c[j - 1] = o[(j - 1) + 1]
                BY <1>2, <1>3, <3>1, <4>1 DEF IsCut
            <4> QED
                BY <4>1, <4>2, <4>3
        <3> QED
            BY <3>2, <3>3
    <2>2. CASE ~toFront
        <3>1. b = Len(c) /\ i = Len(o)
            BY <2>2
        <3>2. CASE j = Len(o)
            <4>1. r[Len(c) + 1] = x
                BY <1>4, <1>5, <3>1 DEF IsSplice
            <4> QED
                BY <1>3, <3>1, <3>2, <4>1 DEF x
        <3>3. CASE j # Len(o)
            <4>1. j \in 1 .. Len(c)
                BY <1>3, <3>3
            <4>2. r[j] = c[j] /\ c[j] = o[j]
                BY <1>2, <1>3, <1>5, <3>1, <4>1 DEF IsSplice, IsCut
            <4> QED
                BY <4>2
        <3> QED
            BY <3>2, <3>3
    <2> QED
        BY <2>1, <2>2
<1>9. r = o
    BY <1>7, <1>8
<1> QED
    BY <1>6, <1>9 DEF c, x

LEMMA RelocateStep ==
    ASSUME TakenEntries = {}, Lists # {}, IsLoad(Load), \A k \in Keys : ReadsAs[k] = {k},
           SoundTable(index),
           NEW s, NEW p, NEW sq, LaidOut(s, NodePairs, p, sq), NEW o \in Seq(Pairs), sq[MainList] = o,
           Indexes(ElementsOf(index), p[MainList], o), NEW k \in Keys, NEW i \in 1 .. Len(o), o[i].key = k,
           index.entry[LinkedHash!Find(index, k)].val = p[MainList][i],
           NEW toFront \in BOOLEAN, LinkedHash!Relocate(k, s, toFront)
    PROVE  IndexesList(index', st', LinkedHash!AtEnd(Cut(o, i - 1), toFront, o[i]))
<1> DEFINE q == p[MainList]
           x == q[i]
           nodes == LinkedHash!RelocatedNodes(s, x, toFront)
<1>1. MainList \in Lists /\ MainList = LinkedHash!MainList /\ Null \notin Nodes
    BY NodePairFacts DEF MainList, LinkedHash!MainList
<1>2. /\ q \in Seq(Nodes) /\ Len(q) \in Nat /\ Len(o) = Len(q)
      /\ s.head[MainList] = At(q, 1) /\ s.tail[MainList] = At(q, Len(q))
      /\ Placed(p, s.made) /\ MainList \in Rows /\ s.made \in Nat
    BY <1>1, HeldRow DEF NodeRecords
<1>3. s.val[x] = o[i] /\ o[i] \in Pairs
    BY <1>1, <1>2, ListsInHolds DEF Shows
<1>4. CASE LinkedHash!AlreadyThere(s, x, toFront)
    <2>1. st' = s /\ index' = index
        BY <1>4 DEF LinkedHash!Relocate
    <2>2. i = IF toFront THEN 1 ELSE Len(o)
        <3>1. 1 \in 1 .. Len(q) /\ Len(q) \in 1 .. Len(q) /\ i \in 1 .. Len(q)
            BY <1>2
        <3>2. q[i] = IF toFront THEN q[1] ELSE q[Len(q)]
            BY <1>1, <1>2, <1>4, <3>1 DEF LinkedHash!AlreadyThere, LinkedHash!End, At
        <3>3. \A j \in 1 .. Len(q) : q[i] = q[j] => i = j
            <4> HIDE DEF q
            <4>1. ASSUME NEW j \in 1 .. Len(q), q[i] = q[j] PROVE i = j
                BY <1>2, <3>1, <4>1, OnePlace DEF q
            <4> QED
                BY <4>1
        <3> QED
            BY <1>2, <3>1, <3>2, <3>3
    <2>3. LinkedHash!AtEnd(Cut(o, i - 1), toFront, o[i]) = o
        BY <2>2, MovedNowhere
    <2>4. Leads(ElementsOf(index), s, o)
        BY DEF Leads
    <2> QED
        BY <2>1, <2>3, <2>4 DEF IndexesList
<1>5. CASE ~LinkedHash!AlreadyThere(s, x, toFront)
    <2> DEFINE s1 == LinkedHash!EraseNode(s, MainList, x)
               o1 == Cut(o, i - 1)
    <2>1. /\ HasRoom(s1) /\ o1 \in Seq(Pairs)
          /\ Lacks(o1, o[i].key) /\ Leads(WithoutKey(ElementsOf(index), o[i].key), s1, o1)
        BY PairErased
    <2>3. nodes = LinkedHash!PushTo(s1, toFront, o[i])
        BY <1>1, <1>3 DEF LinkedHash!RelocatedNodes
    <2>4. st' = nodes /\ \E read \in LinkedHash!KeysRead(k) :
                             index' = LinkedHash!Assign(index, Load, read, LinkedHash!End(nodes, toFront))
        BY <1>5 DEF LinkedHash!Relocate
    <2>5. LinkedHash!KeysRead(k) = {k}
        BY DEF LinkedHash!KeysRead
    <2>6. index' = Assign(index, Load, k, LinkedHash!End(nodes, toFront))
        BY <2>4, <2>5, SameAssign
    <2> HIDE DEF s1, o1, nodes
    <2>7. IndexesList(Assign(index, Load, o[i].key, LinkedHash!End(LinkedHash!PushTo(s1, toFront, o[i]), toFront)),
                      LinkedHash!PushTo(s1, toFront, o[i]), LinkedHash!AtEnd(o1, toFront, o[i]))
        BY <1>3, <2>1, PairAdded
    <2> QED
        BY <2>3, <2>4, <2>6, <2>7 DEF o1
<1> QED
    BY <1>4, <1>5

-----------------------------------------------------------------------------
LEMMA LinkedInit ==
    ASSUME TakenEntries = {}, Lists # {}, LinkedHash!Init
    PROVE  LinkedInv
<1>1. MainList \in Lists /\ Null \in NodePairs
    BY NodePairFacts
<1>2. st = NoNodes /\ index = Rehash(NoTable, MinBuckets) /\ order = << >>
    BY SameNoNodes, SameBlank, SameRehash DEF LinkedHash!Init
<1>3. SoundTable(index) /\ ElementsOf(index) = {}
    BY <1>2, NoTableSound, RehashSound, MinBucketsAssumption
<1>4. order \in Seq(Pairs)
    BY <1>2
<1> DEFINE p == [r \in Rows |-> << >>]
           sq == [l \in Lists |-> << >>]
<1>5. LaidOut(st, NodePairs, p, sq)
    BY <1>1, <1>2, NothingHeld
<1>6. sq[MainList] = order /\ p[MainList] = << >>
    BY <1>1, <1>2 DEF Rows
<1>7. Indexes({}, << >>, << >>)
    BY DEF Indexes
<1> HIDE DEF p, sq
<1>8. Leads(ElementsOf(index), st, order)
    BY <1>2, <1>3, <1>5, <1>6, <1>7 DEF Leads
<1> QED
    BY <1>3, <1>4, <1>8 DEF LinkedInv, IndexesList

LEMMA AppendNewStep ==
    ASSUME TakenEntries = {}, Lists # {}, IsLoad(Load), LinkedInv, NEW k \in Keys, NEW v \in Values,
           NEW toFront \in BOOLEAN, LinkedHash!AppendNew(k, v, toFront)
    PROVE  LinkedInv'
<1> DEFINE pair == LinkedHash!Pair(k, v)
<1>1. SoundTable(index) /\ order \in Seq(Pairs) /\ Leads(ElementsOf(index), st, order)
    BY DEF LinkedInv, IndexesList
<1>2. pair \in Pairs /\ pair.key = k
    BY DEF LinkedHash!Pair, Pairs
<1>3. HasRoom(st) /\ ~HasKey(index, k)
    BY SamePoolOps, SameFind DEF LinkedHash!AppendNew
<1>4. /\ st' = LinkedHash!PushTo(st, toFront, pair)
      /\ index' = Assign(index, Load, k, LinkedHash!End(st', toFront))
      /\ order' = LinkedHash!AtEnd(order, toFront, pair)
    BY SameAssign DEF LinkedHash!AppendNew
<1>5. WithoutKey(ElementsOf(index), k) = ElementsOf(index)
    BY <1>1, <1>3, HasKeyIff DEF WithoutKey
<1>6. Lacks(order, k)
    <2>1. PICK p : Indexes(ElementsOf(index), p[MainList], order)
        BY <1>1 DEF Leads
    <2> QED
        BY <1>1, <1>3, <2>1, KeyLeads DEF Lacks
<1> HIDE DEF pair
<1>7. IndexesList(Assign(index, Load, pair.key, LinkedHash!End(LinkedHash!PushTo(st, toFront, pair), toFront)),
                  LinkedHash!PushTo(st, toFront, pair), LinkedHash!AtEnd(order, toFront, pair))
    BY <1>1, <1>2, <1>3, <1>5, <1>6, PairAdded
<1> QED
    BY <1>2, <1>4, <1>7 DEF LinkedInv

LEMMA RelocateNodeStep ==
    ASSUME TakenEntries = {}, Lists # {}, IsLoad(Load), \A k \in Keys : ReadsAs[k] = {k},
           LinkedInv,
           NEW k \in Keys, NEW toFront \in BOOLEAN, LinkedHash!RelocateNode(k, toFront)
    PROVE  LinkedInv'
<1>1. SoundTable(index) /\ order \in Seq(Pairs) /\ Leads(ElementsOf(index), st, order)
    BY DEF LinkedInv, IndexesList
<1>2. PICK p, sq : /\ LaidOut(st, NodePairs, p, sq) /\ sq[MainList] = order
                   /\ Indexes(ElementsOf(index), p[MainList], order)
    BY <1>1 DEF Leads
<1>3. /\ LinkedHash!HasKey(index, k) /\ LinkedHash!Relocate(k, st, toFront)
      /\ order' = LinkedHash!AtEnd(LinkedHash!Others(k), toFront, LinkedHash!Pair(k, LinkedHash!ValueOf(k)))
    BY DEF LinkedHash!RelocateNode
<1>4. PICK i \in 1 .. Len(order) :
          /\ order[i].key = k
          /\ LinkedHash!Others(k) = Cut(order, i - 1)
          /\ LinkedHash!Pair(k, LinkedHash!ValueOf(k)) = order[i]
          /\ index.entry[LinkedHash!Find(index, k)].val = p[MainList][i]
    BY <1>1, <1>2, <1>3, PlaceIs
<1>5. IndexesList(index', st', LinkedHash!AtEnd(Cut(order, i - 1), toFront, order[i]))
    BY <1>1, <1>2, <1>3, <1>4, RelocateStep
<1> QED
    BY <1>3, <1>4, <1>5 DEF LinkedInv

LEMMA AssignExistingStep ==
    ASSUME TakenEntries = {}, Lists # {}, IsLoad(Load), \A k \in Keys : ReadsAs[k] = {k},
           LinkedInv,
           NEW k \in Keys, NEW v \in Values, NEW toFront \in BOOLEAN,
           LinkedHash!AssignExisting(k, v, toFront)
    PROVE  LinkedInv'
<1>1. SoundTable(index) /\ order \in Seq(Pairs) /\ Leads(ElementsOf(index), st, order)
    BY DEF LinkedInv, IndexesList
<1>2. PICK p, sq : /\ LaidOut(st, NodePairs, p, sq) /\ sq[MainList] = order
                   /\ Indexes(ElementsOf(index), p[MainList], order)
    BY <1>1 DEF Leads
<1> DEFINE pair == LinkedHash!Pair(k, v)
           x == index.entry[LinkedHash!Find(index, k)].val
           s == [st EXCEPT !.val[x].val = v]
<1>3. /\ LinkedHash!HasKey(index, k) /\ LinkedHash!Relocate(k, s, toFront)
      /\ order' = LinkedHash!AtEnd(LinkedHash!Others(k), toFront, pair)
    BY DEF LinkedHash!AssignExisting
<1>4. PICK i \in 1 .. Len(order) :
          /\ order[i].key = k /\ order[i] \in Pairs
          /\ LinkedHash!Others(k) = Cut(order, i - 1)
          /\ x = p[MainList][i]
    BY <1>1, <1>2, <1>3, PlaceIs
<1> DEFINE o == [order EXCEPT ![i] = pair]
<1>5. pair \in Pairs /\ pair.key = k /\ pair = [key |-> k, val |-> v]
    BY DEF LinkedHash!Pair, Pairs
<1>6. MainList \in Lists /\ Len(order) = Len(p[MainList]) /\ x \in Nodes /\ st.val[x] = order[i]
      /\ st \in NodeRecords(NodePairs)
    <2>1. MainList \in Lists
        BY NodePairFacts
    <2>2. /\ p[MainList] \in Seq(Nodes) /\ Len(order) = Len(p[MainList])
          /\ st \in NodeRecords(NodePairs) /\ Shows(st, p[MainList], order)
        BY <1>2, <2>1, HeldRow, ListsInHolds
    <2> QED
        BY <1>4, <2>1, <2>2 DEF Shows
<1>7. s = [st EXCEPT !.val[x] = pair]
    <2>1. [st.val[x] EXCEPT !.val = v] = pair
        BY <1>4, <1>5, <1>6 DEF Pairs
    <2>2. s = [st EXCEPT !.val[x] = [st.val[x] EXCEPT !.val = v]]
        OBVIOUS
    <2> QED
        BY <2>1, <2>2
<1>8. LaidOut(s, NodePairs, p, [sq EXCEPT ![MainList] = o])
    <2>1. i \in 1 .. Len(p[MainList]) /\ pair \in NodePairs
        BY <1>5, <1>6 DEF NodePairs
    <2>2. LaidOut([st EXCEPT !.val[p[MainList][i]] = pair], NodePairs, p,
                  [sq EXCEPT ![MainList] = [sq[MainList] EXCEPT ![i] = pair]])
        <3> HIDE DEF pair
        <3> QED
            BY <1>2, <1>6, <2>1, ValueSet
    <2> QED
        BY <1>2, <1>4, <1>7, <2>2
<1>9. [sq EXCEPT ![MainList] = o][MainList] = o
    BY <1>2, <1>6, HeldRow
<1>10. o \in Seq(Pairs) /\ Len(o) = Len(order) /\ o[i] = pair /\ \A j \in 1 .. Len(o) : o[j].key = order[j].key
    BY <1>1, <1>4, <1>5
<1> HIDE DEF s, o, pair, x
<1>11. Indexes(ElementsOf(index), p[MainList], o)
    <2>1. \A j \in 1 .. Len(o) : LeadsTo(p[MainList], o, j) = LeadsTo(p[MainList], order, j)
        BY <1>10 DEF LeadsTo
    <2>2. {LeadsTo(p[MainList], o, j) : j \in 1 .. Len(o)} = {LeadsTo(p[MainList], order, j) : j \in 1 .. Len(order)}
        BY <1>10, <2>1
    <2> QED
        BY <1>2, <1>10, <2>2 DEF Indexes
<1>12. Cut(o, i - 1) = Cut(order, i - 1)
    <2>1. i - 1 \in 0 .. Len(order) - 1 /\ i - 1 \in 0 .. Len(o) - 1
        BY <1>10
    <2>2. IsCut(Cut(o, i - 1), o, i - 1, Pairs) /\ IsCut(Cut(order, i - 1), order, i - 1, Pairs)
        BY <1>1, <1>10, <2>1, CutProperties
    <2>3. \A j \in 1 .. Len(order) : j # i => o[j] = order[j]
        BY <1>1 DEF o
    <2>4. \A j \in 1 .. Len(order) - 1 : Cut(o, i - 1)[j] = Cut(order, i - 1)[j]
        <3>1. ASSUME NEW j \in 1 .. Len(order) - 1, j < i PROVE Cut(o, i - 1)[j] = Cut(order, i - 1)[j]
            <4>1. j \in 1 .. i - 1 /\ j \in 1 .. Len(order) /\ j # i
                BY <3>1
            <4> QED
                BY <2>2, <2>3, <4>1 DEF IsCut
        <3>2. ASSUME NEW j \in 1 .. Len(order) - 1, ~(j < i) PROVE Cut(o, i - 1)[j] = Cut(order, i - 1)[j]
            <4>1. j \in ((i - 1) + 1) .. Len(order) - 1 /\ j + 1 \in 1 .. Len(order) /\ j + 1 # i
                BY <3>2
            <4> QED
                BY <1>10, <2>2, <2>3, <4>1 DEF IsCut
        <3> QED
            BY <3>1, <3>2
    <2> QED
        BY <1>10, <2>2, <2>4 DEF IsCut
<1>13. IndexesList(index', st', LinkedHash!AtEnd(Cut(o, i - 1), toFront, o[i]))
    <2>1. o[i].key = k /\ i \in 1 .. Len(o)
        BY <1>5, <1>10
    <2>2. index.entry[LinkedHash!Find(index, k)].val = p[MainList][i]
        BY <1>4 DEF x
    <2> DEFINE shown == [sq EXCEPT ![MainList] = o]
    <2>3. LaidOut(s, NodePairs, p, shown) /\ shown[MainList] = o
        BY <1>8, <1>9
    <2> HIDE DEF shown
    <2> QED
        BY <1>1, <1>3, <1>10, <1>11, <2>1, <2>2, <2>3, RelocateStep, SMTT(60)
<1> QED
    BY <1>3, <1>4, <1>10, <1>12, <1>13 DEF LinkedInv

-----------------------------------------------------------------------------
(* Both halves of an erasure. *)
LEMMA ErasedFromBoth ==
    ASSUME Lists # {}, SoundTable(index), NEW p, NEW sq, LaidOut(st, NodePairs, p, sq),
           order \in Seq(Pairs), sq[MainList] = order, Indexes(ElementsOf(index), p[MainList], order),
           NEW i \in 1 .. Len(order), NEW k \in Keys, order[i].key = k,
           index' = EraseIndex(index, Find(index, k)),
           st' = LinkedHash!EraseNode(st, MainList, p[MainList][i]), order' = Cut(order, i - 1)
    PROVE  LinkedInv'
<1>1. Find(index, k) \in StoredIn(index) /\ index.entry[Find(index, k)].key = k
    BY KeyLeads, HasKeyIff
<1>2. SoundTable(index') /\ ElementsOf(index') = WithoutKey(ElementsOf(index), k)
    BY <1>1, EraseSound DEF WithoutKey
<1>3. order' \in Seq(Pairs) /\ Leads(WithoutKey(ElementsOf(index), order[i].key), st', order')
    BY PairErased
<1> QED
    BY <1>2, <1>3 DEF LinkedInv, IndexesList

LEMMA EraseKeyStep ==
    ASSUME Lists # {}, LinkedInv, NEW k \in Keys, LinkedHash!Erase(k)
    PROVE  LinkedInv'
<1>1. SoundTable(index) /\ order \in Seq(Pairs) /\ Leads(ElementsOf(index), st, order)
    BY DEF LinkedInv, IndexesList
<1>2. PICK p, sq : /\ LaidOut(st, NodePairs, p, sq) /\ sq[MainList] = order
                   /\ Indexes(ElementsOf(index), p[MainList], order)
    BY <1>1 DEF Leads
<1>3. /\ LinkedHash!HasKey(index, k) /\ index' = EraseIndex(index, Find(index, k))
      /\ st' = LinkedHash!EraseNode(st, MainList, index.entry[LinkedHash!Find(index, k)].val)
      /\ order' = LinkedHash!Others(k)
    BY SameFind, SameEraseIndex DEF LinkedHash!Erase, MainList, LinkedHash!MainList
<1>4. PICK i \in 1 .. Len(order) :
          /\ order[i].key = k
          /\ LinkedHash!Others(k) = Cut(order, i - 1)
          /\ index.entry[LinkedHash!Find(index, k)].val = p[MainList][i]
    BY <1>1, <1>2, <1>3, PlaceIs
<1> QED
    BY <1>1, <1>2, <1>3, <1>4, ErasedFromBoth

LEMMA PopStep ==
    ASSUME Lists # {}, LinkedInv, NEW fromFront \in BOOLEAN, LinkedHash!Pop(fromFront)
    PROVE  LinkedInv'
<1>1. SoundTable(index) /\ order \in Seq(Pairs) /\ Leads(ElementsOf(index), st, order)
    BY DEF LinkedInv, IndexesList
<1>2. PICK p, sq : /\ LaidOut(st, NodePairs, p, sq) /\ sq[MainList] = order
                   /\ Indexes(ElementsOf(index), p[MainList], order)
    BY <1>1 DEF Leads
<1> DEFINE q == p[MainList]
           i == IF fromFront THEN 1 ELSE Len(order)
           k == order[i].key
<1>3. MainList \in Lists /\ MainList = LinkedHash!MainList
    BY NodePairFacts DEF MainList, LinkedHash!MainList
<1>4. /\ q \in Seq(Nodes) /\ Len(q) \in Nat /\ Len(order) = Len(q) /\ st.size[MainList] = Len(q)
      /\ st.head[MainList] = At(q, 1) /\ st.tail[MainList] = At(q, Len(q)) /\ Shows(st, q, order)
    BY <1>2, <1>3, HeldRow, ListsInHolds
<1>5. Len(order) > 0
    BY <1>3, <1>4 DEF LinkedHash!Pop
<1>6. i \in 1 .. Len(order) /\ k \in Keys
    <2>1. i \in 1 .. Len(order)
        BY <1>5
    <2>2. order[i] \in Pairs
        <3> HIDE DEF i
        <3> QED
            BY <1>1, <2>1
    <2> QED
        BY <2>1, <2>2 DEF Pairs
<1>7. LinkedHash!End(st, fromFront) = q[i]
    BY <1>3, <1>4, <1>5 DEF LinkedHash!End, At
<1>8. LinkedHash!PoppedKey(fromFront) = k
    BY <1>4, <1>6, <1>7 DEF LinkedHash!PoppedKey, Shows
<1>9. /\ index' = EraseIndex(index, Find(index, k))
      /\ st' = LinkedHash!EraseNode(st, MainList, q[i])
    BY <1>3, <1>7, <1>8, SameFind, SameEraseIndex DEF LinkedHash!Pop
<1>10. order' = Cut(order, i - 1)
    <2>1. CASE fromFront
        <3>1. order' = Tail(order)
            BY <2>1 DEF LinkedHash!Pop
        <3>2. Tail(order) = SubSeq(order, 2, Len(order))
            BY <1>1, <1>5
        <3> QED
            BY <1>1, <1>5, <2>1, <3>1, <3>2, TailIsCut
    <2>2. CASE ~fromFront
        <3>1. order' = SubSeq(order, 1, Len(order) - 1)
            BY <2>2 DEF LinkedHash!Pop, LinkedHash!Front
        <3> QED
            BY <1>1, <1>5, <2>2, <3>1, FrontIsCut
    <2> QED
        BY <2>1, <2>2
<1> HIDE DEF i, k
<1>11. order[i].key = k
    BY DEF k
<1> QED
    BY <1>1, <1>2, <1>6, <1>9, <1>10, <1>11, ErasedFromBoth

LEMMA ClearBothStep ==
    ASSUME Lists # {}, LinkedInv, LinkedHash!Clear
    PROVE  LinkedInv'
<1>1. SoundTable(index) /\ order \in Seq(Pairs) /\ Leads(ElementsOf(index), st, order)
    BY DEF LinkedInv, IndexesList
<1>2. PICK p, sq : LaidOut(st, NodePairs, p, sq)
    BY <1>1 DEF Leads
<1>3. MainList \in Lists /\ MainList = LinkedHash!MainList /\ Null \notin Nodes /\ Null \in NodePairs
    BY NodePairFacts DEF MainList, LinkedHash!MainList
<1>4. index' = Blank(index.n) /\ st' = ClearList(st, MainList) /\ order' = << >>
    BY <1>3, SameBlank, SameClear DEF LinkedHash!Clear, ClearTable
<1>5. SoundTable(index') /\ ElementsOf(index') = {}
    <2>1. index.n \in Nat
        BY <1>1 DEF SoundTable, IsTable
    <2> QED
        BY <1>4, <2>1, BlankSound
<1> DEFINE p2 == Rearranged(p, FreeRow, Splice(st.free, Len(st.free), p[MainList]), MainList, << >>)
           sq2 == [sq EXCEPT ![MainList] = << >>]
<1>6. LaidOut(st', NodePairs, p2, sq2)
    BY <1>2, <1>3, <1>4, ListCleared
<1>7. p2[MainList] = << >> /\ sq2[MainList] = order'
    BY <1>2, <1>3, <1>4, HeldRow, FreeRowIsNoList DEF Rearranged, Rows
<1>8. Indexes({}, << >>, << >>)
    BY DEF Indexes
<1> HIDE DEF p2, sq2
<1>9. Leads(ElementsOf(index'), st', order')
    BY <1>4, <1>5, <1>6, <1>7, <1>8 DEF Leads
<1>10. order' \in Seq(Pairs)
    BY <1>4
<1> QED
    BY <1>5, <1>9, <1>10 DEF LinkedInv, IndexesList

LEMMA LinkedStep ==
    ASSUME TakenEntries = {}, Lists # {}, IsLoad(Load), \A k \in Keys : ReadsAs[k] = {k},
           LinkedInv,
           [LinkedHash!Next]_LinkedHash!vars
    PROVE  LinkedInv'
<1>1. CASE UNCHANGED LinkedHash!vars
    BY <1>1 DEF LinkedInv, LinkedHash!vars
<1>2. CASE LinkedHash!Next
    <2>1. ASSUME NEW k \in Keys, NEW v \in Values, NEW toFront \in BOOLEAN,
                 LinkedHash!AppendNew(k, v, toFront)
          PROVE  LinkedInv'
        BY <2>1, AppendNewStep
    <2>2. ASSUME NEW k \in Keys, NEW v \in Values, NEW toFront \in BOOLEAN,
                 LinkedHash!AssignExisting(k, v, toFront)
          PROVE  LinkedInv'
        BY <2>2, AssignExistingStep
    <2>3. ASSUME NEW k \in Keys, NEW toFront \in BOOLEAN, LinkedHash!RelocateNode(k, toFront)
          PROVE  LinkedInv'
        BY <2>3, RelocateNodeStep
    <2>4. ASSUME NEW k \in Keys, LinkedHash!Erase(k) PROVE LinkedInv'
        BY <2>4, EraseKeyStep
    <2>5. ASSUME NEW fromFront \in BOOLEAN, LinkedHash!Pop(fromFront) PROVE LinkedInv'
        BY <2>5, PopStep
    <2>6. CASE LinkedHash!Clear
        BY <2>6, ClearBothStep
    <2> QED
        BY <1>2, <2>1, <2>2, <2>3, <2>4, <2>5, <2>6 DEF LinkedHash!Next
<1> QED
    BY <1>1, <1>2

LEMMA LinkedInvariant ==
    ASSUME TakenEntries = {}, Lists # {}, IsLoad(Load), \A k \in Keys : ReadsAs[k] = {k}
    PROVE  LinkedHash!Spec => []LinkedInv
<1>1. LinkedHash!Init => LinkedInv
    BY LinkedInit
<1>2. LinkedInv /\ [LinkedHash!Next]_LinkedHash!vars => LinkedInv'
    BY LinkedStep
<1> QED
    BY <1>1, <1>2, PTL DEF LinkedHash!Spec

(* insert_or_assign(), emplace(), move_to_front(), touch(), move_to_back(), *)
(* erase(), pop_front(), pop_back() and clear() leave _list and _index,     *)
(* each sound, with the same keys, and _index leads from each key to the    *)
(* node that has it, through rehashes and the reuse of nodes.  A key whose  *)
(* entry a rehash destroyed is taken to read as before, and no other map    *)
(* takes a block that a rehash still reads.                                 *)
THEOREM IndexMatches ==
    ASSUME TakenEntries = {}, Lists # {}, IsLoad(Load), \A k \in Keys : ReadsAs[k] = {k}
    PROVE  LinkedHash!Spec => []IndexMatchesList
<1>1. LinkedInv => IndexMatchesList
    <2> SUFFICES ASSUME LinkedInv PROVE IndexMatchesList
        OBVIOUS
    <2>1. SoundTable(index) /\ order \in Seq(Pairs) /\ Leads(ElementsOf(index), st, order)
        BY DEF LinkedInv, IndexesList
    <2>2. PICK p, sq : /\ LaidOut(st, NodePairs, p, sq) /\ sq[MainList] = order
                       /\ Indexes(ElementsOf(index), p[MainList], order)
        BY <2>1 DEF Leads
    <2>3. MainList \in Lists /\ Null \notin Nodes
        BY NodePairFacts
    <2>4. /\ Len(order) = Len(p[MainList]) /\ Shows(st, p[MainList], order)
          /\ st.size[MainList] = Len(order) /\ Chain(st, MainList) = p[MainList]
        BY <2>2, <2>3, HeldRow, ListsInHolds
    <2>5. WellLinked(st, MainList) /\ EverySlotOnce(st)
        BY <2>2, <2>3, HoldsIsSound
    <2>6. \A i \in 1 .. Len(order) : order[i].key \in Keys
        <3>1. \A i \in 1 .. Len(order) : order[i] \in Pairs
            BY <2>1
        <3> QED
            BY <3>1 DEF Pairs
    <2>7. index.ok /\ index.size = Len(order)
        <3>1. index.size = Len(order)
            BY <2>1, <2>2, <2>6, SizeOfIndex
        <3> QED
            BY <2>1, <3>1 DEF SoundTable
    <2>8. ASSUME NEW i \in 1 .. Len(order)
          PROVE  LET node == Chain(st, MainList)[i]
                 IN  /\ HasKey(index, st.val[node].key)
                     /\ index.entry[Find(index, st.val[node].key)].val = node
        <3> DEFINE node == p[MainList][i]
        <3>1. Chain(st, MainList)[i] = node
            BY <2>4
        <3>2. st.val[node] = order[i]
            BY <2>4 DEF Shows
        <3>3. HasKey(index, order[i].key) /\ index.entry[Find(index, order[i].key)].val = node
            BY <2>1, <2>2, <2>6, KeyLeads
        <3> HIDE DEF node
        <3> QED
            BY <3>1, <3>2, <3>3
    <2> QED
        BY <2>4, <2>5, <2>7, <2>8 DEF IndexMatchesList
<1> QED
    BY <1>1, LinkedInvariant, PTL

(* An iteration over _list meets the keys in the order in which they were   *)
(* inserted and relocated, each with the value it was given last: a cache   *)
(* that pops its last key pops the one used longest ago.                    *)
THEOREM OrderIsKept ==
    ASSUME TakenEntries = {}, Lists # {}, IsLoad(Load), \A k \in Keys : ReadsAs[k] = {k}
    PROVE  LinkedHash!Spec => []KeepsOrder
<1>1. LinkedInv => KeepsOrder
    <2> SUFFICES ASSUME LinkedInv PROVE KeepsOrder
        OBVIOUS
    <2>1. PICK p, sq : LaidOut(st, NodePairs, p, sq) /\ sq[MainList] = order
        BY DEF LinkedInv, IndexesList, Leads
    <2>2. MainList \in Lists /\ Null \notin Nodes
        BY NodePairFacts
    <2>3. Sequence(st, MainList) = order
        BY <2>1, <2>2, HoldsIsSound
    <2> QED
        BY <2>3 DEF KeepsOrder
<1> QED
    BY <1>1, LinkedInvariant, PTL
=============================================================================
