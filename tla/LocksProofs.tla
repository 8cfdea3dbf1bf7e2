----------------------------- MODULE LocksProofs -----------------------------
(***************************************************************************)
(* Proofs about the locks and the semaphore of BHSync.hpp, and about the   *)
(* map of buckets that one of the locks guards, for any set of threads     *)
(* that share them: RWSmartLock by itself, the others in the specification *)
(* MCLocks puts them in.                                                   *)
(***************************************************************************)
EXTENDS MCLocks, FiniteSetTheorems, SequenceTheorems, TLAPS

-----------------------------------------------------------------------------
(* RWSmartLock *)

(* TypeOK without the counter, whose range is a consequence of             *)
(* ReadCountExact: only that says the counter is never taken below zero.   *)
Types ==
    /\ flag \in BOOLEAN
    /\ pc \in [Threads -> Labels]

IInv == Types /\ WritersExclusive /\ ReadCountExact

-----------------------------------------------------------------------------
(* The readers are finitely many, so their number is a natural number.     *)
LEMMA ReadersFinite ==
    /\ IsFiniteSet(Readers)
    /\ Cardinality(Readers) \in Nat
<1>1. IsFiniteSet(Readers)
  BY ThreadsAssumption, FS_Subset DEF Readers
<1>2. QED
  BY <1>1, FS_CardinalityType

(* A thread that starts to read makes one reader more.                     *)
LEMMA ReaderEnters ==
    ASSUME Types, NEW t \in Threads, pc[t] # "reading",
           pc' = [pc EXCEPT ![t] = "reading"]
    PROVE  Cardinality(Readers') = Cardinality(Readers) + 1
<1>1. Readers' = Readers \cup {t} /\ t \notin Readers
  BY DEF Readers, Types
<1>2. QED
  BY <1>1, ReadersFinite, FS_AddElement

(* A thread that stops reading makes one reader fewer.                     *)
LEMMA ReaderLeaves ==
    ASSUME Types, NEW t \in Threads, pc[t] = "reading",
           NEW l \in Labels \ {"reading"}, pc' = [pc EXCEPT ![t] = l]
    PROVE  Cardinality(Readers') = Cardinality(Readers) - 1
<1>1. Readers' = Readers \ {t} /\ t \in Readers
  BY DEF Readers, Types
<1>2. QED
  BY <1>1, ReadersFinite, FS_RemoveElement

(* A thread that moves between two other labels changes no reader.         *)
LEMMA ReadersUnmoved ==
    ASSUME Types, NEW t \in Threads, pc[t] # "reading",
           NEW l \in Labels \ {"reading"}, pc' = [pc EXCEPT ![t] = l]
    PROVE  Readers' = Readers
BY DEF Readers, Types

-----------------------------------------------------------------------------
LEMMA InitOK == Init => IInv
<1> SUFFICES ASSUME Init PROVE IInv
  OBVIOUS
<1>1. flag \in BOOLEAN
  BY Zenon DEF Init
<1>2. pc \in [Threads -> Labels]
  BY DEF Init, Labels
<1>3. WritersExclusive
  BY DEF Init, WritersExclusive, Writers
<1>4. ReadCountExact
  <2>1. Readers = {}
    BY DEF Init, Readers
  <2>2. QED
    BY <2>1, FS_EmptySet DEF Init, ReadCountExact
<1>5. QED
  BY <1>1, <1>2, <1>3, <1>4 DEF IInv, Types

(* Writers enter by raising the flag, which they find down, and leave by   *)
(* lowering it; the counter moves with the readers.                        *)
LEMMA StepOK == IInv /\ [Next]_vars => IInv'
<1> SUFFICES ASSUME IInv, [Next]_vars PROVE IInv'
  OBVIOUS
<1>0. Types /\ WritersExclusive /\ ReadCountExact
  BY DEF IInv
<1>1. CASE UNCHANGED vars
  <2>1. Types' /\ WritersExclusive'
    BY <1>0, <1>1 DEF vars, Types, WritersExclusive, Writers
  <2>2. ReadCountExact'
    <3>1. Readers' = Readers
      BY <1>1 DEF vars, Readers
    <3>2. QED
      BY <3>1, <1>0, <1>1 DEF vars, ReadCountExact
  <2>3. QED
    BY <2>1, <2>2 DEF IInv
<1>2. ASSUME NEW t \in Threads, WriteLock(t) PROVE IInv'
  <2>1. Types' /\ WritersExclusive'
    BY <1>0, <1>2 DEF WriteLock, Move, Types, Labels, WritersExclusive, Writers
  <2>2. Readers' = Readers
    BY <1>0, <1>2, ReadersUnmoved DEF WriteLock, Move, Labels
  <2>3. QED
    BY <1>0, <1>2, <2>1, <2>2 DEF IInv, WriteLock, ReadCountExact
<1>3. ASSUME NEW t \in Threads, RaiseFlag(t) PROVE IInv'
  <2>1. Types' /\ WritersExclusive'
    BY <1>0, <1>3 DEF RaiseFlag, Move, Types, Labels, WritersExclusive, Writers
  <2>2. Readers' = Readers
    BY <1>0, <1>3, ReadersUnmoved DEF RaiseFlag, Move, Labels
  <2>3. QED
    BY <1>0, <1>3, <2>1, <2>2 DEF IInv, RaiseFlag, ReadCountExact
<1>4. ASSUME NEW t \in Threads, SeeNoReader(t) PROVE IInv'
  <2>1. Types' /\ WritersExclusive'
    BY <1>0, <1>4 DEF SeeNoReader, Move, Types, Labels, WritersExclusive, Writers
  <2>2. Readers' = Readers
    BY <1>0, <1>4, ReadersUnmoved DEF SeeNoReader, Move, Labels
  <2>3. QED
    BY <1>0, <1>4, <2>1, <2>2 DEF IInv, SeeNoReader, ReadCountExact
<1>5. ASSUME NEW t \in Threads, WriteUnlock(t) PROVE IInv'
  <2>1. Types' /\ WritersExclusive'
    BY <1>0, <1>5 DEF WriteUnlock, Move, Types, Labels, WritersExclusive, Writers
  <2>2. Readers' = Readers
    BY <1>0, <1>5, ReadersUnmoved DEF WriteUnlock, Move, Labels
  <2>3. QED
    BY <1>0, <1>5, <2>1, <2>2 DEF IInv, WriteUnlock, ReadCountExact
<1>6. ASSUME NEW t \in Threads, ReadLock(t) PROVE IInv'
  <2>1. Types' /\ WritersExclusive'
    BY <1>0, <1>6 DEF ReadLock, Move, Types, Labels, WritersExclusive, Writers
  <2>2. Readers' = Readers
    BY <1>0, <1>6, ReadersUnmoved DEF ReadLock, Move, Labels
  <2>3. QED
    BY <1>0, <1>6, <2>1, <2>2 DEF IInv, ReadLock, ReadCountExact
<1>7. ASSUME NEW t \in Threads, SeeNoWriter(t) PROVE IInv'
  <2>1. Types' /\ WritersExclusive'
    BY <1>0, <1>7 DEF SeeNoWriter, Move, Types, Labels, WritersExclusive, Writers
  <2>2. Readers' = Readers
    BY <1>0, <1>7, ReadersUnmoved DEF SeeNoWriter, Move, Labels
  <2>3. QED
    BY <1>0, <1>7, <2>1, <2>2 DEF IInv, SeeNoWriter, ReadCountExact
<1>8. ASSUME NEW t \in Threads, CountReader(t) PROVE IInv'
  <2>1. Types' /\ WritersExclusive'
    BY <1>0, <1>8 DEF CountReader, Move, Types, Labels, WritersExclusive, Writers
  <2>2. Cardinality(Readers') = Cardinality(Readers) + 1
    BY <1>0, <1>8, ReaderEnters DEF CountReader, Move
  <2>3. QED
    BY <1>0, <1>8, <2>1, <2>2 DEF IInv, CountReader, ReadCountExact
<1>9. ASSUME NEW t \in Threads, ReadUnlock(t) PROVE IInv'
  <2>1. Types' /\ WritersExclusive'
    BY <1>0, <1>9 DEF ReadUnlock, Move, Types, Labels, WritersExclusive, Writers
  <2>2. Cardinality(Readers') = Cardinality(Readers) - 1
    BY <1>0, <1>9, ReaderLeaves DEF ReadUnlock, Move, Labels
  <2>3. QED
    BY <1>0, <1>9, <2>1, <2>2 DEF IInv, ReadUnlock, ReadCountExact
<1>10. QED
  BY <1>1, <1>2, <1>3, <1>4, <1>5, <1>6, <1>7, <1>8, <1>9 DEF Next

LEMMA Invariant == Spec => []IInv
BY InitOK, StepOK, PTL DEF Spec

-----------------------------------------------------------------------------
(* The types hold; that readCount never falls below zero rests on          *)
(* ReadCountExact.                                                         *)
THEOREM TypeCorrect == Spec => []TypeOK
<1>1. IInv => TypeOK
  BY ReadersFinite DEF IInv, Types, ReadCountExact, TypeOK
<1>2. QED
  BY <1>1, Invariant, PTL

(* One writer at a time drains or writes, and the flag tells that it does. *)
THEOREM WritersExclusiveHolds == Spec => []WritersExclusive
<1>1. IInv => WritersExclusive
  BY DEF IInv
<1>2. QED
  BY <1>1, Invariant, PTL

(* readCount is the number of threads between readLock() and readUnlock(). *)
THEOREM ReadCountExactHolds == Spec => []ReadCountExact
<1>1. IInv => ReadCountExact
  BY DEF IInv
<1>2. QED
  BY <1>1, Invariant, PTL

(* Both together: a writer's two loops read a state that never drifts.     *)
THEOREM LockStateExactHolds == Spec => []LockStateExact
<1>1. WritersExclusive /\ ReadCountExact => LockStateExact
  BY DEF LockStateExact
<1>2. QED
  BY <1>1, WritersExclusiveHolds, ReadCountExactHolds, PTL

-----------------------------------------------------------------------------
(* The others *)

(* What a behaviour does to the component it is about, and to the others.  *)
LEMMA Components ==
    AllNext \/ UNCHANGED allVars =>
        /\ [Mutex!Next]_(Mutex!vars)
        /\ [Recursive!Next]_(Recursive!vars)
        /\ [Semaphore!Next]_(Semaphore!vars)
        /\ [Buckets!Next]_(Buckets!vars)
BY DEF AllNext, allVars, mutexVars, recursiveVars, semaphoreVars, bucketVars,
       Mutex!vars, Recursive!vars, Semaphore!vars, Buckets!vars

-----------------------------------------------------------------------------
(* SmartLock                                                               *)

(* A thread that is about to store still sees the counter's value. *)
SeenIsCurrent == \A t \in Sharers : mutexPc[t] = "write" => seen[t] = counter

(* lock() is called by a thread with updates left, and they stay left. *)
UpdatesLeft ==
    \A t \in Sharers : mutexPc[t] \in {"spin", "read", "write"}
                            => updates[t] < MaxUpdates

MutexInv == Mutex!TypeOK /\ Mutex!MutualExclusion /\ SeenIsCurrent /\ UpdatesLeft

LEMMA MutexInit == Mutex!Init => MutexInv
<1> SUFFICES ASSUME Mutex!Init PROVE MutexInv
    OBVIOUS
<1>1. Mutex!TypeOK
    <2>1. mutexFlag \in BOOLEAN
        BY Zenon DEF Mutex!Init
    <2>2. mutexPc \in [Sharers -> {"idle", "spin"} \cup Mutex!Inside]
        BY DEF Mutex!Init
    <2>3. counter \in Nat /\ seen \in [Sharers -> Nat] /\ updates \in [Sharers -> Nat]
        BY DEF Mutex!Init
    <2> QED
        BY <2>1, <2>2, <2>3 DEF Mutex!TypeOK
<1>2. Mutex!MutualExclusion /\ SeenIsCurrent /\ UpdatesLeft
    BY DEF Mutex!Init, Mutex!MutualExclusion, SeenIsCurrent, UpdatesLeft, Mutex!Inside
<1> QED
    BY <1>1, <1>2 DEF MutexInv

LEMMA MutexTypesKept == ASSUME MutexInv, [Mutex!Next]_(Mutex!vars) PROVE Mutex!TypeOK'
<1> USE DEF MutexInv, Mutex!TypeOK, Mutex!Inside, Mutex!GoTo
<1>1. ASSUME NEW t \in Sharers, Mutex!Lock(t) PROVE Mutex!TypeOK'
    BY <1>1 DEF Mutex!Lock
<1>2. ASSUME NEW t \in Sharers, Mutex!Acquire(t) PROVE Mutex!TypeOK'
    BY <1>2 DEF Mutex!Acquire
<1>3. ASSUME NEW t \in Sharers, Mutex!Load(t) PROVE Mutex!TypeOK'
    BY <1>3 DEF Mutex!Load
<1>4. ASSUME NEW t \in Sharers, Mutex!Store(t) PROVE Mutex!TypeOK'
    BY <1>4 DEF Mutex!Store
<1>5. ASSUME NEW t \in Sharers, Mutex!Unlock(t) PROVE Mutex!TypeOK'
    BY <1>5 DEF Mutex!Unlock
<1>6. CASE UNCHANGED Mutex!vars
    BY <1>6 DEF Mutex!vars
<1> QED
    BY <1>1, <1>2, <1>3, <1>4, <1>5, <1>6 DEF Mutex!Next

(* Only the thread inside moves the flag or the counter, and it is alone.  *)
LEMMA MutexStep == MutexInv /\ [Mutex!Next]_(Mutex!vars) => MutexInv'
<1> DEFINE Alone == Mutex!MutualExclusion /\ SeenIsCurrent /\ UpdatesLeft
<1> SUFFICES ASSUME MutexInv, Mutex!TypeOK', [Mutex!Next]_(Mutex!vars) PROVE Alone'
    BY MutexTypesKept DEF MutexInv
<1> USE DEF MutexInv, Mutex!TypeOK, Mutex!MutualExclusion, SeenIsCurrent, UpdatesLeft,
            Mutex!Inside, Mutex!GoTo
<1>1. ASSUME NEW t \in Sharers, Mutex!Lock(t) PROVE Alone'
    BY <1>1 DEF Mutex!Lock
<1>2. ASSUME NEW t \in Sharers, Mutex!Acquire(t) PROVE Alone'
    BY <1>2 DEF Mutex!Acquire
<1>3. ASSUME NEW t \in Sharers, Mutex!Load(t) PROVE Alone'
    BY <1>3 DEF Mutex!Load
<1>4. ASSUME NEW t \in Sharers, Mutex!Store(t) PROVE Alone'
    BY <1>4 DEF Mutex!Store
<1>5. ASSUME NEW t \in Sharers, Mutex!Unlock(t) PROVE Alone'
    BY <1>5 DEF Mutex!Unlock
<1>6. CASE UNCHANGED Mutex!vars
    BY <1>6 DEF Mutex!vars
<1> HIDE DEF Alone
<1> QED
    BY <1>1, <1>2, <1>3, <1>4, <1>5, <1>6 DEF Mutex!Next

LEMMA MutexInvariant == AllSpec => []MutexInv
<1>1. AllInit => MutexInv
    BY MutexInit DEF AllInit
<1>2. [AllNext]_allVars => [Mutex!Next]_(Mutex!vars)
    BY Components
<1> QED
    BY <1>1, <1>2, MutexStep, PTL DEF AllSpec

(* One thread at a time is between lock() and unlock() of a SmartLock, and *)
(* its variables keep their types, for any set of threads.                 *)
THEOREM MutualExclusionHolds == AllSpec => [](Mutex!TypeOK /\ Mutex!MutualExclusion)
<1>1. MutexInv => Mutex!TypeOK /\ Mutex!MutualExclusion
    BY DEF MutexInv
<1> QED
    BY <1>1, MutexInvariant, PTL

(* Every section under a SmartLock is an atomic update, for any set of     *)
(* threads: no update is lost (lock, unlock, and the sections of           *)
(* BHGCDController between them).                                          *)
THEOREM SectionsAreAtomic == AllSpec => ImplementsAtomicUpdates
<1>1. AllInit => Mutex!Atomic!Init
    BY DEF AllInit, Mutex!Init, Mutex!Atomic!Init
<1>2. ASSUME MutexInv, [Mutex!Next]_(Mutex!vars)
      PROVE  [Mutex!Atomic!Next]_(Mutex!Atomic!avars)
    <2> SUFFICES ASSUME ~ UNCHANGED Mutex!Atomic!avars PROVE Mutex!Atomic!Next
        OBVIOUS
    <2>1. PICK t \in Sharers : Mutex!Store(t)
        BY <1>2 DEF Mutex!Next, Mutex!vars, Mutex!Atomic!avars, Mutex!Lock, Mutex!Acquire,
                    Mutex!Load, Mutex!Unlock
    <2>2. updates[t] < MaxUpdates
        BY <1>2, <2>1 DEF Mutex!Store, MutexInv, UpdatesLeft
    <2> QED
        BY <1>2, <2>1, <2>2 DEF Mutex!Store, MutexInv, SeenIsCurrent, Mutex!Atomic!Next,
                                Mutex!Atomic!Update
<1>3. [AllNext]_allVars => [Mutex!Next]_(Mutex!vars)
    BY Components
<1> QED
    BY <1>1, <1>2, <1>3, MutexInvariant, PTL
       DEF AllSpec, ImplementsAtomicUpdates, Mutex!ImplementsAtomicUpdates, Mutex!Atomic!Spec

-----------------------------------------------------------------------------
(* RecursiveSmartLock                                                      *)

(* An owner is outside lock() and unlock(), and at most one thread is      *)
(* between raising and lowering the flag.                                  *)
RecursiveInv ==
    /\ rpc \in [Sharers -> {"out", "spin", "own", "lower"}]
    /\ Recursive!OneHolder
    /\ \A t \in Sharers : owner = t => rpc[t] = "out"

LEMMA RecursiveInit == Recursive!Init => RecursiveInv
BY NoOwnerAssumption DEF Recursive!Init, RecursiveInv, Recursive!OneHolder, Recursive!Holds

LEMMA RecursiveStep == RecursiveInv /\ [Recursive!Next]_(Recursive!vars) => RecursiveInv'
<1> SUFFICES ASSUME RecursiveInv, [Recursive!Next]_(Recursive!vars) PROVE RecursiveInv'
    OBVIOUS
<1> USE NoOwnerAssumption DEF RecursiveInv, Recursive!OneHolder, Recursive!Holds, Recursive!GoTo
<1>1. ASSUME NEW t \in Sharers, Recursive!Lock(t) PROVE RecursiveInv'
    BY <1>1 DEF Recursive!Lock
<1>2. ASSUME NEW t \in Sharers, Recursive!Acquire(t) PROVE RecursiveInv'
    BY <1>2 DEF Recursive!Acquire
<1>3. ASSUME NEW t \in Sharers, Recursive!SetOwner(t) PROVE RecursiveInv'
    BY <1>3 DEF Recursive!SetOwner
<1>4. ASSUME NEW t \in Sharers, Recursive!Unlock(t) PROVE RecursiveInv'
    BY <1>4 DEF Recursive!Unlock
<1>5. ASSUME NEW t \in Sharers, Recursive!LowerFlag(t) PROVE RecursiveInv'
    BY <1>5 DEF Recursive!LowerFlag
<1>6. CASE UNCHANGED Recursive!vars
    BY <1>6 DEF Recursive!vars
<1> QED
    BY <1>1, <1>2, <1>3, <1>4, <1>5, <1>6 DEF Recursive!Next

(* Nobody but its owner lets a RecursiveSmartLock go, however late the     *)
(* other unlock() calls of a nest come (lock, unlock): for any number of   *)
(* threads and any depth of nesting.                                       *)
THEOREM OnlyOwnerReleasesHolds == AllSpec => OnlyOwnerReleases
<1> DEFINE Kept == \A t \in Sharers : owner = t => rflag' /\ (owner' = t \/ rpc'[t] = "lower")
<1>1. RecursiveInv /\ [Recursive!Next]_(Recursive!vars) => [Kept]_(Recursive!vars)
    <2> SUFFICES ASSUME RecursiveInv, Recursive!Next, NEW t \in Sharers, owner = t
                 PROVE  rflag' /\ (owner' = t \/ rpc'[t] = "lower")
        OBVIOUS
    <2> USE DEF RecursiveInv, Recursive!OneHolder, Recursive!Holds, Recursive!GoTo
    <2>1. rflag /\ \A u \in Sharers : rpc[u] \notin {"own", "lower"}
        OBVIOUS
    <2>2. PICK u \in Sharers : \/ Recursive!Lock(u) \/ Recursive!Acquire(u)
                               \/ Recursive!SetOwner(u) \/ Recursive!Unlock(u)
                               \/ Recursive!LowerFlag(u)
        BY DEF Recursive!Next
    <2> QED
        BY <2>1, <2>2 DEF Recursive!Lock, Recursive!Acquire, Recursive!SetOwner,
                          Recursive!Unlock, Recursive!LowerFlag
<1>2. AllInit => RecursiveInv
    BY RecursiveInit DEF AllInit
<1>3. [AllNext]_allVars => [Recursive!Next]_(Recursive!vars)
    BY Components
<1> QED
    BY <1>1, <1>2, <1>3, RecursiveStep, PTL
       DEF AllSpec, OnlyOwnerReleases, Recursive!OnlyOwnerReleases

-----------------------------------------------------------------------------
(* AtomicSemaphore                                                         *)

(* What a thread is about to compare the counter with was positive.        *)
SemaphoreInv ==
    /\ count \in Int /\ acquired \in Int
    /\ spc \in [Sharers -> {"out", "load", "cas"}]
    /\ amount \in [Sharers -> Acquires \cup {0}]
    /\ expected \in [Sharers -> Int]
    /\ \A t \in Sharers : spc[t] # "out" => amount[t] \in Acquires
    /\ \A t \in Sharers : spc[t] = "cas" => expected[t] > 0

LEMMA SemaphoreInit == Semaphore!Init => SemaphoreInv
BY AmountsAssumption DEF Semaphore!Init, SemaphoreInv

LEMMA SemaphoreStep == SemaphoreInv /\ [Semaphore!Next]_(Semaphore!vars) => SemaphoreInv'
<1> SUFFICES ASSUME SemaphoreInv, [Semaphore!Next]_(Semaphore!vars) PROVE SemaphoreInv'
    OBVIOUS
<1> USE AmountsAssumption DEF SemaphoreInv
<1>1. ASSUME NEW t \in Sharers, NEW n \in Releases, Semaphore!Release(t, n) PROVE SemaphoreInv'
    BY <1>1 DEF Semaphore!Release
<1>2. ASSUME NEW t \in Sharers, NEW n \in Acquires, Semaphore!Acquire(t, n) PROVE SemaphoreInv'
    BY <1>2 DEF Semaphore!Acquire
<1>3. ASSUME NEW t \in Sharers, Semaphore!Load(t) PROVE SemaphoreInv'
    BY <1>3 DEF Semaphore!Load
<1>4. ASSUME NEW t \in Sharers, Semaphore!Take(t) PROVE SemaphoreInv'
    BY <1>4 DEF Semaphore!Take
<1>5. ASSUME NEW t \in Sharers, Semaphore!Retry(t) PROVE SemaphoreInv'
    BY <1>5 DEF Semaphore!Retry
<1>6. CASE UNCHANGED Semaphore!vars
    BY <1>6 DEF Semaphore!vars
<1> QED
    BY <1>1, <1>2, <1>3, <1>4, <1>5, <1>6 DEF Semaphore!Next

(* Threads that acquire permits one by one and release any number of them  *)
(* use a counting semaphore: the compare-and-swap that succeeds takes a    *)
(* permit that is there, for any number of threads (acquire, release).     *)
(* With acquire(n) for a larger n it is not so.                            *)
THEOREM SemaphoreCounts ==
    ASSUME Acquires = {1}
    PROVE  AllSpec => ImplementsCountingSemaphore
<1> USE DEF Semaphore!Counting!svars
<1>1. AllInit => SemaphoreInv /\ Semaphore!Counting!Init
    BY SemaphoreInit DEF AllInit, Semaphore!Init, Semaphore!Counting!Init
<1>2. ASSUME SemaphoreInv, [Semaphore!Next]_(Semaphore!vars)
      PROVE  [Semaphore!Counting!Next]_(Semaphore!Counting!svars)
    <2> USE AmountsAssumption DEF SemaphoreInv
    <2>1. ASSUME NEW t \in Sharers, NEW n \in Releases, Semaphore!Release(t, n)
          PROVE  Semaphore!Counting!Release(n)
        BY <2>1 DEF Semaphore!Release, Semaphore!Counting!Release
    <2>2. ASSUME NEW t \in Sharers, NEW n \in Acquires, Semaphore!Acquire(t, n)
          PROVE  UNCHANGED <<count, acquired>>
        BY <2>2 DEF Semaphore!Acquire
    <2>3. ASSUME NEW t \in Sharers, Semaphore!Load(t) \/ Semaphore!Retry(t)
          PROVE  UNCHANGED <<count, acquired>>
        BY <2>3 DEF Semaphore!Load, Semaphore!Retry
    <2>4. ASSUME NEW t \in Sharers, Semaphore!Take(t)
          PROVE  Semaphore!Counting!Acquire(1)
        <3>1. amount[t] = 1 /\ count >= 1
            BY <1>2, <2>4 DEF Semaphore!Take
        <3> QED
            BY <2>4, <3>1 DEF Semaphore!Take, Semaphore!Counting!Acquire
    <2>5. CASE UNCHANGED Semaphore!vars
        BY <2>5 DEF Semaphore!vars
    <2> QED
        BY <1>2, <2>1, <2>2, <2>3, <2>4, <2>5 DEF Semaphore!Next, Semaphore!Counting!Next
<1>3. [AllNext]_allVars => [Semaphore!Next]_(Semaphore!vars)
    BY Components
<1> QED
    BY <1>1, <1>2, <1>3, SemaphoreStep, PTL
       DEF AllSpec, ImplementsCountingSemaphore, Semaphore!ImplementsCountingSemaphore,
           Semaphore!Counting!Spec

-----------------------------------------------------------------------------
(* BucketMap *)

CallSteps == {"none", "find", "found", "insert", "list", "leave", "return"}
Sizes == {Buckets!ChooseBucketSize(r) : r \in Requests}

Calls == [step : CallSteps, request : Requests \cup {0}, bucket : Nat \cup {NoBucket}]

MapTypes ==
    /\ mapFlag \in BOOLEAN
    /\ mapPc \in [Sharers -> Buckets!MapLock!Labels]
    /\ call \in [Sharers -> Calls]
    /\ order \in Seq(Sizes)
    /\ \A s \in DOMAIN buckets : buckets[s] \in Nat

(* Where a thread is in the lock, for each place in bucketForSize(). *)
PcFor(step) ==
    CASE step \in {"none", "return"} -> {"idle"}
      [] step = "find" -> {"rwait", "rinc", "reading"}
      [] step = "found" -> {"reading"}
      [] step = "insert" -> {"idle", "wcas", "drain", "writing"}
      [] OTHER -> {"writing"}

Holds(t) == mapPc[t] \in {"drain", "writing"}

(* The sections of the writers exclude each other. *)
OneWriter ==
    /\ \A t \in Sharers :
           /\ mapPc[t] \in PcFor(call[t].step)
           /\ ~Buckets!At(t, "none") => call[t].request \in Requests
    /\ \A s, t \in Sharers : Holds(s) /\ Holds(t) => s = t
    /\ mapFlag <=> \E t \in Sharers : Holds(t)

Answered(t) ==
    \/ Buckets!At(t, "list") \/ Buckets!At(t, "leave") \/ Buckets!At(t, "return")
    \/ Buckets!At(t, "found") /\ call[t].bucket # NoBucket

(* A thread that has an answer has the bucket of the map. *)
Answers ==
    \A t \in Sharers : Answered(t) =>
        Buckets!SizeFor(t) \in DOMAIN buckets /\ call[t].bucket = buckets[Buckets!SizeFor(t)]

(* No size is in the list twice. *)
EachOnce == \A i, j \in 1 .. Len(order) : order[i] = order[j] => i = j

(* The list lacks the size a writer is about to add, and no other. *)
Listed ==
    /\ EachOnce
    /\ \A t \in Sharers : Buckets!At(t, "list") =>
           /\ Buckets!SizeFor(t) \notin Buckets!SizesListed
           /\ DOMAIN buckets = Buckets!SizesListed \cup {Buckets!SizeFor(t)}
    /\ (\A t \in Sharers : ~Buckets!At(t, "list")) => DOMAIN buckets = Buckets!SizesListed

MapInv == MapTypes /\ OneWriter /\ Answers /\ Listed

-----------------------------------------------------------------------------
LEMMA MapInit == Buckets!Init => MapInv
<1> SUFFICES ASSUME Buckets!Init PROVE MapInv
    OBVIOUS
<1> USE DEF Buckets!Init, Buckets!MapLock!Init, Buckets!NoCall, Buckets!At
<1>1. Buckets!SizesListed = {} /\ DOMAIN buckets = {}
    BY DEF Buckets!SizesListed
<1>2. MapTypes
    <2>1. order \in Seq(Sizes)
        OBVIOUS
    <2>2. \A s \in DOMAIN buckets : buckets[s] \in Nat
        BY <1>1
    <2> QED
        BY <2>1, <2>2 DEF MapTypes, Calls, CallSteps, Buckets!MapLock!Labels
<1>3. OneWriter
    BY DEF OneWriter, PcFor, Holds
<1>4. Answers
    BY DEF Answers, Answered
<1>5. Listed
    BY <1>1 DEF Listed, EachOnce
<1> QED
    BY <1>2, <1>3, <1>4, <1>5 DEF MapInv

LEMMA CallTyped ==
    ASSUME call \in [Sharers -> Calls], NEW t \in Sharers, NEW step \in CallSteps, NEW b \in Nat
    PROVE  /\ [call EXCEPT ![t].step = step] \in [Sharers -> Calls]
           /\ [call EXCEPT ![t].bucket = b, ![t].step = step] \in [Sharers -> Calls]
<1>1. call[t] \in Calls
    OBVIOUS
<1>2. [call[t] EXCEPT !.step = step] \in Calls /\ [call[t] EXCEPT !.bucket = b, !.step = step] \in Calls
    BY <1>1 DEF Calls
<1> QED
    BY <1>2

LEMMA MapTypesKept == ASSUME MapInv, [Buckets!Next]_(Buckets!vars) PROVE MapTypes'
<1> USE DEF MapInv, MapTypes, Calls, Buckets!At, Buckets!GoTo, Buckets!MapLock!Labels, CallSteps
<1>1. ASSUME NEW t \in Sharers, NEW r \in Requests, Buckets!AskFor(t, r) PROVE MapTypes'
    BY <1>1 DEF Buckets!AskFor, Buckets!MapLock!ReadLock, Buckets!MapLock!Move, Buckets!NoCall
<1>2. ASSUME NEW t \in Sharers, Buckets!PassLock(t) PROVE MapTypes'
    BY <1>2 DEF Buckets!PassLock, Buckets!MapLock!SeeNoWriter, Buckets!MapLock!CountReader, Buckets!MapLock!RaiseFlag,
                Buckets!MapLock!SeeNoReader, Buckets!MapLock!Move
<1>3. ASSUME NEW t \in Sharers, Buckets!LookUp(t) PROVE MapTypes'
    BY <1>3 DEF Buckets!LookUp, Buckets!Found
<1>4. ASSUME NEW t \in Sharers, Buckets!LeaveRead(t) PROVE MapTypes'
    <2>1. PICK step \in CallSteps : call' = [call EXCEPT ![t].step = step]
        BY <1>4 DEF Buckets!LeaveRead
    <2>2. call' \in [Sharers -> Calls]
        BY <2>1, CallTyped
    <2>3. mapPc' \in [Sharers -> {"idle", "rwait", "rinc", "reading", "wcas", "drain", "writing"}]
        BY <1>4 DEF Buckets!LeaveRead, Buckets!MapLock!ReadUnlock, Buckets!MapLock!Move
    <2> QED
        BY <1>4, <2>2, <2>3 DEF Buckets!LeaveRead, Buckets!MapLock!ReadUnlock, Buckets!MapLock!Move, Calls
<1>5. ASSUME NEW t \in Sharers, Buckets!StartWrite(t) PROVE MapTypes'
    BY <1>5 DEF Buckets!StartWrite, Buckets!MapLock!WriteLock, Buckets!MapLock!Move
<1>6. ASSUME NEW t \in Sharers, Buckets!Emplace(t) PROVE MapTypes'
    <2>1. \A s \in DOMAIN buckets' : buckets'[s] \in Nat
        BY <1>6 DEF Buckets!Emplace, Buckets!Emplaced
    <2>2. Buckets!SizeFor(t) \in DOMAIN buckets'
        BY <1>6 DEF Buckets!Emplace, Buckets!Emplaced
    <2>3. buckets'[Buckets!SizeFor(t)] \in Nat
        BY <2>1, <2>2
    <2>4. PICK b \in Nat, step \in CallSteps :
              call' = [call EXCEPT ![t].bucket = b, ![t].step = step]
        BY <1>6, <2>3 DEF Buckets!Emplace
    <2>5. call' \in [Sharers -> Calls]
        BY <2>4, CallTyped
    <2> QED
        BY <1>6, <2>1, <2>5 DEF Buckets!Emplace, Calls
<1>7. ASSUME NEW t \in Sharers, Buckets!ListSize(t) PROVE MapTypes'
    <2>1. Buckets!SizeFor(t) \in Sizes
        BY <1>7 DEF Buckets!ListSize, OneWriter, Buckets!SizeFor, Sizes
    <2>2. order' \in Seq(Sizes)
        BY <1>7, <2>1, AppendProperties DEF Buckets!ListSize
    <2> QED
        BY <1>7, <2>2 DEF Buckets!ListSize
<1>8. ASSUME NEW t \in Sharers, Buckets!LeaveWrite(t) PROVE MapTypes'
    BY <1>8 DEF Buckets!LeaveWrite, Buckets!MapLock!WriteUnlock, Buckets!MapLock!Move
<1>9. ASSUME NEW t \in Sharers, Buckets!Return(t) PROVE MapTypes'
    BY <1>9 DEF Buckets!Return, Buckets!NoCall
<1>10. CASE Buckets!Clear
    BY <1>10 DEF Buckets!Clear
<1>11. CASE UNCHANGED Buckets!vars
    BY <1>11 DEF Buckets!vars
<1> QED
    BY <1>1, <1>2, <1>3, <1>4, <1>5, <1>6, <1>7, <1>8, <1>9, <1>10, <1>11 DEF Buckets!Next

LEMMA OneWriterKept == ASSUME MapInv, [Buckets!Next]_(Buckets!vars) PROVE OneWriter'
<1> USE DEF MapInv, MapTypes, OneWriter, Holds, PcFor, Buckets!At, Buckets!GoTo, Buckets!MapLock!Labels, CallSteps
<1>1. ASSUME NEW t \in Sharers, NEW r \in Requests, Buckets!AskFor(t, r) PROVE OneWriter'
    BY <1>1 DEF Buckets!AskFor, Buckets!MapLock!ReadLock, Buckets!MapLock!Move, Buckets!NoCall
<1>2. ASSUME NEW t \in Sharers, Buckets!PassLock(t) PROVE OneWriter'
    <2>1. CASE Buckets!MapLock!SeeNoWriter(t) \/ Buckets!MapLock!CountReader(t)
        BY <1>2, <2>1 DEF Buckets!PassLock, Buckets!MapLock!SeeNoWriter, Buckets!MapLock!CountReader, Buckets!MapLock!Move
    <2>2. CASE Buckets!MapLock!RaiseFlag(t)
        BY <1>2, <2>2 DEF Buckets!PassLock, Buckets!MapLock!RaiseFlag, Buckets!MapLock!Move
    <2>3. CASE Buckets!MapLock!SeeNoReader(t)
        BY <1>2, <2>3 DEF Buckets!PassLock, Buckets!MapLock!SeeNoReader, Buckets!MapLock!Move
    <2> QED
        BY <1>2, <2>1, <2>2, <2>3 DEF Buckets!PassLock
<1>3. ASSUME NEW t \in Sharers, Buckets!LookUp(t) PROVE OneWriter'
    BY <1>3 DEF Buckets!LookUp, Buckets!Found
<1>4. ASSUME NEW t \in Sharers, Buckets!LeaveRead(t) PROVE OneWriter'
    BY <1>4 DEF Buckets!LeaveRead, Buckets!MapLock!ReadUnlock, Buckets!MapLock!Move
<1>5. ASSUME NEW t \in Sharers, Buckets!StartWrite(t) PROVE OneWriter'
    BY <1>5 DEF Buckets!StartWrite, Buckets!MapLock!WriteLock, Buckets!MapLock!Move
<1>6. ASSUME NEW t \in Sharers, Buckets!Emplace(t) PROVE OneWriter'
    BY <1>6 DEF Buckets!Emplace, Buckets!Emplacing
<1>7. ASSUME NEW t \in Sharers, Buckets!ListSize(t) PROVE OneWriter'
    BY <1>7 DEF Buckets!ListSize
<1>8. ASSUME NEW t \in Sharers, Buckets!LeaveWrite(t) PROVE OneWriter'
    BY <1>8 DEF Buckets!LeaveWrite, Buckets!MapLock!WriteUnlock, Buckets!MapLock!Move
<1>9. ASSUME NEW t \in Sharers, Buckets!Return(t) PROVE OneWriter'
    BY <1>9 DEF Buckets!Return, Buckets!NoCall
<1>10. CASE Buckets!Clear
    BY <1>10 DEF Buckets!Clear
<1>11. CASE UNCHANGED Buckets!vars
    BY <1>11 DEF Buckets!vars
<1> QED
    BY <1>1, <1>2, <1>3, <1>4, <1>5, <1>6, <1>7, <1>8, <1>9, <1>10, <1>11 DEF Buckets!Next

LEMMA AnswersKept == ASSUME MapInv, [Buckets!Next]_(Buckets!vars) PROVE Answers'
<1> USE DEF MapInv, MapTypes, OneWriter, Answers, Answered, Buckets!At, Buckets!GoTo, Buckets!SizeFor, PcFor, CallSteps
<1>1. ASSUME NEW t \in Sharers, NEW r \in Requests, Buckets!AskFor(t, r) PROVE Answers'
    BY <1>1 DEF Buckets!AskFor, Buckets!NoCall
<1>2. ASSUME NEW t \in Sharers, Buckets!PassLock(t) PROVE Answers'
    BY <1>2 DEF Buckets!PassLock
<1>3. ASSUME NEW t \in Sharers, Buckets!LookUp(t) PROVE Answers'
    BY <1>3 DEF Buckets!LookUp, Buckets!Found
<1>4. ASSUME NEW t \in Sharers, Buckets!LeaveRead(t) PROVE Answers'
    BY <1>4 DEF Buckets!LeaveRead
<1>5. ASSUME NEW t \in Sharers, Buckets!StartWrite(t) PROVE Answers'
    BY <1>5 DEF Buckets!StartWrite
<1>6. ASSUME NEW t \in Sharers, Buckets!Emplace(t) PROVE Answers'
    <2>1. Buckets!SizeFor(t) \in DOMAIN buckets' /\ call'[t].bucket = buckets'[Buckets!SizeFor(t)]
        BY <1>6 DEF Buckets!Emplace, Buckets!Emplaced
    <2>2. \A s \in DOMAIN buckets : s \in DOMAIN buckets' /\ buckets'[s] = buckets[s]
        BY <1>6 DEF Buckets!Emplace, Buckets!Emplaced
    <2>3. \A u \in Sharers : call'[u].request = call[u].request /\ (u # t => call'[u] = call[u])
        BY <1>6 DEF Buckets!Emplace
    <2> QED
        BY <2>1, <2>2, <2>3
<1>7. ASSUME NEW t \in Sharers, Buckets!ListSize(t) PROVE Answers'
    BY <1>7 DEF Buckets!ListSize
<1>8. ASSUME NEW t \in Sharers, Buckets!LeaveWrite(t) PROVE Answers'
    BY <1>8 DEF Buckets!LeaveWrite
<1>9. ASSUME NEW t \in Sharers, Buckets!Return(t) PROVE Answers'
    BY <1>9 DEF Buckets!Return, Buckets!NoCall
<1>10. CASE Buckets!Clear
    BY <1>10 DEF Buckets!Clear
<1>11. CASE UNCHANGED Buckets!vars
    BY <1>11 DEF Buckets!vars
<1> QED
    BY <1>1, <1>2, <1>3, <1>4, <1>5, <1>6, <1>7, <1>8, <1>9, <1>10, <1>11 DEF Buckets!Next

(* The sizes of a list one longer. *)
LEMMA AppendedSizes ==
    ASSUME NEW S, NEW list \in Seq(S), NEW size \in S
    PROVE  LET longer == Append(list, size)
           IN  {longer[i] : i \in 1 .. Len(longer)} = {list[i] : i \in 1 .. Len(list)} \cup {size}
BY AppendProperties

(* A step that leaves the map, its list and the calls in it alone. *)
LEMMA ListedUntouched ==
    ASSUME Listed, UNCHANGED <<buckets, order>>,
           \A t \in Sharers :
               /\ call'[t].step = "list" <=> call[t].step = "list"
               /\ call[t].step = "list" => call'[t] = call[t]
    PROVE  Listed'
<1>1. Buckets!SizesListed' = Buckets!SizesListed
    BY DEF Buckets!SizesListed
<1>2. EachOnce'
    BY DEF Listed, EachOnce
<1>3. \A t \in Sharers : /\ Buckets!At(t, "list")' <=> Buckets!At(t, "list")
                         /\ Buckets!At(t, "list") => Buckets!SizeFor(t)' = Buckets!SizeFor(t)
    BY DEF Buckets!At, Buckets!SizeFor
<1>4. ASSUME NEW t \in Sharers, Buckets!At(t, "list")'
      PROVE  Buckets!SizeFor(t)' \notin Buckets!SizesListed' /\ DOMAIN buckets' = Buckets!SizesListed' \cup {Buckets!SizeFor(t)'}
    BY <1>1, <1>3, <1>4 DEF Listed
<1>5. (\A t \in Sharers : ~Buckets!At(t, "list")') => DOMAIN buckets' = Buckets!SizesListed'
    BY <1>1, <1>3 DEF Listed
<1> QED
    BY <1>2, <1>4, <1>5 DEF Listed

LEMMA ListedKept == ASSUME MapInv, [Buckets!Next]_(Buckets!vars) PROVE Listed'
<1> USE DEF MapInv, MapTypes, Buckets!At, Buckets!GoTo
<1>1. ASSUME NEW t \in Sharers, NEW r \in Requests, Buckets!AskFor(t, r) PROVE Listed'
    BY <1>1, ListedUntouched DEF Buckets!AskFor, Buckets!NoCall
<1>2. ASSUME NEW t \in Sharers, Buckets!PassLock(t) PROVE Listed'
    BY <1>2, ListedUntouched DEF Buckets!PassLock
<1>3. ASSUME NEW t \in Sharers, Buckets!LookUp(t) PROVE Listed'
    BY <1>3, ListedUntouched DEF Buckets!LookUp
<1>4. ASSUME NEW t \in Sharers, Buckets!LeaveRead(t) PROVE Listed'
    BY <1>4, ListedUntouched DEF Buckets!LeaveRead
<1>5. ASSUME NEW t \in Sharers, Buckets!StartWrite(t) PROVE Listed'
    BY <1>5, ListedUntouched DEF Buckets!StartWrite
<1>6. ASSUME NEW t \in Sharers, Buckets!Emplace(t) PROVE Listed'
    <2>1. \A u \in Sharers : ~Buckets!At(u, "list")
        BY <1>6 DEF Buckets!Emplace, Buckets!Emplacing, OneWriter, Holds, PcFor, CallSteps
    <2>2. DOMAIN buckets = Buckets!SizesListed
        BY <2>1 DEF Listed
    <2>3. Buckets!SizesListed' = Buckets!SizesListed
        BY <1>6 DEF Buckets!Emplace, Buckets!SizesListed
    <2>4. DOMAIN buckets' = Buckets!SizesListed \cup {Buckets!SizeFor(t)}
        BY <1>6, <2>2 DEF Buckets!Emplace, Buckets!Emplaced
    <2>5. /\ call'[t].step = IF Buckets!SizeFor(t) \in Buckets!SizesListed THEN "leave" ELSE "list"
          /\ call'[t].request = call[t].request
          /\ \A u \in Sharers : u # t => call'[u] = call[u]
        BY <1>6, <2>2 DEF Buckets!Emplace
    <2>6. Buckets!SizeFor(t)' = Buckets!SizeFor(t)
        BY <2>5 DEF Buckets!SizeFor
    <2>7. EachOnce'
        BY <1>6 DEF Buckets!Emplace, Listed, EachOnce
    <2>8. ASSUME NEW u \in Sharers, Buckets!At(u, "list")'
          PROVE  Buckets!SizeFor(u)' \notin Buckets!SizesListed' /\ DOMAIN buckets' = Buckets!SizesListed' \cup {Buckets!SizeFor(u)'}
        BY <2>1, <2>3, <2>4, <2>5, <2>6, <2>8
    <2>9. (\A u \in Sharers : ~Buckets!At(u, "list")') => DOMAIN buckets' = Buckets!SizesListed'
        BY <2>3, <2>4, <2>5
    <2> QED
        BY <2>7, <2>8, <2>9 DEF Listed
<1>7. ASSUME NEW t \in Sharers, Buckets!ListSize(t) PROVE Listed'
    <2>1. Buckets!SizeFor(t) \in Sizes
        BY <1>7 DEF Buckets!ListSize, Sizes, OneWriter, Buckets!SizeFor
    <2>2. Buckets!SizesListed' = Buckets!SizesListed \cup {Buckets!SizeFor(t)}
        BY <1>7, <2>1, AppendedSizes DEF Buckets!ListSize, Buckets!SizesListed
    <2>3. Len(order') = Len(order) + 1
        BY <1>7, <2>1, AppendProperties DEF Buckets!ListSize
    <2>4. /\ Buckets!SizeFor(t) \notin Buckets!SizesListed
          /\ DOMAIN buckets' = Buckets!SizesListed \cup {Buckets!SizeFor(t)}
        BY <1>7 DEF Buckets!ListSize, Listed
    <2>5. EachOnce'
        BY <1>7, <2>1, <2>3, <2>4, AppendProperties DEF Buckets!ListSize, Listed, EachOnce, Buckets!SizesListed
    <2>6. \A u \in Sharers : ~Buckets!At(u, "list")'
        BY <1>7 DEF Buckets!ListSize, OneWriter, Holds, PcFor, CallSteps
    <2> QED
        BY <1>7, <2>2, <2>4, <2>5, <2>6 DEF Buckets!ListSize, Listed
<1>8. ASSUME NEW t \in Sharers, Buckets!LeaveWrite(t) PROVE Listed'
    BY <1>8, ListedUntouched DEF Buckets!LeaveWrite
<1>9. ASSUME NEW t \in Sharers, Buckets!Return(t) PROVE Listed'
    BY <1>9, ListedUntouched DEF Buckets!Return, Buckets!NoCall
<1>10. CASE Buckets!Clear
    <2>1. Buckets!SizesListed' = {} /\ DOMAIN buckets' = {} /\ Len(order') = 0
        BY <1>10 DEF Buckets!Clear, Buckets!SizesListed
    <2>2. \A u \in Sharers : ~Buckets!At(u, "list")'
        BY <1>10 DEF Buckets!Clear
    <2>3. EachOnce'
        BY <2>1 DEF EachOnce
    <2> QED
        BY <2>1, <2>2, <2>3 DEF Listed
<1>11. CASE UNCHANGED Buckets!vars
    BY <1>11, ListedUntouched DEF Buckets!vars
<1> QED
    BY <1>1, <1>2, <1>3, <1>4, <1>5, <1>6, <1>7, <1>8, <1>9, <1>10, <1>11 DEF Buckets!Next

(* Whatever the threads that miss a bucket at the same time do, all calls  *)
(* of bucketForSize() for one size get one bucket, with room for them, and *)
(* the list of sizes has each size of the map once: for any number of      *)
(* threads, and all sizes whose power of two a std::size_t holds.          *)
THEOREM BucketsHold ==
    ASSUME Buckets!RequestsFit
    PROVE  AllSpec => []OneBucketPerSize
<1>1. AllInit => MapInv
    BY MapInit DEF AllInit
<1>2. MapInv /\ [Buckets!Next]_(Buckets!vars) => MapInv'
    BY NoBucketAssumption, MapTypesKept, OneWriterKept, AnswersKept, ListedKept DEF MapInv
<1>3. MapInv => OneBucketPerSize
    <2> SUFFICES ASSUME MapInv PROVE Buckets!OneBucketPerSize
        BY DEF OneBucketPerSize
    <2>1. ASSUME NEW t \in Sharers, Buckets!At(t, "return")
          PROVE  /\ Buckets!SizeFor(t) >= call[t].request
                 /\ Buckets!SizeFor(t) \in DOMAIN buckets
                 /\ call[t].bucket = buckets[Buckets!SizeFor(t)]
        BY <2>1 DEF MapInv, OneWriter, Answers, Answered, Buckets!At, Buckets!SizeFor,
                    Buckets!RequestsFit
    <2> QED
        BY <2>1 DEF MapInv, Listed, EachOnce, Buckets!OneBucketPerSize
<1>4. [AllNext]_allVars => [Buckets!Next]_(Buckets!vars)
    BY Components
<1> QED
    BY <1>1, <1>2, <1>3, <1>4, PTL DEF AllSpec
=============================================================================
