------------------------------ MODULE MCLocks ------------------------------
(***************************************************************************)
(* The locks and the semaphore of BHSync.hpp, and the map of buckets that  *)
(* one of the locks guards, for TLC in one run: shared says which of them  *)
(* the threads of this behaviour share, and the others stay as they were   *)
(* constructed.                                                            *)
(* RWSmartLock is extended, for its theorems; the others have variables of *)
(* their own here.                                                         *)
(***************************************************************************)
EXTENDS RWSmartLock, TLC

CONSTANTS Sharers,                             \* the threads of the others
          MaxUpdates,                          \* of SmartLock
          NoOwner, MaxDepth,                   \* of RecursiveSmartLock
          InitialCount, Acquires, Releases, MaxReleased,  \* of AtomicSemaphore
          Requests, MinBlockSize, Word, NoBucket \* of BucketMap

ASSUME MaxUpdatesAssumption == MaxUpdates \in Nat
ASSUME NoOwnerAssumption == NoOwner \notin Sharers
ASSUME AmountsAssumption == InitialCount \in Nat /\ Acquires \cup Releases \subseteq Nat \ {0}
ASSUME NoBucketAssumption == NoBucket \notin Nat

VARIABLES shared,
          mutexFlag, mutexPc, counter, seen, updates,
          rflag, owner, rpc, depth,
          count, spc, amount, expected, released, acquired,
          mapFlag, mapReaders, mapPc, buckets, order, call

Mutex == INSTANCE SmartLock WITH
    Threads <- Sharers, flag <- mutexFlag, pc <- mutexPc
Recursive == INSTANCE RecursiveSmartLock WITH
    Threads <- Sharers, flag <- rflag, pc <- rpc
Semaphore == INSTANCE AtomicSemaphore WITH Threads <- Sharers, pc <- spc
Buckets == INSTANCE BucketMap WITH
    Threads <- Sharers, flag <- mapFlag, readCount <- mapReaders, pc <- mapPc

mutexVars == <<mutexFlag, mutexPc, counter, seen, updates>>
recursiveVars == <<rflag, owner, rpc, depth>>
semaphoreVars == <<count, spc, amount, expected, released, acquired>>
bucketVars == <<mapFlag, mapReaders, mapPc, buckets, order, call>>
allVars == <<shared, vars, mutexVars, recursiveVars, semaphoreVars, bucketVars>>

AllInit ==
    /\ shared \in {"SmartLock", "RWSmartLock", "RecursiveSmartLock", "AtomicSemaphore", "BucketMap"}
    /\ Init /\ Mutex!Init /\ Recursive!Init /\ Semaphore!Init /\ Buckets!Init

AllNext ==
    /\ UNCHANGED shared
    /\ \/ /\ shared = "SmartLock" /\ Mutex!Next
          /\ UNCHANGED <<vars, recursiveVars, semaphoreVars, bucketVars>>
       \/ /\ shared = "RWSmartLock" /\ Next
          /\ UNCHANGED <<mutexVars, recursiveVars, semaphoreVars, bucketVars>>
       \/ /\ shared = "RecursiveSmartLock" /\ Recursive!Next
          /\ UNCHANGED <<vars, mutexVars, semaphoreVars, bucketVars>>
       \/ /\ shared = "AtomicSemaphore" /\ Semaphore!Next
          /\ UNCHANGED <<vars, mutexVars, recursiveVars, bucketVars>>
       \/ /\ shared = "BucketMap" /\ Buckets!Next
          /\ UNCHANGED <<vars, mutexVars, recursiveVars, semaphoreVars>>

AllSpec ==
    /\ AllInit /\ [][AllNext]_allVars
    /\ Fairness /\ Recursive!Fairness /\ Semaphore!Fairness

(* The sections of the threads under a SmartLock take effect as if each    *)
(* were one step, which is what every user of SmartLock relies on.         *)
ImplementsAtomicUpdates == Mutex!ImplementsAtomicUpdates

(* Only the owner of a RecursiveSmartLock lets it go.                      *)
OnlyOwnerReleases == Recursive!OnlyOwnerReleases

(* A RecursiveSmartLock that is taken is let go.                           *)
FlagFalls == Recursive!FlagFalls

(* AtomicSemaphore is a counting semaphore for permits taken one by one.   *)
ImplementsCountingSemaphore == Semaphore!ImplementsCountingSemaphore

(* While there are permits and threads that want them, some acquire() ends. *)
SomebodyAcquires == Semaphore!SomebodyAcquires

(* All calls of BlockMemPool for one size get the same bucket, and one     *)
(* with room for them, whoever misses it at the same time.                 *)
OneBucketPerSize == shared = "BucketMap" => Buckets!OneBucketPerSize

-----------------------------------------------------------------------------
(* What the code does not keep, for a run with these in place of the       *)
(* properties above.                                                       *)

(* Threads in the sections of a RecursiveSmartLock exclude each other.     *)
SectionsExclude == Recursive!SectionsExclude

(* acquire(n) takes no permit that is not there (with an n above one).     *)
NeverOverdrawn == Semaphore!NeverOverdrawn
=============================================================================
