----------------------------- MODULE SmartLock -----------------------------
(***************************************************************************)
(* SmartLock, the spin lock of BHSync.hpp (SpinLockBase and SmartLock),    *)
(* around a read-modify-write of a plain shared counter: the tasks of      *)
(* demo_sync_primitives() increment sharedCounter so, and the memory pool  *)
(* usedCount under a segment's lock.                                       *)
(*                                                                         *)
(* The back-off between two attempts (spin, yield, sleep) and the spurious *)
(* failures of compare_exchange_weak change nothing but time: they are     *)
(* stuttering steps.                                                       *)
(***************************************************************************)
EXTENDS Integers, FiniteSets

CONSTANTS Threads,     \* the threads that share the lock
          MaxUpdates   \* updates one thread makes (a bound)

VARIABLES flag,        \* SpinLockBase::flag
          pc,          \* where each thread is
          counter,     \* the value the lock protects
          seen,        \* seen[t]: the value t read in its critical section
          updates      \* updates[t]: completed critical sections of t

vars == <<flag, pc, counter, seen, updates>>

Inside == {"read", "write", "unlock"}

TypeOK ==
    /\ flag \in BOOLEAN
    /\ pc \in [Threads -> {"idle", "spin"} \cup Inside]
    /\ counter \in Nat
    /\ seen \in [Threads -> Nat]
    /\ updates \in [Threads -> Nat]

Init ==
    /\ flag = FALSE
    /\ pc = [t \in Threads |-> "idle"]
    /\ counter = 0
    /\ seen = [t \in Threads |-> 0]
    /\ updates = [t \in Threads |-> 0]

GoTo(t, label) == pc' = [pc EXCEPT ![t] = label]

(* A thread calls lock() and starts to spin. *)
Lock(t) ==
    /\ pc[t] = "idle"
    /\ updates[t] < MaxUpdates
    /\ GoTo(t, "spin")
    /\ UNCHANGED <<flag, counter, seen, updates>>

(* Fault: the loop stores the flag without looking at what it held. *)
AcquireWithoutCompare(t) ==
    /\ pc[t] = "spin"
    /\ flag' = TRUE
    /\ GoTo(t, "read")
    /\ UNCHANGED <<counter, seen, updates>>

(* The compare_exchange of spinLockLoop that succeeds. *)
Acquire(t) ==
    /\ pc[t] = "spin"
    /\ ~flag
    /\ flag' = TRUE
    /\ GoTo(t, "read")
    /\ UNCHANGED <<counter, seen, updates>>

(* The critical section, ++sharedCounter: a plain load, then a plain store. *)
Load(t) ==
    /\ pc[t] = "read"
    /\ seen' = [seen EXCEPT ![t] = counter]
    /\ GoTo(t, "write")
    /\ UNCHANGED <<flag, counter, updates>>

Store(t) ==
    /\ pc[t] = "write"
    /\ counter' = seen[t] + 1
    /\ updates' = [updates EXCEPT ![t] = @ + 1]
    /\ GoTo(t, "unlock")
    /\ UNCHANGED <<flag, seen>>

(* unlock() stores false, whoever calls it. *)
Unlock(t) ==
    /\ pc[t] = "unlock"
    /\ flag' = FALSE
    /\ GoTo(t, "idle")
    /\ UNCHANGED <<counter, seen, updates>>

Next == \E t \in Threads :
            Lock(t) \/ Acquire(t) \/ Load(t) \/ Store(t) \/ Unlock(t)

Spec == Init /\ [][Next]_vars

-----------------------------------------------------------------------------
(* At most one thread is between lock() and the store of unlock(), and the *)
(* flag is up exactly while there is one (spinLockLoop and unlock).        *)
MutualExclusion ==
    /\ \A s, t \in Threads :
           pc[s] \in Inside /\ pc[t] \in Inside => s = t
    /\ flag <=> \E t \in Threads : pc[t] \in Inside

(* No update is lost: the critical sections of all threads take effect as  *)
(* if each were one step, which is what every user of SmartLock relies on. *)
Atomic == INSTANCE AtomicUpdates

ImplementsAtomicUpdates == Atomic!Spec
=============================================================================
