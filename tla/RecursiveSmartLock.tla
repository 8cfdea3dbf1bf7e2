------------------------- MODULE RecursiveSmartLock -------------------------
(***************************************************************************)
(* RecursiveSmartLock of BHSync.hpp: SmartLock and the id of its owner.    *)
(* lock() by the owner returns at once and counts nothing, so the first    *)
(* unlock() of a nested pair already lets the lock go.                     *)
(*                                                                         *)
(* owner is a plain field that the other threads read while it is written. *)
(* A reader compares it with its own id, which nobody else ever stores, so *)
(* whichever value it sees it takes the same branch: the read is one step. *)
(***************************************************************************)
EXTENDS Integers, FiniteSets

CONSTANTS Threads,     \* the threads that share the lock
          NoOwner,     \* the value of std::thread::id(), which is no thread's
          MaxDepth     \* nested sections of one thread (a bound)

VARIABLES flag,        \* SpinLockBase::flag
          owner,       \* RecursiveSmartLock::owner
          pc,          \* where each thread is inside lock() and unlock()
          depth        \* depth[t]: sections t has opened and not closed

vars == <<flag, owner, pc, depth>>

TypeOK ==
    /\ flag \in BOOLEAN
    /\ owner \in Threads \cup {NoOwner}
    /\ pc \in [Threads -> {"out", "spin", "own", "lower"}]
    /\ depth \in [Threads -> 0 .. MaxDepth]

Init ==
    /\ flag = FALSE
    /\ owner = NoOwner
    /\ pc = [t \in Threads |-> "out"]
    /\ depth = [t \in Threads |-> 0]

GoTo(t, label) == pc' = [pc EXCEPT ![t] = label]

-----------------------------------------------------------------------------
(* Fault: lock() spins even when the caller is the owner. *)
LockWithoutOwnerCheck(t) ==
    /\ pc[t] = "out"
    /\ depth[t] < MaxDepth
    /\ GoTo(t, "spin")
    /\ UNCHANGED <<flag, owner, depth>>

(* lock(): the owner is in at once, any other thread has to spin. *)
Lock(t) ==
    /\ pc[t] = "out"
    /\ depth[t] < MaxDepth
    /\ \/ /\ owner = t
          /\ depth' = [depth EXCEPT ![t] = @ + 1]
          /\ UNCHANGED pc
       \/ /\ owner # t
          /\ GoTo(t, "spin")
          /\ UNCHANGED depth
    /\ UNCHANGED <<flag, owner>>

(* spinLockLoop() returns. *)
Acquire(t) ==
    /\ pc[t] = "spin"
    /\ ~flag
    /\ flag' = TRUE
    /\ GoTo(t, "own")
    /\ UNCHANGED <<owner, depth>>

(* owner = this_id, and the section begins. *)
SetOwner(t) ==
    /\ pc[t] = "own"
    /\ owner' = t
    /\ depth' = [depth EXCEPT ![t] = @ + 1]
    /\ GoTo(t, "out")
    /\ UNCHANGED flag

(* Fault: unlock() does not ask who calls. *)
UnlockByAnyone(t) ==
    /\ pc[t] = "out"
    /\ depth[t] > 0
    /\ depth' = [depth EXCEPT ![t] = @ - 1]
    /\ owner' = NoOwner
    /\ GoTo(t, "lower")
    /\ UNCHANGED flag

(* unlock(): the owner clears the id, anyone else changes nothing. *)
Unlock(t) ==
    /\ pc[t] = "out"
    /\ depth[t] > 0
    /\ depth' = [depth EXCEPT ![t] = @ - 1]
    /\ \/ /\ owner = t
          /\ owner' = NoOwner
          /\ GoTo(t, "lower")
       \/ /\ owner # t
          /\ UNCHANGED <<owner, pc>>
    /\ UNCHANGED flag

(* SpinLockBase::unlock() *)
LowerFlag(t) ==
    /\ pc[t] = "lower"
    /\ flag' = FALSE
    /\ GoTo(t, "out")
    /\ UNCHANGED <<owner, depth>>

Next == \E t \in Threads :
            Lock(t) \/ Acquire(t) \/ SetOwner(t) \/ Unlock(t) \/ LowerFlag(t)

Spec == Init /\ [][Next]_vars

(* Sections end: their threads call unlock(), and calls run to their end.  *)
Fairness == \A t \in Threads :
                WF_vars(SetOwner(t)) /\ WF_vars(LowerFlag(t)) /\ WF_vars(Unlock(t))

FairSpec == Spec /\ Fairness

-----------------------------------------------------------------------------
(* The flag is up exactly while one thread is entering, owns or is letting *)
(* go, and no two threads are at it (lock, unlock, with and without        *)
(* nesting).                                                               *)
Holds(t) == owner = t \/ pc[t] \in {"own", "lower"}

OneHolder ==
    /\ \A s, t \in Threads : Holds(s) /\ Holds(t) => s = t
    /\ flag <=> \E t \in Threads : Holds(t)

(* "It will not block the thread that triggers the locking mechanism": a   *)
(* thread never spins on a lock it owns.                                   *)
NeverSpinsOnItself == \A t \in Threads : pc[t] = "spin" => owner # t

(* "Only owner can unlock": the late unlock() calls of a nest that has     *)
(* already been let go never take the lock from the thread that owns it    *)
(* by then.                                                                *)
OnlyOwnerReleases ==
    [][\A t \in Threads : owner = t => flag' /\ (owner' = t \/ pc'[t] = "lower")]_vars

(* A lock that is taken is let go, nested or not: an unlock() that does    *)
(* nothing never is the one that had to release.                           *)
FlagFalls == flag ~> ~flag

(* A recursive lock protects a section until its own unlock(), with other  *)
(* sections nested in it or not: two threads never have open sections.     *)
SectionsExclude ==
    \A s, t \in Threads : depth[s] > 0 /\ depth[t] > 0 => s = t
=============================================================================
