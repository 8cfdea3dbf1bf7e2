-------------------------- MODULE AtomicSemaphore --------------------------
(***************************************************************************)
(* AtomicSemaphore of BHSync.hpp.  acquire(n) loads the counter and, when  *)
(* what it loaded is positive, tries to replace it by that value minus n;  *)
(* release(n) adds n.  The comparison is with zero, not with n.            *)
(*                                                                         *)
(* The back-off of acquire() is left out; a failed attempt, spurious or    *)
(* not, goes back to the load.                                             *)
(***************************************************************************)
EXTENDS Integers

CONSTANTS Threads,       \* the threads that share the semaphore
          InitialCount,  \* the constructor's argument
          Acquires,      \* the values of n that acquire() is given
          Releases,      \* the values of n that release() is given
          MaxReleased    \* total of all releases (a bound)

VARIABLES count,         \* AtomicSemaphore::count
          pc,            \* where each thread is inside acquire()
          amount,        \* amount[t]: the n of the acquire() t is in
          expected,      \* expected[t]: what t loaded
          released,      \* total of all releases so far (history)
          acquired       \* total of all acquires so far (history)

vars == <<count, pc, amount, expected, released, acquired>>

TypeOK ==
    /\ count \in Int
    /\ pc \in [Threads -> {"out", "load", "cas"}]
    /\ amount \in [Threads -> Acquires \cup {0}]
    /\ expected \in [Threads -> Nat]
    /\ released \in Nat
    /\ acquired \in Nat

Init ==
    /\ count = InitialCount
    /\ pc = [t \in Threads |-> "out"]
    /\ amount = [t \in Threads |-> 0]
    /\ expected = [t \in Threads |-> 0]
    /\ released = 0
    /\ acquired = 0

Release(t, n) ==
    /\ pc[t] = "out"
    /\ released + n <= MaxReleased
    /\ count' = count + n
    /\ released' = released + n
    /\ UNCHANGED <<pc, amount, expected, acquired>>

(* A thread calls acquire(n). *)
Acquire(t, n) ==
    /\ pc[t] = "out"
    /\ pc' = [pc EXCEPT ![t] = "load"]
    /\ amount' = [amount EXCEPT ![t] = n]
    /\ UNCHANGED <<count, expected, released, acquired>>

(* The load that finds a positive counter; any other one is a stutter. *)
Load(t) ==
    /\ pc[t] = "load"
    /\ count > 0
    /\ expected' = [expected EXCEPT ![t] = count]
    /\ pc' = [pc EXCEPT ![t] = "cas"]
    /\ UNCHANGED <<count, amount, released, acquired>>

(* Fault: the difference is stored, whatever the counter is by now. *)
StoreStale(t) ==
    /\ pc[t] = "cas"
    /\ count' = expected[t] - amount[t]
    /\ acquired' = acquired + amount[t]
    /\ pc' = [pc EXCEPT ![t] = "out"]
    /\ UNCHANGED <<amount, expected, released>>

(* compare_exchange_weak succeeds and acquire() returns. *)
Take(t) ==
    /\ pc[t] = "cas"
    /\ count = expected[t]
    /\ count' = count - amount[t]
    /\ acquired' = acquired + amount[t]
    /\ pc' = [pc EXCEPT ![t] = "out"]
    /\ UNCHANGED <<amount, expected, released>>

(* Fault: after a failed attempt the thread compares with its old load. *)
RetryWithoutLoad(t) ==
    /\ pc[t] = "cas"
    /\ count # expected[t]
    /\ UNCHANGED vars

(* The counter moved in between and the attempt fails. *)
Retry(t) ==
    /\ pc[t] = "cas"
    /\ count # expected[t]
    /\ pc' = [pc EXCEPT ![t] = "load"]
    /\ UNCHANGED <<count, amount, expected, released, acquired>>

Next == \E t \in Threads :
            \/ \E n \in Releases : Release(t, n)
            \/ \E n \in Acquires : Acquire(t, n)
            \/ Load(t) \/ Take(t) \/ Retry(t)

Spec == Init /\ [][Next]_vars

(* A thread inside acquire() keeps running; nothing makes the semaphore    *)
(* fair to one of them.                                                    *)
Fairness == \A t \in Threads : WF_vars(Load(t) \/ Take(t) \/ Retry(t))

FairSpec == Spec /\ Fairness

-----------------------------------------------------------------------------
(* acquire() and release() are a counting semaphore: permits that are      *)
(* taken were there, and the counter agrees with what was given and taken  *)
(* through every race of loads and compare-and-swaps.                      *)
Counting == INSTANCE CountingSemaphore WITH free <- count

ImplementsCountingSemaphore == Counting!Spec

(* Permits and waiting threads never stand side by side for ever: as long  *)
(* as both are there, some acquire() goes through (the retry loop of       *)
(* acquire() always looks at the counter again).                           *)
SomebodyAcquires ==
    \A k \in 0 .. (InitialCount + MaxReleased) :
        (/\ acquired = k
         /\ count > 0
         /\ \E t \in Threads : pc[t] # "out") ~> acquired > k

(* Nobody acquires resources that are not there ("Release n resources",    *)
(* "Acquire resource"): the counter does not become a debt.                *)
NeverOverdrawn == count >= 0
=============================================================================
