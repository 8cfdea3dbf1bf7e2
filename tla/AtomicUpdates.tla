--------------------------- MODULE AtomicUpdates ---------------------------
(***************************************************************************)
(* What a lock-protected read-modify-write promises: every update of the   *)
(* protected counter happens at once.  SmartLock implements this module.   *)
(* The specifications of the thread pool and of the block pool take it for *)
(* granted wherever they describe a critical section that cannot block as  *)
(* one step.                                                               *)
(***************************************************************************)
EXTENDS Integers

CONSTANTS Threads,     \* the threads that share the counter
          MaxUpdates   \* updates one thread makes (a bound)

VARIABLES counter,     \* the protected value
          updates      \* updates[t]: how many updates thread t has made

avars == <<counter, updates>>

Init == counter = 0 /\ updates = [t \in Threads |-> 0]

Update(t) ==
    /\ updates[t] < MaxUpdates
    /\ counter' = counter + 1
    /\ updates' = [updates EXCEPT ![t] = @ + 1]

Next == \E t \in Threads : Update(t)

Spec == Init /\ [][Next]_avars
============================================================================
