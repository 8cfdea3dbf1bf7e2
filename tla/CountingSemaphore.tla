------------------------- MODULE CountingSemaphore -------------------------
(***************************************************************************)
(* What a counting semaphore promises: an acquire takes permits that are   *)
(* there, all at once, and no permit is lost or made up.                   *)
(***************************************************************************)
EXTENDS Integers

CONSTANTS InitialCount,   \* permits at the start
          Acquires,       \* how many permits one acquire may take
          Releases        \* how many permits one release may give

VARIABLES free,           \* permits nobody holds
          acquired        \* permits acquired so far

svars == <<free, acquired>>

Init == free = InitialCount /\ acquired = 0

Release(n) ==
    /\ free' = free + n
    /\ UNCHANGED acquired

Acquire(n) ==
    /\ free >= n
    /\ free' = free - n
    /\ acquired' = acquired + n

Next == (\E n \in Releases : Release(n)) \/ (\E n \in Acquires : Acquire(n))

Spec == Init /\ [][Next]_svars
============================================================================
