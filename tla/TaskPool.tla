------------------------------ MODULE TaskPool ------------------------------
(***************************************************************************)
(* What a task queue promises whoever submits to it: tasks are taken in    *)
(* the order of their submission, each one by one worker, and each runs    *)
(* to its end at most once.  BHGCDController implements this module.       *)
(***************************************************************************)
EXTENDS Sequences

CONSTANT Tasks

VARIABLES pending,   \* tasks submitted and not yet taken, oldest first
          taken,     \* tasks a worker has taken and not finished
          done       \* tasks that have run

pvars == <<pending, taken, done>>

Fresh(t) == t \notin taken \cup done /\ \A i \in DOMAIN pending : pending[i] # t

Init == pending = << >> /\ taken = {} /\ done = {}

Submit(t) ==
    /\ Fresh(t)
    /\ pending' = Append(pending, t)
    /\ UNCHANGED <<taken, done>>

Take ==
    /\ pending # << >>
    /\ pending' = Tail(pending)
    /\ taken' = taken \cup {Head(pending)}
    /\ UNCHANGED done

Finish(t) ==
    /\ t \in taken
    /\ taken' = taken \ {t}
    /\ done' = done \cup {t}
    /\ UNCHANGED pending

Next == Take \/ \E t \in Tasks : Submit(t) \/ Finish(t)

Spec == Init /\ [][Next]_pvars
=============================================================================
