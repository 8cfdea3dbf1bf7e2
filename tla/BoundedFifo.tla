----------------------------- MODULE BoundedFifo -----------------------------
(***************************************************************************)
(* What an RWRingQueue promises: a first-in first-out queue with a bound,  *)
(* which grows, or refuses, or drops its oldest value when it is full.     *)
(***************************************************************************)
EXTENDS Integers, Sequences

CONSTANT Values

VARIABLES contents,   \* the values, the oldest first
          bound,      \* how many there may be
          overwrite, expand,
          result      \* what the last call returned

vars == <<contents, bound, overwrite, expand, result>>

Done(values) == [ok |-> TRUE, out |-> values]
Refused == [ok |-> FALSE, out |-> << >>]

Init ==
    /\ contents = << >>
    /\ bound \in Nat \ {0}
    /\ overwrite \in BOOLEAN /\ expand \in BOOLEAN
    /\ result = Refused

Full == Len(contents) = bound

Push(v) ==
    /\ \/ ~Full /\ contents' = Append(contents, v) /\ bound' = bound /\ result' = Done(<< >>)
       \/ Full /\ expand
          /\ contents' = Append(contents, v) /\ bound' > bound /\ result' = Done(<< >>)
       \/ Full /\ ~expand /\ overwrite
          /\ contents' = Append(Tail(contents), v) /\ bound' = bound /\ result' = Done(<< >>)
       \/ Full /\ ~expand /\ ~overwrite
          /\ UNCHANGED <<contents, bound>> /\ result' = Refused
    /\ UNCHANGED <<overwrite, expand>>

Pop ==
    /\ IF contents = << >> THEN result' = Refused /\ UNCHANGED contents
       ELSE result' = Done(<<Head(contents)>>) /\ contents' = Tail(contents)
    /\ UNCHANGED <<bound, overwrite, expand>>

PopBatch(count) ==
    /\ result' = Done(SubSeq(contents, 1, count))
    /\ contents' = SubSeq(contents, count + 1, Len(contents))
    /\ UNCHANGED <<bound, overwrite, expand>>

Look ==
    /\ result' \in {IF contents = << >> THEN Refused ELSE Done(<<Head(contents)>>),
                    Done(contents)}
    /\ UNCHANGED <<contents, bound, overwrite, expand>>

Reserve ==
    /\ bound' >= bound
    /\ result' = Done(<< >>)
    /\ UNCHANGED <<contents, overwrite, expand>>

Set ==
    /\ overwrite' \in BOOLEAN /\ expand' \in BOOLEAN
    /\ result' = Done(<< >>)
    /\ UNCHANGED <<contents, bound>>

Clear ==
    /\ contents' = << >>
    /\ result' = Done(<< >>)
    /\ UNCHANGED <<bound, overwrite, expand>>

Next ==
    \/ \E v \in Values : Push(v)
    \/ \E count \in 0 .. Len(contents) : PopBatch(count)
    \/ Pop \/ Look \/ Reserve \/ Set \/ Clear

Spec == Init /\ [][Next]_vars
=============================================================================
