---------------------------- MODULE RWSmartLock ----------------------------
(***************************************************************************)
(* RWSmartLock of BHSync.hpp: one flag for the writers, one counter for    *)
(* the readers.  A writer raises the flag and waits for the counter to     *)
(* fall to zero; a reader waits for the flag to be down and, in a second   *)
(* step, increments the counter.  Between these two steps of the reader a  *)
(* writer may come in.                                                     *)
(*                                                                         *)
(* Back-off and spurious failures of the weak CAS are stuttering steps.    *)
(***************************************************************************)
EXTENDS Integers, FiniteSets

CONSTANT Threads       \* the threads that share the lock

ASSUME ThreadsAssumption == IsFiniteSet(Threads)

VARIABLES flag,        \* SpinLockBase::flag, raised by a writer
          readCount,   \* RWSmartLock::readCount
          pc           \* where each thread is

vars == <<flag, readCount, pc>>

(* wcas, drain: the two loops of spinLockWriting; writing: the section     *)
(* between writeLock() and writeUnlock().  rwait, rinc: the loop and the   *)
(* fetch_add of readLock(); reading: until readUnlock().                   *)
Labels == {"idle", "wcas", "drain", "writing", "rwait", "rinc", "reading"}

TypeOK ==
    /\ flag \in BOOLEAN
    /\ readCount \in Nat
    /\ pc \in [Threads -> Labels]

Init ==
    /\ flag = FALSE
    /\ readCount = 0
    /\ pc = [t \in Threads |-> "idle"]

Move(t, from, to) ==
    /\ pc[t] = from
    /\ pc' = [pc EXCEPT ![t] = to]

-----------------------------------------------------------------------------
(* Writers *)

WriteLock(t) ==
    /\ Move(t, "idle", "wcas")
    /\ UNCHANGED <<flag, readCount>>

(* Fault: the writer raises the flag without comparing. *)
RaiseFlagBlindly(t) ==
    /\ Move(t, "wcas", "drain")
    /\ flag' = TRUE
    /\ UNCHANGED readCount

RaiseFlag(t) ==
    /\ Move(t, "wcas", "drain")
    /\ ~flag
    /\ flag' = TRUE
    /\ UNCHANGED readCount

(* The load of readCount that ends the second loop. *)
SeeNoReader(t) ==
    /\ Move(t, "drain", "writing")
    /\ readCount = 0
    /\ UNCHANGED <<flag, readCount>>

WriteUnlock(t) ==
    /\ Move(t, "writing", "idle")
    /\ flag' = FALSE
    /\ UNCHANGED readCount

-----------------------------------------------------------------------------
(* Readers *)

ReadLock(t) ==
    /\ Move(t, "idle", "rwait")
    /\ UNCHANGED <<flag, readCount>>

(* The load of flag that ends spinLoopForReadable. *)
SeeNoWriter(t) ==
    /\ Move(t, "rwait", "rinc")
    /\ ~flag
    /\ UNCHANGED <<flag, readCount>>

CountReader(t) ==
    /\ Move(t, "rinc", "reading")
    /\ readCount' = readCount + 1
    /\ UNCHANGED flag

(* Fault: readUnlock() forgets the counter. *)
LeaveUncounted(t) ==
    /\ Move(t, "reading", "idle")
    /\ UNCHANGED <<flag, readCount>>

ReadUnlock(t) ==
    /\ Move(t, "reading", "idle")
    /\ readCount' = readCount - 1
    /\ UNCHANGED flag

-----------------------------------------------------------------------------
Next == \E t \in Threads :
            \/ WriteLock(t) \/ RaiseFlag(t) \/ SeeNoReader(t) \/ WriteUnlock(t)
            \/ ReadLock(t) \/ SeeNoWriter(t) \/ CountReader(t) \/ ReadUnlock(t)

Spec == Init /\ [][Next]_vars

(* A thread that is past its wait keeps running: sections end, a reader    *)
(* that saw the flag down counts itself, a drained writer notices it.      *)
(* Nothing is assumed of who calls the lock, nor of who wins it.           *)
Fairness == \A t \in Threads :
                /\ WF_vars(SeeNoReader(t)) /\ WF_vars(WriteUnlock(t))
                /\ WF_vars(CountReader(t)) /\ WF_vars(ReadUnlock(t))

FairSpec == Spec /\ Fairness

-----------------------------------------------------------------------------
Readers == {t \in Threads : pc[t] = "reading"}
Writers == {t \in Threads : pc[t] \in {"drain", "writing"}}

(* Writers exclude each other, and the flag is up exactly while one of     *)
(* them is draining readers or writing (spinLockWriting, writeUnlock).     *)
WritersExclusive ==
    /\ \A s, t \in Writers : s = t
    /\ flag <=> Writers # {}

(* The counter a writer waits on is the number of readers in their         *)
(* sections: it never drifts, whatever the interleaving of readLock() and  *)
(* readUnlock().                                                           *)
ReadCountExact == readCount = Cardinality(Readers)

(* What a writer goes by is exact in both its loops, through any race of   *)
(* writers that compare the flag and of readers that come and go.          *)
LockStateExact == WritersExclusive /\ ReadCountExact

(* A writer that owns the flag is not kept out by readers for ever: it     *)
(* gets to write, however many readers keep calling readLock().            *)
DrainEnds == \A t \in Threads : pc[t] = "drain" ~> pc[t] = "writing"

(* What the file promises ("single writer, many readers"; "Ensure there is *)
(* no writing operation" in readLock()): nobody reads while one writes.    *)
ReadersExcludeWriters ==
    \A t \in Threads : pc[t] = "writing" => Readers = {}
=============================================================================
