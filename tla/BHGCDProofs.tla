---------------------------- MODULE BHGCDProofs ----------------------------
(***************************************************************************)
(* Proofs about BHGCDController, for any finite sets of workers and        *)
(* clients, any tasks and groups, any initial normalTaskCount and all the  *)
(* outcomes of a moved-from call.  What is said of the queue, the permits, *)
(* the counts of tasks and the barriers holds for every stale read too;    *)
(* what is said of the groups rests on there being none, and a theorem     *)
(* that needs that says so.                                                *)
(***************************************************************************)
EXTENDS BHGCDProperties, FiniteSetTheorems, FunctionTheorems, SequenceTheorems, TLAPS

(* The types of what the invariant speaks of. *)
Types ==
    /\ tasksQ \in Seq(Items)
    /\ tasksSem \in Nat
    /\ normalTaskCount \in Int
    /\ wpc \in [Workers -> WorkerLabels]
    /\ cpc \in [Clients -> {"idle", "push", "release", "fire"}]
    /\ citem \in [Clients -> Items]

(* Permits are added without a task only by a destructor that has raised   *)
(* stopFlag.                                                               *)
StoppingIsFlagged == pool = "stopping" => stopFlag

IInv ==
    /\ Types
    /\ StoppingIsFlagged
    /\ PermitsMatchTasks
    /\ NormalCountExact
    /\ GateHasOwner

queueVars == <<tasksQ, tasksSem, stopFlag, pool>>

-----------------------------------------------------------------------------
(* What clients put into the queue is an item.                             *)
LEMMA ItemsType ==
    /\ NoItem \in Items
    /\ \A t \in Tasks, g \in Groups \cup {NoGroup}, b \in BOOLEAN : TaskItem(t, g, b) \in Items
BY DEF Items, TaskItem, NoItem

(* How the sets of workers at given labels change when one worker moves.   *)

LEMMA AtFinite ==
    ASSUME NEW S
    PROVE  IsFiniteSet(At(S)) /\ Cardinality(At(S)) \in Nat
<1>1. IsFiniteSet(At(S))
  BY WorkersAssumption, FS_Subset DEF At
<1>2. QED
  BY <1>1, FS_CardinalityType

LEMMA AtEnter ==
    ASSUME Types, NEW w \in Workers, NEW l, NEW S,
           wpc' = [wpc EXCEPT ![w] = l], wpc[w] \notin S, l \in S
    PROVE  Cardinality(At(S)') = Cardinality(At(S)) + 1 /\ w \in At(S)'
<1>1. At(S)' = At(S) \cup {w} /\ w \notin At(S)
  BY DEF At, Types
<1>2. QED
  BY <1>1, AtFinite, FS_AddElement

LEMMA AtLeave ==
    ASSUME Types, NEW w \in Workers, NEW l, NEW S,
           wpc' = [wpc EXCEPT ![w] = l], wpc[w] \in S, l \notin S
    PROVE  Cardinality(At(S)') = Cardinality(At(S)) - 1
<1>1. At(S)' = At(S) \ {w} /\ w \in At(S)
  BY DEF At, Types
<1>2. QED
  BY <1>1, AtFinite, FS_RemoveElement

LEMMA AtStay ==
    ASSUME Types, NEW w \in Workers, NEW l, NEW S,
           wpc' = [wpc EXCEPT ![w] = l], wpc[w] \in S <=> l \in S
    PROVE  At(S)' = At(S)
BY DEF At, Types

(* Somebody who is at a label makes the count positive.                    *)
LEMMA AtSomebody ==
    ASSUME NEW S, NEW w \in Workers, wpc[w] \in S
    PROVE  Cardinality(At(S)) >= 1
<1>1. At(S) # {}
  BY DEF At
<1>2. Cardinality(At(S)) # 0
  BY <1>1, AtFinite, FS_EmptySet
<1>3. QED
  BY <1>2, AtFinite

(* The same for the clients that are about to release a permit.            *)
LEMMA ReleasingFinite == IsFiniteSet(Releasing) /\ Cardinality(Releasing) \in Nat
<1>1. IsFiniteSet(Releasing)
  BY WorkersAssumption, FS_Subset DEF Releasing
<1>2. QED
  BY <1>1, FS_CardinalityType

LEMMA ReleasingEnter ==
    ASSUME Types, NEW c \in Clients, cpc' = [cpc EXCEPT ![c] = "release"],
           cpc[c] # "release"
    PROVE  Cardinality(Releasing') = Cardinality(Releasing) + 1
<1>1. Releasing' = Releasing \cup {c} /\ c \notin Releasing
  BY DEF Releasing, Types
<1>2. QED
  BY <1>1, ReleasingFinite, FS_AddElement

LEMMA ReleasingLeave ==
    ASSUME Types, NEW c \in Clients, NEW l, cpc' = [cpc EXCEPT ![c] = l],
           l # "release", cpc[c] = "release"
    PROVE  Cardinality(Releasing') = Cardinality(Releasing) - 1
<1>1. Releasing' = Releasing \ {c} /\ c \in Releasing
  BY DEF Releasing, Types
<1>2. QED
  BY <1>1, ReleasingFinite, FS_RemoveElement

LEMMA ReleasingStay ==
    ASSUME Types, NEW c \in Clients, NEW l, cpc' = [cpc EXCEPT ![c] = l],
           l # "release", cpc[c] # "release"
    PROVE  Releasing' = Releasing
BY DEF Releasing, Types

-----------------------------------------------------------------------------
(* Classes of steps that keep the invariant for the same reason.           *)

(* A worker moves between labels no part of the invariant tells apart, and *)
(* leaves the queue, the counters and the gate alone.                      *)
LEMMA QuietWorker ==
    ASSUME IInv, NEW w \in Workers, NEW l \in WorkerLabels,
           wpc' = [wpc EXCEPT ![w] = l],
           \A S \in {{"take"}, HasPermit, Counted, GateKeeping} : wpc[w] \in S <=> l \in S,
           UNCHANGED <<tasksQ, tasksSem, stopFlag, gate, clients>>,
           pool' = pool \/ pool' = "terminated"
    PROVE  IInv'
<1>1. Types'
  BY DEF IInv, Types, gate, clients
<1>2. /\ At({"take"})' = At({"take"})
      /\ At(HasPermit)' = At(HasPermit)
      /\ At(Counted)' = At(Counted)
      /\ At(GateKeeping)' = At(GateKeeping)
  BY AtStay DEF IInv
<1>3. Releasing' = Releasing
  BY DEF Releasing, clients
<1>4. PermitsMatchTasks' /\ StoppingIsFlagged'
  BY <1>2, <1>3 DEF IInv, PermitsMatchTasks, StoppingIsFlagged
<1>5. NormalCountExact' /\ GateHasOwner'
  BY <1>2 DEF IInv, NormalCountExact, GateHasOwner, gate
<1>6. QED
  BY <1>1, <1>4, <1>5 DEF IInv

(* A step that touches none of it.                                         *)
LEMMA Unmoved ==
    ASSUME IInv, UNCHANGED <<queueVars, gate, workers, cpc, citem>>
    PROVE  IInv'
BY DEF IInv, Types, StoppingIsFlagged, PermitsMatchTasks, NormalCountExact, GateHasOwner,
       At, Releasing, queueVars, gate, workers

(* A client moves without submitting or releasing anything.                *)
LEMMA QuietClient ==
    ASSUME IInv, NEW c \in Clients, NEW l \in {"idle", "push", "fire"}, NEW item \in Items,
           cpc' = [cpc EXCEPT ![c] = l], citem' = [citem EXCEPT ![c] = item],
           cpc[c] # "release",
           UNCHANGED <<queueVars, gate, workers>>
    PROVE  IInv'
<1>1. Types'
  BY DEF IInv, Types, queueVars, gate, workers
<1>2. Releasing' = Releasing
  BY ReleasingStay DEF IInv
<1>3. \A S : At(S)' = At(S)
  BY DEF At, workers
<1>4. PermitsMatchTasks' /\ StoppingIsFlagged'
  BY <1>2, <1>3 DEF IInv, PermitsMatchTasks, StoppingIsFlagged, queueVars
<1>5. NormalCountExact' /\ GateHasOwner'
  BY <1>3 DEF IInv, NormalCountExact, GateHasOwner, gate
<1>6. QED
  BY <1>1, <1>4, <1>5 DEF IInv

(* One more permit owed balances one more task.                            *)
LEMMA OneMoreOwed ==
    ASSUME IInv, ~stopFlag
    PROVE  tasksSem + Cardinality(At(HasPermit)) + (Cardinality(Releasing) + 1) = Len(tasksQ) + 1
<1>1. /\ Cardinality(At(HasPermit)) \in Nat /\ Cardinality(Releasing) \in Nat
      /\ tasksSem \in Nat /\ Len(tasksQ) \in Nat
  BY AtFinite, ReleasingFinite DEF IInv, Types
<1>2. tasksSem + Cardinality(At(HasPermit)) + Cardinality(Releasing) = Len(tasksQ)
  BY DEF IInv, PermitsMatchTasks
<1>3. QED
  BY <1>1, <1>2

(* A client queues an item, and owes a permit for it.                      *)
LEMMA Submission ==
    ASSUME IInv, NEW c \in Clients, NEW item \in Items, cpc[c] # "release",
           cpc' = [cpc EXCEPT ![c] = "release"], citem' = [citem EXCEPT ![c] = NoItem],
           tasksQ' = Append(tasksQ, item),
           UNCHANGED <<tasksSem, gate, workers>>, stopFlag' = stopFlag, pool' = pool
    PROVE  IInv'
<1>1. Types'
  BY ItemsType DEF IInv, Types, gate, workers
<1>2. Cardinality(Releasing') = Cardinality(Releasing) + 1
  BY ReleasingEnter DEF IInv
<1>3. \A S : At(S)' = At(S)
  BY DEF At, workers
<1>4. Len(tasksQ') = Len(tasksQ) + 1
  BY DEF IInv, Types
<1>5. PermitsMatchTasks'
  <2>1. CASE stopFlag
    <3>1. Cardinality(At({"take"})') = Cardinality(At({"take"}))
      BY <1>3
    <3>2. Cardinality(At({"take"})) \in Nat /\ Len(tasksQ) \in Nat
      BY AtFinite DEF IInv, Types
    <3>3. Cardinality(At({"take"})) <= Len(tasksQ)
      BY <2>1 DEF IInv, PermitsMatchTasks
    <3>4. Cardinality(At({"take"})') <= Len(tasksQ')
      BY <3>1, <3>2, <3>3, <1>4
    <3>5. stopFlag'
      BY <2>1
    <3>6. QED
      BY <3>4, <3>5 DEF PermitsMatchTasks
  <2>2. CASE ~stopFlag
    <3>1. /\ Cardinality(At(HasPermit)') = Cardinality(At(HasPermit))
          /\ tasksSem' = tasksSem
      BY <1>3
    <3>2. tasksSem + Cardinality(At(HasPermit)) + (Cardinality(Releasing) + 1) = Len(tasksQ) + 1
      BY <2>2, OneMoreOwed, Zenon
    <3>3. tasksSem' + Cardinality(At(HasPermit)') + Cardinality(Releasing') = Len(tasksQ')
      BY <3>1, <3>2, <1>2, <1>4, Zenon
    <3>4. ~stopFlag'
      BY <2>2
    <3>6. QED
      BY <3>3, <3>4 DEF PermitsMatchTasks
  <2>3. QED
    BY <2>1, <2>2
<1>6. StoppingIsFlagged' /\ NormalCountExact' /\ GateHasOwner'
  BY <1>3 DEF IInv, StoppingIsFlagged, NormalCountExact, GateHasOwner, gate
<1>7. QED
  BY <1>1, <1>5, <1>6 DEF IInv

-----------------------------------------------------------------------------
LEMMA InitOK == Init => IInv
<1> SUFFICES ASSUME Init PROVE IInv
  OBVIOUS
<1>1. Types
  BY ItemsType, InitialNormalCountAssumption DEF Init, Types, WorkerLabels
<1>2. \A S \in {{"take"}, HasPermit, Counted, GateKeeping} : At(S) = {}
  BY DEF Init, At, HasPermit, Counted, GateKeeping
<1>3. Releasing = {}
  BY DEF Init, Releasing
<1>4. Cardinality({}) = 0
  BY FS_EmptySet
<1>5. PermitsMatchTasks
  <2>1. ~stopFlag
    BY Zenon DEF Init
  <2>2. Len(tasksQ) = 0 /\ tasksSem = 0
    BY DEF Init
  <2>3. Cardinality(At(HasPermit)) = 0 /\ Cardinality(Releasing) = 0
    BY <1>2, <1>3, <1>4
  <2>4. QED
    BY <2>1, <2>2, <2>3 DEF PermitsMatchTasks
<1>6. NormalCountExact
  <2>1. Cardinality(At(Counted)) = 0
    BY <1>2, <1>4
  <2>2. QED
    BY <2>1, InitialNormalCountAssumption DEF Init, NormalCountExact
<1>7. GateHasOwner
  <2>1. ~barrierActive
    BY Zenon DEF Init
  <2>2. QED
    BY <2>1 DEF GateHasOwner
<1>8. StoppingIsFlagged
  BY DEF Init, StoppingIsFlagged
<1>9. QED
  BY <1>1, <1>5, <1>6, <1>7, <1>8 DEF IInv

(* Every call of a client keeps the invariant.                             *)
LEMMA ClientStep ==
    ASSUME IInv, NEW c \in Clients, Client(c)
    PROVE  IInv'
<1> USE ItemsType
<1>1. ASSUME NEW t \in Tasks, Enqueue(c, t) PROVE IInv'
  BY <1>1, Submission DEF Enqueue, ClientGoes, Push, MaySubmit, lifetime
<1>2. ASSUME NEW t \in Tasks, EnqueueBarrier(c, t) PROVE IInv'
  BY <1>2, Submission DEF EnqueueBarrier, ClientGoes, Push, MaySubmit, lifetime
<1>3. ASSUME NEW t \in Tasks, NEW g \in Groups, EnqueueGroupAsNormal(c, t, g) PROVE IInv'
  BY <1>3, Submission DEF EnqueueGroupAsNormal, ClientGoes, Push, lifetime
<1>4. ASSUME PushGroupTask(c) PROVE IInv'
  BY <1>4, Submission DEF PushGroupTask, ClientGoes, Push, lifetime, IInv, Types
<1>5. ASSUME NEW t \in Tasks, NEW g \in Groups, EnqueueGroup(c, t, g) PROVE IInv'
  BY <1>5, QuietClient DEF EnqueueGroup, ClientGoes, queue, queueVars, lifetime
<1>6. ASSUME NEW g \in Groups, NEW f \in FireArguments, SetCallbackForGroup(c, g, f) PROVE IInv'
  <2>1. TaskItem(NoTask, g, FALSE) \in Items
    BY DEF TaskItem, Items
  <2>2. CASE f /\ Fires(g)
    BY <1>6, <2>1, <2>2, QuietClient DEF SetCallbackForGroup, ClientGoes, queue, queueVars, lifetime
  <2>3. CASE ~(f /\ Fires(g))
    BY <1>6, <2>3, QuietClient DEF SetCallbackForGroup, ClientGoes, queue, queueVars, lifetime
  <2>4. QED
    BY <2>2, <2>3
<1>7. ASSUME NEW g \in Groups, FireGroup(c, g) PROVE IInv'
  BY <1>7, QuietClient DEF FireGroup, ClientGoes, queue, queueVars, lifetime
<1>8. ASSUME GetGroupId(c) PROVE IInv'
  <2>1. UNCHANGED <<queueVars, gate, workers, cpc, citem>>
    BY <1>8 DEF GetGroupId, queue, queueVars, lifetime, clients
  <2>2. QED
    BY <2>1, Unmoved
<1>9. ASSUME Release(c) PROVE IInv'
  <2>1. Types'
    BY <1>9 DEF Release, ClientGoes, ReleasePermit, gate, workers, IInv, Types
  <2>2. Cardinality(Releasing') = Cardinality(Releasing) - 1
    BY <1>9, ReleasingLeave DEF Release, ClientGoes, IInv
  <2>3. \A S : At(S)' = At(S)
    BY <1>9 DEF Release, At, workers
  <2>4. PermitsMatchTasks'
    BY <1>9, <2>2, <2>3, AtFinite, ReleasingFinite
       DEF Release, ReleasePermit, lifetime, IInv, Types, PermitsMatchTasks
  <2>5. StoppingIsFlagged' /\ NormalCountExact' /\ GateHasOwner'
    BY <1>9, <2>3 DEF Release, lifetime, gate, IInv, StoppingIsFlagged, NormalCountExact, GateHasOwner
  <2>6. QED
    BY <2>1, <2>4, <2>5 DEF IInv
<1>10. QED
  BY <1>1, <1>2, <1>3, <1>4, <1>5, <1>6, <1>7, <1>8, <1>9 DEF Client

-----------------------------------------------------------------------------
(* The steps of a worker that the invariant hardly notices.                *)
QuietSteps(w) ==
    \/ LoopTop(w) \/ ReadGate(w) \/ SeeNoNormalTask(w) \/ EndBarrier(w) \/ EndNormal(w)
    \/ ReadGroup(w) \/ SeeGroupActive(w) \/ RunGroupTask(w) \/ FinishGroupTask(w)
    \/ StartCallback(w) \/ EndCallback(w) \/ FinishGroup(w)

LEMMA QuietStep ==
    ASSUME IInv, NEW w \in Workers, QuietSteps(w)
    PROVE  IInv'
<1> USE DEF WorkerGoes, OnlyGoes, WorkerLabels, HasPermit, Counted, GateKeeping, queue, lifetime
<1>1. CASE LoopTop(w)
  <2>1. CASE stopFlag
    BY <1>1, <2>1, QuietWorker DEF LoopTop
  <2>2. CASE ~stopFlag
    BY <1>1, <2>2, QuietWorker DEF LoopTop
  <2>3. QED
    BY <2>1, <2>2
<1>2. CASE ReadGate(w)
  <2>1. CASE ~barrierActive
    BY <1>2, <2>1, QuietWorker DEF ReadGate
  <2>2. CASE barrierActive
    BY <1>2, <2>2, QuietWorker DEF ReadGate
  <2>3. QED
    BY <2>1, <2>2
<1>3. CASE SeeNoNormalTask(w)
  BY <1>3, QuietWorker DEF SeeNoNormalTask
<1>4. CASE EndBarrier(w)
  BY <1>4, QuietWorker DEF EndBarrier
<1>5. CASE EndNormal(w)
  BY <1>5, QuietWorker DEF EndNormal
<1>6. CASE SeeGroupActive(w)
  BY <1>6, QuietWorker DEF SeeGroupActive
<1>7. CASE RunGroupTask(w)
  BY <1>7, QuietWorker DEF RunGroupTask
<1>8. CASE FinishGroupTask(w)
  BY <1>8, QuietWorker DEF FinishGroupTask
<1>9. CASE StartCallback(w)
  BY <1>9, QuietWorker DEF StartCallback
<1>10. CASE EndCallback(w)
  BY <1>10, QuietWorker DEF EndCallback
<1>11. CASE FinishGroup(w)
  BY <1>11, QuietWorker DEF FinishGroup
<1>12. CASE ReadGroup(w)
  <2>1. PICK l \in {"run", "gwait"} : wpc[w] = "group" /\ wpc' = [wpc EXCEPT ![w] = l]
    BY <1>12 DEF ReadGroup
  <2>2. QED
    BY <1>12, <2>1, QuietWorker DEF ReadGroup
<1>13. QED
  BY <1>1, <1>2, <1>3, <1>4, <1>5, <1>6, <1>7, <1>8, <1>9, <1>10, <1>11, <1>12 DEF QuietSteps

(* The steps that move a permit, a task or a count.                        *)
LEMMA AcquireStep ==
    ASSUME IInv, NEW w \in Workers, AcquirePermit(w)
    PROVE  IInv'
<1> USE DEF WorkerGoes
<1>1. Types'
  BY DEF AcquirePermit, WorkerLabels, gate, clients, IInv, Types
<1>2. /\ Cardinality(At(HasPermit)') = Cardinality(At(HasPermit)) + 1
      /\ At({"take"})' = At({"take"})
      /\ At(Counted)' = At(Counted)
      /\ At(GateKeeping)' = At(GateKeeping)
  BY AtEnter, AtStay DEF AcquirePermit, IInv, HasPermit, Counted, GateKeeping
<1>3. Releasing' = Releasing
  BY DEF AcquirePermit, Releasing, clients
<1>4. PermitsMatchTasks'
  <2>1. CASE stopFlag
    BY <1>2, <2>1 DEF AcquirePermit, lifetime, IInv, PermitsMatchTasks
  <2>2. CASE ~stopFlag
    <3>1. tasksSem' + Cardinality(At(HasPermit)') + Cardinality(Releasing') = Len(tasksQ')
      BY <1>2, <1>3, <2>2, AtFinite, ReleasingFinite
         DEF AcquirePermit, IInv, Types, PermitsMatchTasks
    <3>2. ~stopFlag'
      BY <2>2 DEF AcquirePermit, lifetime
    <3>3. QED
      BY <3>1, <3>2 DEF PermitsMatchTasks
  <2>3. QED
    BY <2>1, <2>2
<1>5. NormalCountExact' /\ GateHasOwner' /\ StoppingIsFlagged'
  BY <1>2 DEF AcquirePermit, gate, lifetime, IInv, NormalCountExact, GateHasOwner, StoppingIsFlagged
<1>6. QED
  BY <1>1, <1>4, <1>5 DEF IInv

(* A worker that sees no stopFlag keeps its permit; it leaves only once    *)
(* the flag is up, and the exact count of permits is over.                 *)
LEMMA StopCheckStep ==
    ASSUME IInv, NEW w \in Workers, StopCheck(w)
    PROVE  IInv'
<1> USE DEF WorkerGoes, OnlyGoes
<1>1. Types'
  BY DEF StopCheck, WorkerLabels, queue, gate, clients, IInv, Types
<1>2. Releasing' = Releasing
  BY DEF StopCheck, Releasing, clients
<1>3. At(Counted)' = At(Counted) /\ At(GateKeeping)' = At(GateKeeping)
  BY AtStay DEF StopCheck, IInv, Counted, GateKeeping
<1>4. PermitsMatchTasks'
  <2>1. CASE stopFlag
    <3>1. At({"take"})' = At({"take"})
      BY <2>1, AtStay DEF StopCheck, IInv
    <3>2. QED
      BY <3>1, <2>1 DEF StopCheck, queue, lifetime, IInv, PermitsMatchTasks
  <2>2. CASE ~stopFlag
    <3>1. At(HasPermit)' = At(HasPermit)
      BY <2>2, AtStay DEF StopCheck, IInv, HasPermit
    <3>2. QED
      BY <3>1, <1>2, <2>2 DEF StopCheck, queue, lifetime, IInv, PermitsMatchTasks
  <2>3. QED
    BY <2>1, <2>2
<1>5. NormalCountExact' /\ GateHasOwner' /\ StoppingIsFlagged'
  BY <1>3 DEF StopCheck, gate, lifetime, IInv, NormalCountExact, GateHasOwner, StoppingIsFlagged
<1>6. QED
  BY <1>1, <1>4, <1>5 DEF IInv

(* Whoever is at the queue finds a task there.                             *)
LEMMA TakerFinds ==
    ASSUME IInv, NEW w \in Workers, wpc[w] = "take"
    PROVE  tasksQ # << >>
<1>1. Cardinality(At({"take"})) >= 1 /\ Cardinality(At(HasPermit)) >= 1
  BY AtSomebody DEF HasPermit
<1>2. CASE stopFlag
  BY <1>1, <1>2, AtFinite DEF IInv, Types, PermitsMatchTasks
<1>3. CASE ~stopFlag
  BY <1>1, <1>3, AtFinite, ReleasingFinite DEF IInv, Types, PermitsMatchTasks
<1>4. QED
  BY <1>2, <1>3

(* so that the pop takes one permit and one task.                          *)
LEMMA TakeStep ==
    ASSUME IInv, NEW w \in Workers, TakeTask(w)
    PROVE  IInv'
<1> USE DEF WorkerGoes
<1>1. tasksQ # << >>
  BY TakerFinds DEF TakeTask
<1>2. wpc' = [wpc EXCEPT ![w] = "start"] /\ tasksQ' = Tail(tasksQ)
  BY <1>1 DEF TakeTask, PopFront
<1>3. Types'
  BY <1>1, <1>2 DEF TakeTask, WorkerLabels, gate, clients, IInv, Types
<1>4. /\ Cardinality(At(HasPermit)') = Cardinality(At(HasPermit)) - 1
      /\ Cardinality(At({"take"})') = Cardinality(At({"take"})) - 1
      /\ At(Counted)' = At(Counted)
      /\ At(GateKeeping)' = At(GateKeeping)
  <2>1. wpc[w] = "take" /\ Types
    BY DEF TakeTask, IInv
  <2>2. Cardinality(At(HasPermit)') = Cardinality(At(HasPermit)) - 1
    <3>1. wpc[w] \in HasPermit /\ "start" \notin HasPermit
      BY <2>1 DEF HasPermit
    <3>2. QED
      BY <1>2, <2>1, <3>1, AtLeave, Zenon
  <2>3. Cardinality(At({"take"})') = Cardinality(At({"take"})) - 1
    <3>1. wpc[w] \in {"take"} /\ "start" \notin {"take"}
      BY <2>1
    <3>2. QED
      BY <1>2, <2>1, <3>1, AtLeave, Zenon
  <2>4. At(Counted)' = At(Counted) /\ At(GateKeeping)' = At(GateKeeping)
    BY <1>2, <2>1, AtStay DEF Counted, GateKeeping
  <2>5. QED
    BY <2>2, <2>3, <2>4
<1>5. Releasing' = Releasing
  BY DEF TakeTask, Releasing, clients
<1>6. Len(tasksQ') = Len(tasksQ) - 1
  BY <1>1, <1>2 DEF IInv, Types
<1>7. PermitsMatchTasks'
  <2>1. CASE stopFlag
    BY <1>4, <1>6, <2>1, AtFinite DEF TakeTask, lifetime, IInv, Types, PermitsMatchTasks
  <2>2. CASE ~stopFlag
    BY <1>4, <1>5, <1>6, <2>2, AtFinite, ReleasingFinite
       DEF TakeTask, lifetime, IInv, Types, PermitsMatchTasks
  <2>3. QED
    BY <2>1, <2>2
<1>8. NormalCountExact' /\ GateHasOwner' /\ StoppingIsFlagged'
  BY <1>4 DEF TakeTask, gate, lifetime, IInv, NormalCountExact, GateHasOwner, StoppingIsFlagged
<1>9. QED
  BY <1>3, <1>7, <1>8 DEF IInv

(* A barrier is raised and lifted by a worker that is at it.               *)
LEMMA StartBarrierStep ==
    ASSUME IInv, NEW w \in Workers, StartBarrier(w)
    PROVE  IInv'
<1> USE DEF WorkerGoes
<1>1. Types'
  BY DEF StartBarrier, WorkerLabels, queue, clients, IInv, Types
<1>2. At({"take"})' = At({"take"}) /\ At(HasPermit)' = At(HasPermit) /\ At(Counted)' = At(Counted)
  BY AtStay DEF StartBarrier, IInv, HasPermit, Counted
<1>3. Releasing' = Releasing
  BY DEF StartBarrier, Releasing, clients
<1>4. PermitsMatchTasks' /\ NormalCountExact' /\ StoppingIsFlagged'
  BY <1>2, <1>3 DEF StartBarrier, queue, lifetime, IInv, PermitsMatchTasks, NormalCountExact, StoppingIsFlagged
<1>5. GateHasOwner'
  BY DEF StartBarrier, IInv, Types, GateHasOwner, At, GateKeeping
<1>6. QED
  BY <1>1, <1>4, <1>5 DEF IInv

LEMMA LiftBarrierStep ==
    ASSUME IInv, NEW w \in Workers, LiftBarrier(w)
    PROVE  IInv'
<1> USE DEF WorkerGoes
<1>1. Types'
  BY DEF LiftBarrier, WorkerLabels, queue, clients, IInv, Types
<1>2. At({"take"})' = At({"take"}) /\ At(HasPermit)' = At(HasPermit) /\ At(Counted)' = At(Counted)
  BY AtStay DEF LiftBarrier, IInv, HasPermit, Counted
<1>3. Releasing' = Releasing
  BY DEF LiftBarrier, Releasing, clients
<1>4. PermitsMatchTasks' /\ NormalCountExact' /\ StoppingIsFlagged'
  BY <1>2, <1>3 DEF LiftBarrier, queue, lifetime, IInv, PermitsMatchTasks, NormalCountExact, StoppingIsFlagged
<1>5. GateHasOwner'
  <2>1. ~barrierActive'
    BY Zenon DEF LiftBarrier
  <2>2. QED
    BY <2>1 DEF GateHasOwner
<1>6. QED
  BY <1>1, <1>4, <1>5 DEF IInv

(* A normal task is counted while it runs, whatever a stale read made of   *)
(* it.                                                                     *)
LEMMA StartNormalStep ==
    ASSUME IInv, NEW w \in Workers, StartNormal(w)
    PROVE  IInv'
<1> USE DEF WorkerGoes
<1>1. wpc' = [wpc EXCEPT ![w] = "group"]
  BY DEF StartNormal
<1>2. Types'
  BY <1>1 DEF StartNormal, CountNormal, WorkerLabels, queue, clients, IInv, Types
<1>3. wpc[w] = "start" /\ Types
  BY DEF StartNormal, IInv
<1>4. At({"take"})' = At({"take"}) /\ At(HasPermit)' = At(HasPermit) /\ At(GateKeeping)' = At(GateKeeping)
  BY <1>1, <1>3, AtStay DEF HasPermit, GateKeeping
<1>5. Cardinality(At(Counted)') = Cardinality(At(Counted)) + 1
  BY <1>1, <1>3, AtEnter DEF Counted
<1>6. Releasing' = Releasing
  BY DEF StartNormal, Releasing, clients
<1>7. PermitsMatchTasks' /\ GateHasOwner' /\ StoppingIsFlagged'
  BY <1>4, <1>6 DEF StartNormal, queue, lifetime, IInv, PermitsMatchTasks, GateHasOwner, StoppingIsFlagged
<1>8. NormalCountExact'
  <2>1. normalTaskCount' = normalTaskCount + 1
    BY DEF StartNormal, CountNormal
  <2>2. normalTaskCount = InitialNormalCount + Cardinality(At(Counted))
    BY DEF IInv, NormalCountExact
  <2>3. QED
    BY <1>5, <2>1, <2>2, AtFinite, InitialNormalCountAssumption DEF NormalCountExact
<1>9. QED
  BY <1>2, <1>7, <1>8 DEF IInv

LEMMA FinishNormalStep ==
    ASSUME IInv, NEW w \in Workers, FinishNormal(w)
    PROVE  IInv'
<1> USE DEF WorkerGoes
<1>1. Types'
  BY DEF FinishNormal, CountNormal, WorkerLabels, queue, clients, IInv, Types
<1>2. At({"take"})' = At({"take"}) /\ At(HasPermit)' = At(HasPermit) /\ At(GateKeeping)' = At(GateKeeping)
  BY AtStay DEF FinishNormal, IInv, HasPermit, GateKeeping
<1>3. Cardinality(At(Counted)') = Cardinality(At(Counted)) - 1
  BY AtLeave DEF FinishNormal, IInv, Counted
<1>4. Releasing' = Releasing
  BY DEF FinishNormal, Releasing, clients
<1>5. PermitsMatchTasks' /\ GateHasOwner' /\ StoppingIsFlagged'
  BY <1>2, <1>4 DEF FinishNormal, queue, lifetime, IInv, PermitsMatchTasks, GateHasOwner, StoppingIsFlagged
<1>6. NormalCountExact'
  <2>1. normalTaskCount' = normalTaskCount + (-1)
    BY DEF FinishNormal, CountNormal
  <2>2. normalTaskCount = InitialNormalCount + Cardinality(At(Counted))
    BY DEF IInv, NormalCountExact
  <2>3. QED
    BY <1>3, <2>1, <2>2, AtFinite, InitialNormalCountAssumption DEF NormalCountExact
<1>7. QED
  BY <1>1, <1>5, <1>6 DEF IInv

-----------------------------------------------------------------------------
(* The destructor.  When the flag goes up, every worker at the queue has a *)
(* permit and so a task.                                                   *)
LEMMA DestructorStep ==
    ASSUME IInv, Destructor
    PROVE  IInv'
<1>1. CASE Stop
  <2>1. Types' /\ NormalCountExact' /\ GateHasOwner' /\ StoppingIsFlagged'
    BY <1>1 DEF Stop, queue, gate, workers, clients, IInv, Types, NormalCountExact, GateHasOwner,
       StoppingIsFlagged, At
  <2>2. At({"take"})' = At({"take"}) /\ tasksQ' = tasksQ
    BY <1>1 DEF Stop, queue, workers, At
  <2>3. Cardinality(At({"take"})) <= Cardinality(At(HasPermit))
    <3>1. At({"take"}) \subseteq At(HasPermit)
      BY DEF At, HasPermit
    <3>2. QED
      BY <3>1, AtFinite, FS_Subset
  <2>4. Cardinality(At({"take"})) <= Len(tasksQ)
    <3>1. CASE stopFlag
      BY <3>1 DEF IInv, PermitsMatchTasks
    <3>2. CASE ~stopFlag
      BY <2>3, <3>2, AtFinite, ReleasingFinite DEF IInv, Types, PermitsMatchTasks
    <3>3. QED
      BY <3>1, <3>2
  <2>5. stopFlag'
    BY <1>1, Zenon DEF Stop
  <2>6. QED
    BY <2>1, <2>2, <2>4, <2>5 DEF IInv, PermitsMatchTasks
<1>2. CASE WakeAll
  <2>1. PermitsToStop \in Nat
    BY WorkersAssumption, FS_CardinalityType DEF PermitsToStop
  <2>2. Types' /\ NormalCountExact' /\ GateHasOwner' /\ StoppingIsFlagged'
    BY <1>2, <2>1 DEF WakeAll, gate, workers, clients, IInv, Types, NormalCountExact, GateHasOwner,
       StoppingIsFlagged, At
  <2>3. stopFlag
    BY <1>2 DEF WakeAll, IInv, StoppingIsFlagged
  <2>4. PermitsMatchTasks'
    BY <1>2, <2>3 DEF WakeAll, workers, At, IInv, PermitsMatchTasks
  <2>5. QED
    BY <2>2, <2>4 DEF IInv
<1>3. CASE Join
  BY <1>3 DEF Join, queue, gate, workers, clients, IInv, Types, NormalCountExact, GateHasOwner,
     StoppingIsFlagged, PermitsMatchTasks, At, Releasing
<1>4. QED
  BY <1>1, <1>2, <1>3 DEF Destructor

-----------------------------------------------------------------------------
LEMMA WorkerStep ==
    ASSUME IInv, NEW w \in Workers, Worker(w)
    PROVE  IInv'
BY QuietStep, AcquireStep, StopCheckStep, TakeStep, StartBarrierStep, LiftBarrierStep,
   StartNormalStep, FinishNormalStep DEF Worker, QuietSteps

LEMMA StepOK == IInv /\ [Next]_vars => IInv'
<1> SUFFICES ASSUME IInv, [Next]_vars PROVE IInv'
  OBVIOUS
<1>1. CASE Next
  BY <1>1, ClientStep, WorkerStep, DestructorStep DEF Next
<1>2. CASE UNCHANGED vars
  BY <1>2, Unmoved DEF vars, queue, queueVars, clients, lifetime
<1>3. QED
  BY <1>1, <1>2

LEMMA Invariant == Spec => []IInv
BY InitOK, StepOK, PTL DEF Spec

(* Until the pool stops there is a permit for every queued task, whatever  *)
(* the order of push, release, acquire and pop among any number of threads *)
(* and whatever tasks and groups there are.                                *)
THEOREM PermitsMatchTasksHolds == Spec => []PermitsMatchTasks
<1>1. IInv => PermitsMatchTasks
  BY DEF IInv
<1>2. QED
  BY <1>1, Invariant, PTL

(* A worker that passed the semaphore never finds the queue empty.         *)
THEOREM TakerFindsTaskHolds == Spec => []TakerFindsTask
<1>1. IInv => TakerFindsTask
  BY TakerFinds DEF TakerFindsTask
<1>2. QED
  BY <1>1, Invariant, PTL

(* Together: every permit leads a worker to a task, and every task has one *)
(* until the pool stops.                                                   *)
THEOREM PermitsFindTasksHolds == Spec => []PermitsFindTasks
<1>1. PermitsMatchTasks /\ TakerFindsTask => PermitsFindTasks
  BY DEF PermitsFindTasks
<1>2. QED
  BY <1>1, PermitsMatchTasksHolds, TakerFindsTaskHolds, PTL

(* normalTaskCount is its initial value and the number of workers between  *)
(* their increment and their decrement.                                    *)
THEOREM NormalCountExactHolds == Spec => []NormalCountExact
<1>1. IInv => NormalCountExact
  BY DEF IInv
<1>2. QED
  BY <1>1, Invariant, PTL

(* The gate is never left shut without a worker that will open it.         *)
THEOREM GateHasOwnerHolds == Spec => []GateHasOwner
<1>1. IInv => GateHasOwner
  BY DEF IInv
<1>2. QED
  BY <1>1, Invariant, PTL

(* Every worker holds something at any time.                               *)
CurDomain == DOMAIN cur = Workers

LEMMA CurStep ==
    ASSUME [Next]_vars
    PROVE  cur' = cur \/ \E w \in Workers : \E item : cur' = [cur EXCEPT ![w] = item]
<1>1. ASSUME NEW c \in Clients, Client(c) PROVE cur' = cur
  BY <1>1 DEF Client, Enqueue, EnqueueBarrier, EnqueueGroupAsNormal, EnqueueGroup,
     SetCallbackForGroup, FireGroup, GetGroupId, PushGroupTask, Release, workers
<1>2. ASSUME NEW w \in Workers, Worker(w)
      PROVE  cur' = cur \/ \E item : cur' = [cur EXCEPT ![w] = item]
  <2>1. CASE TakeTask(w) \/ EndBarrier(w) \/ EndNormal(w) \/ FinishGroupTask(w) \/ EndCallback(w) \/ FinishGroup(w)
    BY <2>1 DEF TakeTask, PopFront, EndBarrier, EndNormal, FinishGroupTask, EndCallback, FinishGroup, DropTask
  <2>2. CASE ReadGroup(w)
    BY <2>2 DEF ReadGroup
  <2>3. CASE LoopTop(w) \/ ReadGate(w) \/ AcquirePermit(w) \/ StopCheck(w) \/ StartBarrier(w) \/ SeeNoNormalTask(w)
    BY <2>3 DEF LoopTop, ReadGate, AcquirePermit, StopCheck, StartBarrier, SeeNoNormalTask, OnlyGoes
  <2>4. CASE LiftBarrier(w) \/ StartNormal(w) \/ FinishNormal(w) \/ SeeGroupActive(w) \/ RunGroupTask(w) \/ StartCallback(w)
    BY <2>4 DEF LiftBarrier, StartNormal, FinishNormal, SeeGroupActive, RunGroupTask, StartCallback, OnlyGoes
  <2>5. QED
    BY <1>2, <2>1, <2>2, <2>3, <2>4 DEF Worker
<1>3. ASSUME Destructor \/ UNCHANGED vars PROVE cur' = cur
  BY <1>3 DEF Destructor, Stop, WakeAll, Join, vars, workers
<1>4. QED
  BY <1>1, <1>2, <1>3 DEF Next

LEMMA CurDomainInvariant == Spec => []CurDomain
<1>1. Init => CurDomain
  BY DEF Init, CurDomain
<1>2. CurDomain /\ [Next]_vars => CurDomain'
  BY CurStep DEF CurDomain
<1>3. QED
  BY <1>1, <1>2, PTL DEF Spec

(* A worker's task runs, or has run, until it is done.                     *)
LEMMA RunningStep ==
    ASSUME IInv, CurDomain, [Next]_vars, NEW t, Runs(t)
    PROVE  Runs(t)' \/ t \in done'
<1>1. PICK u \in Workers : wpc[u] = "run" /\ cur[u].func = t
  BY DEF Runs, At
<1>2. wpc \in [Workers -> WorkerLabels] /\ DOMAIN cur = Workers
  BY DEF IInv, Types, CurDomain
<1> SUFFICES ASSUME t \notin done' PROVE wpc'[u] = "run" /\ cur'[u] = cur[u]
  BY <1>1 DEF Runs, At
<1>3. ASSUME NEW c \in Clients, Client(c) PROVE UNCHANGED workers
  BY <1>3 DEF Client, Enqueue, EnqueueBarrier, EnqueueGroupAsNormal, EnqueueGroup,
     SetCallbackForGroup, FireGroup, GetGroupId, PushGroupTask, Release
<1>4. ASSUME Destructor \/ UNCHANGED vars PROVE UNCHANGED workers
  BY <1>4 DEF Destructor, Stop, WakeAll, Join, vars
<1>5. ASSUME NEW w \in Workers, Worker(w)
      PROVE  wpc'[u] = "run" /\ cur'[u] = cur[u]
  <2> USE DEF WorkerGoes, OnlyGoes
  <2>1. CASE EndNormal(w)
    BY <1>1, <1>2, <2>1 DEF EndNormal, TaskEnds, DropTask
  <2>2. ASSUME NEW from, from # "run", wpc[w] = from, NEW to, wpc' = [wpc EXCEPT ![w] = to],
               cur' = cur \/ \E item : cur' = [cur EXCEPT ![w] = item]
        PROVE  wpc'[u] = "run" /\ cur'[u] = cur[u]
    BY <1>1, <1>2, <2>2
  <2>3. CASE LoopTop(w) \/ ReadGate(w) \/ AcquirePermit(w) \/ StopCheck(w)
    BY <2>2, <2>3 DEF LoopTop, ReadGate, AcquirePermit, StopCheck
  <2>4. CASE TakeTask(w) \/ EndBarrier(w)
    BY <2>2, <2>4 DEF TakeTask, PopFront, EndBarrier, DropTask
  <2>5. CASE StartBarrier(w) \/ SeeNoNormalTask(w) \/ LiftBarrier(w)
    BY <2>2, <2>5 DEF StartBarrier, SeeNoNormalTask, LiftBarrier
  <2>6. CASE StartNormal(w) \/ ReadGroup(w) \/ FinishNormal(w)
    BY <2>2, <2>6 DEF StartNormal, ReadGroup, FinishNormal
  <2>7. CASE SeeGroupActive(w) \/ RunGroupTask(w) \/ StartCallback(w)
    BY <2>2, <2>7 DEF SeeGroupActive, RunGroupTask, StartCallback
  <2>8. CASE FinishGroupTask(w) \/ EndCallback(w) \/ FinishGroup(w)
    BY <2>2, <2>8 DEF FinishGroupTask, EndCallback, FinishGroup, DropTask
  <2>9. QED
    BY <1>5, <2>1, <2>3, <2>4, <2>5, <2>6, <2>7, <2>8 DEF Worker
<1>6. QED
  BY <1>1, <1>3, <1>4, <1>5 DEF Next, workers

(* What has run stays so.                                                  *)
LEMMA DoneGrows ==
    ASSUME [Next]_vars
    PROVE  done \subseteq done'
<1>1. ASSUME NEW c \in Clients, Client(c) PROVE done' = done
  BY <1>1 DEF Client, Enqueue, EnqueueBarrier, EnqueueGroupAsNormal, EnqueueGroup,
     SetCallbackForGroup, FireGroup, GetGroupId, PushGroupTask, Release
<1>2. ASSUME NEW w \in Workers, Worker(w) PROVE done \subseteq done'
  BY <1>2 DEF Worker, OnlyGoes, LoopTop, ReadGate, AcquirePermit, StopCheck, TakeTask, StartBarrier,
     SeeNoNormalTask, EndBarrier, LiftBarrier, StartNormal, ReadGroup, EndNormal, FinishNormal,
     SeeGroupActive, RunGroupTask, FinishGroupTask, StartCallback, EndCallback, FinishGroup, TaskEnds
<1>3. ASSUME Destructor \/ UNCHANGED vars PROVE done' = done
  BY <1>3 DEF Destructor, Stop, WakeAll, Join, vars
<1>4. QED
  BY <1>1, <1>2, <1>3 DEF Next

(* A worker that drains leaves the drain only when the count is zero, and  *)
(* then nobody runs a task.                                                *)
Waited(w, t) == t \in done \/ (wpc[w] # "barrier" /\ Runs(t))

LEMMA WaitedStep ==
    ASSUME InitialNormalCount \in Nat, IInv, CurDomain, [Next]_vars, NEW w \in Workers, NEW t, Waited(w, t)
    PROVE  Waited(w, t)'
<1>1. CASE t \in done
  BY <1>1, DoneGrows DEF Waited
<1>2. CASE wpc[w] # "barrier" /\ Runs(t)
  <2>1. Runs(t)' \/ t \in done'
    BY <1>2, RunningStep
  <2>2. normalTaskCount # 0
    <3>1. Cardinality(At(Counted)) >= 1
      BY <1>2, AtSomebody DEF Runs, At, Counted
    <3>2. QED
      BY <3>1, AtFinite DEF IInv, NormalCountExact
  <2>3. wpc'[w] # "barrier"
    <3>1. wpc \in [Workers -> WorkerLabels]
      BY DEF IInv, Types
    <3>2. ASSUME NEW u \in Workers, Worker(u) PROVE wpc'[w] # "barrier"
      <4> USE DEF WorkerGoes, OnlyGoes
      <4>1. CASE LoopTop(u) \/ ReadGate(u) \/ AcquirePermit(u) \/ StopCheck(u) \/ TakeTask(u)
        BY <1>2, <3>1, <4>1 DEF LoopTop, ReadGate, AcquirePermit, StopCheck, TakeTask
      <4>2. CASE StartBarrier(u) \/ EndBarrier(u) \/ LiftBarrier(u) \/ StartNormal(u) \/ ReadGroup(u)
        BY <1>2, <3>1, <4>2 DEF StartBarrier, EndBarrier, LiftBarrier, StartNormal, ReadGroup
      <4>3. CASE EndNormal(u) \/ FinishNormal(u) \/ SeeGroupActive(u) \/ RunGroupTask(u)
        BY <1>2, <3>1, <4>3 DEF EndNormal, FinishNormal, SeeGroupActive, RunGroupTask
      <4>4. CASE FinishGroupTask(u) \/ StartCallback(u) \/ EndCallback(u) \/ FinishGroup(u)
        BY <1>2, <3>1, <4>4 DEF FinishGroupTask, StartCallback, EndCallback, FinishGroup
      <4>5. CASE SeeNoNormalTask(u)
        BY <2>2, <4>5 DEF SeeNoNormalTask
      <4>6. QED
        BY <3>2, <4>1, <4>2, <4>3, <4>4, <4>5 DEF Worker
    <3>3. ASSUME NEW c \in Clients, Client(c) PROVE wpc' = wpc
      BY <3>3 DEF Client, Enqueue, EnqueueBarrier, EnqueueGroupAsNormal, EnqueueGroup,
         SetCallbackForGroup, FireGroup, GetGroupId, PushGroupTask, Release, workers
    <3>4. ASSUME Destructor \/ UNCHANGED vars PROVE wpc' = wpc
      BY <3>4 DEF Destructor, Stop, WakeAll, Join, vars, workers
    <3>5. QED
      BY <1>2, <3>2, <3>3, <3>4 DEF Next
  <2>4. QED
    BY <2>1, <2>3 DEF Waited
<1>3. QED
  BY <1>1, <1>2 DEF Waited

(* A task that runs while a barrier drains has run when the barrier does,  *)
(* for any number of workers, tasks and barriers: unless normalTaskCount   *)
(* starts below zero, where it may come to zero beside a task.             *)
THEOREM BarrierWaitsForRunningHolds ==
    InitialNormalCount \in Nat => (Spec => BarrierWaitsForRunning)
<1> SUFFICES ASSUME InitialNormalCount \in Nat PROVE Spec => BarrierWaitsForRunning
  OBVIOUS
<1>1. ASSUME NEW w \in Workers, NEW t \in Tasks
      PROVE  Spec => [](wpc[w] = "drain" /\ Runs(t) => [](wpc[w] = "barrier" => t \in done))
  <2>1. wpc[w] = "drain" /\ Runs(t) => Waited(w, t)
    BY DEF Waited
  <2>2. IInv /\ CurDomain /\ [Next]_vars /\ Waited(w, t) => Waited(w, t)'
    BY WaitedStep
  <2>3. Waited(w, t) => (wpc[w] = "barrier" => t \in done)
    BY DEF Waited
  <2>4. QED
    BY <2>1, <2>2, <2>3, Invariant, CurDomainInvariant, PTL DEF Spec
<1>2. QED
  BY <1>1 DEF BarrierWaitsForRunning

-----------------------------------------------------------------------------
(* The groups.                                                             *)

(* A task of a group is no barrier.                                        *)
Sound(item) == item.groupID # NoGroup => ~item.isBarrier

InGroup == {"gwait", "grun", "glock", "callback"}

(* Where a worker is that has seen the group of its task fired.            *)
Fired == {"grun", "glock", "callback"}

GroupTypes ==
    /\ cur \in [Workers -> Items]
    /\ groupTaskCount \in [Groups -> Nat]
    /\ activeGroups \subseteq Groups
    /\ \A i \in 1 .. Len(tasksQ) : Sound(tasksQ[i])
    /\ \A w \in Workers : Sound(cur[w])
    /\ \A w \in Workers : wpc[w] \in InGroup => cur[w].groupID \in Groups
    /\ \A c \in Clients : cpc[c] = "push" => Sound(citem[c])

(* While a callback runs, its worker keeps _groupOptLock, and its group    *)
(* has counted down to zero.                                               *)
CallbackLocked ==
    \A w \in Workers : wpc[w] = "callback" =>
        groupLock = w /\ groupTaskCount[cur[w].groupID] = 0

GroupInv == GroupTypes /\ CallbackLocked /\ GroupsSound

(* Whether a worker, or a client, has yet to end or to queue a task of g.  *)
Owes(label, item, g) == label \in Owing /\ item.groupID = g
One(holds) == IF holds THEN 1 ELSE 0
PushCount(label, item, g) == One(label = "push" /\ item.groupID = g)

LEMMA GroupSetsFinite ==
    ASSUME Types, NEW g
    PROVE  /\ IsFiniteSet(InPush(g)) /\ Cardinality(InPush(g)) \in Nat
           /\ IsFiniteSet(InQueue(g)) /\ Cardinality(InQueue(g)) \in Nat
           /\ IsFiniteSet(AtWorker(g, Owing)) /\ Cardinality(AtWorker(g, Owing)) \in Nat
<1>1. IsFiniteSet(InPush(g))
    BY WorkersAssumption, FS_Subset DEF InPush
<1>2. IsFiniteSet(AtWorker(g, Owing))
    <2>1. AtWorker(g, Owing) \in SUBSET Workers
        BY DEF AtWorker, At
    <2> QED
        BY <2>1, WorkersAssumption, FS_Subset
<1>3. IsFiniteSet(InQueue(g))
    <2>1. IsFiniteSet(1 .. Len(tasksQ)) /\ InQueue(g) \in SUBSET (1 .. Len(tasksQ))
        BY FS_Interval DEF Types, InQueue
    <2> QED
        BY <2>1, FS_Subset
<1> QED
    BY <1>1, <1>2, <1>3, FS_CardinalityType

(* No count, no task.                                                      *)
LEMMA NoneOwed ==
    ASSUME IInv, GroupInv, NEW g \in Groups, groupTaskCount[g] = 0
    PROVE  InPush(g) = {} /\ InQueue(g) = {} /\ AtWorker(g, Owing) = {}
<1>1. Types
    BY DEF IInv
<1>2. groupTaskCount[g] = Cardinality(InPush(g)) + Cardinality(InQueue(g))
          + Cardinality(AtWorker(g, Owing))
    BY DEF GroupInv, GroupsSound, GroupCountExact
<1>3. Cardinality(InPush(g)) = 0 /\ Cardinality(InQueue(g)) = 0 /\ Cardinality(AtWorker(g, Owing)) = 0
    BY <1>1, <1>2, GroupSetsFinite
<1> QED
    BY <1>1, <1>3, GroupSetsFinite, FS_EmptySet

(* How a count changes with one element, ...                               *)
LEMMA OneElement ==
    ASSUME NEW S, NEW T, NEW x, IsFiniteSet(S), T \ {x} = S \ {x}
    PROVE  Cardinality(T) = Cardinality(S) + One(x \in T) - One(x \in S)
<1>1. Cardinality(S) \in Nat
    BY FS_CardinalityType
<1>2. CASE x \in T /\ x \notin S
    <2>1. T = S \cup {x}
        BY <1>2
    <2> QED
        BY <2>1, <1>1, <1>2, FS_AddElement DEF One
<1>3. CASE x \notin T /\ x \in S
    <2>1. T = S \ {x}
        BY <1>3
    <2> QED
        BY <2>1, <1>1, <1>3, FS_RemoveElement DEF One
<1>4. CASE x \in T <=> x \in S
    <2>1. T = S
        BY <1>4
    <2> QED
        BY <2>1, <1>1 DEF One
<1> QED
    BY <1>2, <1>3, <1>4

(* ... when a worker moves or changes its item, ...                        *)
WorkerBecomes(w, l, item) == wpc' = [wpc EXCEPT ![w] = l] /\ cur' = [cur EXCEPT ![w] = item]

LEMMA WorkerCounts ==
    ASSUME Types, cur \in [Workers -> Items], NEW w \in Workers, NEW l, NEW item, NEW g,
           WorkerBecomes(w, l, item)
    PROVE  Cardinality(AtWorker(g, Owing)') =
               Cardinality(AtWorker(g, Owing)) + One(Owes(l, item, g)) - One(Owes(wpc[w], cur[w], g))
<1> USE DEF WorkerBecomes
<1>1. AtWorker(g, Owing)' \ {w} = AtWorker(g, Owing) \ {w}
    BY DEF AtWorker, At, Types
<1>2. w \in AtWorker(g, Owing)' <=> Owes(l, item, g)
    BY DEF AtWorker, At, Types, Owes
<1>3. w \in AtWorker(g, Owing) <=> Owes(wpc[w], cur[w], g)
    BY DEF AtWorker, At, Types, Owes
<1>4. /\ One(w \in AtWorker(g, Owing)') = One(Owes(l, item, g))
      /\ One(w \in AtWorker(g, Owing)) = One(Owes(wpc[w], cur[w], g))
    BY <1>2, <1>3 DEF One
<1>5. IsFiniteSet(AtWorker(g, Owing))
    BY GroupSetsFinite
<1>6. Cardinality(AtWorker(g, Owing)') =
          Cardinality(AtWorker(g, Owing)) + One(w \in AtWorker(g, Owing)') - One(w \in AtWorker(g, Owing))
    BY <1>1, <1>5, OneElement, Zenon
<1> QED
    BY <1>4, <1>6

(* ... when a client does, ...                                             *)
ClientBecomes(c, l, item) == cpc' = [cpc EXCEPT ![c] = l] /\ citem' = [citem EXCEPT ![c] = item]

LEMMA ClientCounts ==
    ASSUME Types, NEW c \in Clients, NEW l, NEW item, NEW g, ClientBecomes(c, l, item)
    PROVE  Cardinality(InPush(g)') =
               Cardinality(InPush(g)) + PushCount(l, item, g) - PushCount(cpc[c], citem[c], g)
<1> USE DEF ClientBecomes
<1>1. InPush(g)' \ {c} = InPush(g) \ {c}
    BY DEF InPush, Types
<1>2. c \in InPush(g)' <=> l = "push" /\ item.groupID = g
    BY DEF InPush, Types
<1>3. c \in InPush(g) <=> cpc[c] = "push" /\ citem[c].groupID = g
    BY DEF InPush, Types
<1>4. /\ One(c \in InPush(g)') = PushCount(l, item, g)
      /\ One(c \in InPush(g)) = PushCount(cpc[c], citem[c], g)
    BY <1>2, <1>3 DEF One, PushCount
<1> QED
    BY <1>1, <1>4, GroupSetsFinite, OneElement, Zenon

(* ... and when an item is queued or taken.                                *)
LEMMA AppendCounts ==
    ASSUME Types, NEW item \in Items, NEW g, tasksQ' = Append(tasksQ, item)
    PROVE  Cardinality(InQueue(g)') = Cardinality(InQueue(g)) + One(item.groupID = g)
<1>1. /\ Len(tasksQ) \in Nat /\ DOMAIN tasksQ = 1 .. Len(tasksQ)
      /\ DOMAIN tasksQ' = 1 .. Len(tasksQ) + 1
      /\ tasksQ'[Len(tasksQ) + 1] = item
      /\ \A i \in 1 .. Len(tasksQ) : tasksQ'[i] = tasksQ[i]
    BY AppendProperties DEF Types
<1>2. InQueue(g)' = IF item.groupID = g THEN InQueue(g) \cup {Len(tasksQ) + 1} ELSE InQueue(g)
    BY <1>1 DEF InQueue
<1>3. Len(tasksQ) + 1 \notin InQueue(g)
    BY <1>1 DEF InQueue
<1>4. IsFiniteSet(InQueue(g)) /\ Cardinality(InQueue(g)) \in Nat
    BY GroupSetsFinite
<1>5. CASE item.groupID = g
    BY <1>2, <1>3, <1>4, <1>5, FS_AddElement DEF One
<1>6. CASE item.groupID # g
    BY <1>2, <1>4, <1>6 DEF One
<1> QED
    BY <1>5, <1>6

LEMMA TailCounts ==
    ASSUME Types, NEW g, tasksQ # << >>, tasksQ' = Tail(tasksQ)
    PROVE  Cardinality(InQueue(g)') = Cardinality(InQueue(g)) - One(Head(tasksQ).groupID = g)
<1>1. /\ Len(tasksQ) \in Nat \ {0} /\ DOMAIN tasksQ = 1 .. Len(tasksQ)
      /\ DOMAIN tasksQ' = 1 .. Len(tasksQ) - 1
      /\ Head(tasksQ) = tasksQ[1]
      /\ \A i \in 1 .. Len(tasksQ) - 1 : tasksQ'[i] = tasksQ[i + 1]
    BY HeadTailProperties, EmptySeq DEF Types
<1> DEFINE Rest == InQueue(g) \ {1}
           f == [i \in Rest |-> i - 1]
<1>2. Rest \subseteq 2 .. Len(tasksQ)
    BY <1>1 DEF InQueue
<1>3. f \in Bijection(Rest, InQueue(g)')
    <2>1. f \in Injection(Rest, InQueue(g)')
        <3>1. \A i \in Rest : i - 1 \in InQueue(g)'
            BY <1>1, <1>2 DEF InQueue
        <3>2. f \in [Rest -> InQueue(g)']
            BY <3>1
        <3>3. \A i, j \in Rest : f[i] = f[j] => i = j
            BY <1>2
        <3> QED
            BY <3>2, <3>3, Fun_IsInj, Zenon
    <2>2. \A j \in InQueue(g)' : \E i \in Rest : f[i] = j
        <3> SUFFICES ASSUME NEW j \in InQueue(g)' PROVE j + 1 \in Rest /\ f[j + 1] = j
            OBVIOUS
        <3> QED
            BY <1>1 DEF InQueue
    <2> QED
        BY <2>1, <2>2 DEF Bijection, Surjection, Injection
<1>4. 1 \in InQueue(g) <=> Head(tasksQ).groupID = g
    BY <1>1 DEF InQueue
<1>5. IsFiniteSet(InQueue(g)) /\ Cardinality(InQueue(g)) \in Nat
    BY GroupSetsFinite
<1>6. IsFiniteSet(Rest) /\ Cardinality(Rest) = Cardinality(InQueue(g)) - One(1 \in InQueue(g))
    BY <1>5, FS_RemoveElement DEF One
<1>7. Cardinality(InQueue(g)') = Cardinality(Rest)
    <2>1. ExistsBijection(Rest, InQueue(g)')
        BY <1>3 DEF ExistsBijection
    <2> HIDE DEF Rest
    <2> QED
        BY <2>1, <1>6, FS_Bijection
<1> QED
    BY <1>4, <1>6, <1>7

(* A worker's step that leaves the queue, the clients and the group tables *)
(* alone, and what it owes as it was.                                      *)
LEMMA QuietGroups ==
    ASSUME IInv, GroupInv, NEW w \in Workers, NEW l, NEW item \in Items,
           wpc' = [wpc EXCEPT ![w] = l], cur' = [cur EXCEPT ![w] = item],
           Sound(item), l \in InGroup => item.groupID \in Groups,
           l \in Fired => item.groupID \in activeGroups,
           \A g \in Groups : Owes(l, item, g) <=> Owes(wpc[w], cur[w], g),
           wpc[w] # "callback", l # "callback",
           UNCHANGED <<tasksQ, clients, groups>>
    PROVE  GroupInv'
<1> USE DEF clients, groups, tables
<1>1. wpc \in [Workers -> WorkerLabels] /\ cur \in [Workers -> Items]
    BY DEF IInv, Types, GroupInv, GroupTypes
<1>2. GroupTypes'
    BY <1>1 DEF GroupInv, GroupTypes
<1>3. CallbackLocked'
    BY <1>1 DEF GroupInv, CallbackLocked
<1>4. \A g : InPush(g)' = InPush(g) /\ InQueue(g)' = InQueue(g)
    BY DEF InPush, InQueue
<1>5. \A g \in Groups : AtWorker(g, Owing)' = AtWorker(g, Owing)
    BY <1>1 DEF AtWorker, At, Owes
<1>6. \A g : AtWorker(g, {"callback"})' = AtWorker(g, {"callback"})
    BY <1>1 DEF AtWorker, At
<1>7. GroupCountExact'
    BY <1>4, <1>5 DEF GroupInv, GroupsSound, GroupCountExact, Owing
<1>8. GroupTablesAgree'
    <2>1. \A u \in At(Fired)' : cur'[u].groupID \in activeGroups
        BY <1>1 DEF At, Fired, GroupInv, GroupsSound, GroupTablesAgree
    <2> QED
        BY <1>6, <2>1 DEF Fired, GroupInv, GroupsSound, GroupTablesAgree
<1> QED
    BY <1>2, <1>3, <1>7, <1>8 DEF GroupInv, GroupsSound

(* A step of somebody else, that touches none of it.                       *)
LEMMA UntouchedGroups ==
    ASSUME GroupInv, UNCHANGED <<tasksQ, clients, groups, workers>>
    PROVE  GroupInv'
BY DEF GroupInv, GroupTypes, CallbackLocked, GroupsSound, GroupCountExact, GroupTablesAgree,
       InPush, InQueue, AtWorker, At, clients, groups, tables, workers

(* What holds of the items workers hold; unless memory is read that may    *)
(* hold another item by now, they see no other.                            *)
LEMMA ItemsSound ==
    ASSUME IInv, GroupInv, NEW w \in Workers
    PROVE  /\ cur[w] \in Items /\ Sound(cur[w]) /\ Sound(NoItem) /\ NoItem \in Items
           /\ cur = [cur EXCEPT ![w] = cur[w]]
BY ItemsType DEF GroupInv, GroupTypes, Sound, NoItem, TaskItem

LEMMA SeesItsOwn ==
    ASSUME ~StaleReads, NEW w
    PROVE  SeenItems(w) = {cur[w]} /\ Overwriting(w) = {}
BY DEF SeenItems, Overwriting

(* The same when the worker keeps its item, and goes from label to label.  *)
LEMMA QuietMove ==
    ASSUME IInv, GroupInv, NEW w \in Workers, NEW from, NEW to,
           wpc[w] = from, wpc' = [wpc EXCEPT ![w] = to], cur' = cur,
           to \in InGroup => cur[w].groupID \in Groups,
           to \in Fired => cur[w].groupID \in activeGroups,
           \/ from \in Owing <=> to \in Owing
           \/ cur[w].groupID \notin Groups,
           from # "callback", to # "callback",
           UNCHANGED <<tasksQ, clients, groups>>
    PROVE  GroupInv'
<1>1. cur[w] \in Items /\ Sound(cur[w]) /\ cur' = [cur EXCEPT ![w] = cur[w]]
    BY ItemsSound
<1>2. \A g \in Groups : Owes(to, cur[w], g) <=> Owes(wpc[w], cur[w], g)
    BY DEF Owes
<1> QED
    BY <1>1, <1>2, QuietGroups

QuietForGroups(w) ==
    \/ LoopTop(w) \/ ReadGate(w) \/ AcquirePermit(w) \/ StopCheck(w)
    \/ StartBarrier(w) \/ SeeNoNormalTask(w) \/ EndBarrier(w) \/ LiftBarrier(w)
    \/ StartNormal(w) \/ ReadGroup(w) \/ EndNormal(w) \/ FinishNormal(w)
    \/ SeeGroupActive(w) \/ RunGroupTask(w)

LEMMA QuietGroupStep ==
    ASSUME ~StaleReads, IInv, GroupInv, NEW w \in Workers, QuietForGroups(w)
    PROVE  GroupInv'
<1> USE DEF WorkerGoes, OnlyGoes, Owing, InGroup, Fired, queue
<1>1. CASE LoopTop(w)
    BY <1>1, QuietMove DEF LoopTop
<1>2. CASE ReadGate(w)
    BY <1>2, QuietMove DEF ReadGate
<1>3. CASE AcquirePermit(w)
    BY <1>3, QuietMove DEF AcquirePermit
<1>4. CASE StopCheck(w)
    BY <1>4, QuietMove DEF StopCheck
<1>5. CASE StartBarrier(w)
    <2>1. cur[w].groupID \notin Groups
        <3> SUFFICES ASSUME cur[w].groupID \in Groups PROVE FALSE
            OBVIOUS
        <3>1. cur[w].groupID # NoGroup
            BY NoGroupAssumption
        <3>2. ~cur[w].isBarrier
            BY <3>1, ItemsSound DEF Sound
        <3> QED
            BY <1>5, <3>2, SeesItsOwn DEF StartBarrier
    <2> QED
        BY <1>5, <2>1, QuietMove DEF StartBarrier
<1>6. CASE SeeNoNormalTask(w)
    BY <1>6, QuietMove DEF SeeNoNormalTask
<1>7. CASE EndBarrier(w) \/ EndNormal(w)
    <2>1. PICK l \in {"lift", "finish"} : wpc' = [wpc EXCEPT ![w] = l]
        BY <1>7 DEF EndBarrier, EndNormal
    <2>2. wpc[w] \in {"barrier", "run"} /\ cur' = [cur EXCEPT ![w] = NoItem]
        BY <1>7 DEF EndBarrier, EndNormal, DropTask
    <2>3. UNCHANGED <<tasksQ, clients, groups>>
        BY <1>7 DEF EndBarrier, EndNormal
    <2>4. \A g \in Groups : Owes(l, NoItem, g) <=> Owes(wpc[w], cur[w], g)
        BY <2>1, <2>2 DEF Owes
    <2> QED
        BY <2>1, <2>2, <2>3, <2>4, ItemsSound, QuietGroups
<1>8. CASE LiftBarrier(w)
    BY <1>8, QuietMove DEF LiftBarrier
<1>9. CASE StartNormal(w)
    BY <1>9, QuietMove DEF StartNormal
<1>13. CASE ReadGroup(w)
    <2>1. CASE cur[w].groupID = NoGroup
        <3>1. wpc[w] = "group" /\ wpc' = [wpc EXCEPT ![w] = "run"] /\ cur' = cur
            BY <1>13, <2>1, SeesItsOwn DEF ReadGroup
        <3>2. cur[w].groupID \notin Groups
            BY <2>1, NoGroupAssumption
        <3> QED
            BY <1>13, <3>1, <3>2, QuietMove DEF ReadGroup
    <2>2. CASE cur[w].groupID # NoGroup
        <3>1. cur[w].groupID \in Groups
            BY <2>2, ItemsSound DEF Items
        <3>2. /\ wpc[w] = "group" /\ wpc' = [wpc EXCEPT ![w] = "gwait"]
              /\ cur' = [cur EXCEPT ![w].groupID = cur[w].groupID]
            BY <1>13, <2>2, SeesItsOwn DEF ReadGroup
        <3>3. cur' = cur
            <4>1. cur[w] = [cur[w] EXCEPT !.groupID = cur[w].groupID]
                BY ItemsSound DEF Items
            <4> QED
                BY <3>2, <4>1 DEF GroupInv, GroupTypes
        <3> QED
            BY <1>13, <3>1, <3>2, <3>3, QuietMove DEF ReadGroup
    <2> QED
        BY <2>1, <2>2
<1>10. CASE FinishNormal(w)
    BY <1>10, QuietMove DEF FinishNormal
<1>11. CASE SeeGroupActive(w)
    <2>1. cur[w].groupID \in Groups
        BY <1>11 DEF SeeGroupActive, GroupInv, GroupTypes
    <2> QED
        BY <1>11, <2>1, QuietMove DEF SeeGroupActive
<1>12. CASE RunGroupTask(w)
    <2>1. wpc[w] = "grun" /\ cur[w].groupID \in Groups
        BY <1>12 DEF RunGroupTask, GroupInv, GroupTypes
    <2>2. cur[w].groupID \in activeGroups
        BY <2>1 DEF GroupInv, GroupsSound, GroupTablesAgree, At
    <2> QED
        BY <1>12, <2>1, <2>2, QuietMove DEF RunGroupTask
<1> QED
    BY <1>1, <1>2, <1>3, <1>4, <1>5, <1>6, <1>7, <1>8, <1>9, <1>10, <1>11, <1>12, <1>13
       DEF QuietForGroups

(* A taken task goes from the queue to its worker.                         *)
LEMMA TakeGroups ==
    ASSUME IInv, GroupInv, NEW w \in Workers, TakeTask(w)
    PROVE  GroupInv'
<1> USE DEF WorkerGoes
<1>1. tasksQ # << >>
    BY TakerFinds DEF TakeTask
<1> DEFINE item == Head(tasksQ)
<1>2. /\ wpc[w] = "take" /\ wpc' = [wpc EXCEPT ![w] = "start"]
      /\ tasksQ' = Tail(tasksQ) /\ cur' = [cur EXCEPT ![w] = item]
      /\ UNCHANGED <<clients, groups>>
    BY <1>1 DEF TakeTask, PopFront
<1>3. Types /\ cur \in [Workers -> Items] /\ groupTaskCount \in [Groups -> Nat]
    BY DEF IInv, GroupInv, GroupTypes
<1>4. /\ Len(tasksQ) \in Nat \ {0} /\ Len(tasksQ') = Len(tasksQ) - 1
      /\ item = tasksQ[1] /\ item \in Items
      /\ \A i \in 1 .. Len(tasksQ') : tasksQ'[i] = tasksQ[i + 1]
    BY <1>1, <1>2, <1>3, HeadTailProperties, EmptySeq DEF Types
<1> HIDE DEF item
<1>5. GroupTypes'
    <2>1. Sound(item) /\ \A i \in 1 .. Len(tasksQ') : Sound(tasksQ'[i])
        BY <1>4 DEF GroupInv, GroupTypes
    <2> QED
        BY <1>2, <1>3, <1>4, <2>1 DEF GroupInv, GroupTypes, Types, InGroup, clients, groups, tables
<1>6. CallbackLocked'
    BY <1>2, <1>3 DEF GroupInv, CallbackLocked, Types, groups, tables
<1>7. GroupCountExact'
    <2> SUFFICES ASSUME NEW g \in Groups
                 PROVE  groupTaskCount'[g] = Cardinality(InPush(g)') + Cardinality(InQueue(g)')
                            + Cardinality(AtWorker(g, Owing)')
        BY DEF GroupCountExact, Owing
    <2>1. Cardinality(InQueue(g)') = Cardinality(InQueue(g)) - One(item.groupID = g)
        BY <1>1, <1>2, <1>3, TailCounts DEF item
    <2>2. Cardinality(AtWorker(g, Owing)') = Cardinality(AtWorker(g, Owing))
              + One(Owes("start", item, g)) - One(Owes("take", cur[w], g))
        BY <1>2, <1>3, WorkerCounts DEF WorkerBecomes
    <2>3. One(Owes("start", item, g)) = One(item.groupID = g) /\ One(Owes("take", cur[w], g)) = 0
        BY DEF One, Owes, Owing
    <2>4. One(item.groupID = g) \in Nat
        BY DEF One
    <2>5. InPush(g)' = InPush(g) /\ groupTaskCount'[g] = groupTaskCount[g]
        BY <1>2 DEF InPush, clients, groups, tables
    <2>6. groupTaskCount[g] = Cardinality(InPush(g)) + Cardinality(InQueue(g))
              + Cardinality(AtWorker(g, Owing))
        BY DEF GroupInv, GroupsSound, GroupCountExact, Owing
    <2> QED
        BY <1>3, <2>1, <2>2, <2>3, <2>4, <2>5, <2>6, GroupSetsFinite
<1>8. GroupTablesAgree'
    <2>1. \A g : AtWorker(g, {"callback"})' = AtWorker(g, {"callback"})
        BY <1>2, <1>3 DEF AtWorker, At, Types
    <2>2. \A u \in At(Fired)' : u \in At(Fired) /\ cur'[u] = cur[u]
        BY <1>2, <1>3 DEF At, Fired, Types
    <2> QED
        BY <1>2, <2>1, <2>2 DEF Fired, GroupInv, GroupsSound, GroupTablesAgree, groups, tables
<1> QED
    BY <1>5, <1>6, <1>7, <1>8 DEF GroupInv, GroupsSound

(* A worker counts its task off: what it owed is gone, and the count was   *)
(* not zero.                                                               *)
LEMMA CountsOff ==
    ASSUME IInv, GroupInv, NEW w \in Workers, NEW l \in {"finish", "callback"}, NEW item,
           wpc[w] = "glock", wpc' = [wpc EXCEPT ![w] = l], cur' = [cur EXCEPT ![w] = item],
           groupTaskCount' = [groupTaskCount EXCEPT ![cur[w].groupID] = @ - 1],
           UNCHANGED <<tasksQ, clients>>
    PROVE  /\ cur[w].groupID \in Groups
           /\ groupTaskCount[cur[w].groupID] \in Nat \ {0}
           /\ groupTaskCount' \in [Groups -> Nat]
           /\ GroupCountExact'
<1> DEFINE own == cur[w].groupID
<1>1. Types /\ cur \in [Workers -> Items] /\ groupTaskCount \in [Groups -> Nat]
    BY DEF IInv, GroupInv, GroupTypes
<1>2. own \in Groups
    BY DEF GroupInv, GroupTypes, InGroup
<1> HIDE DEF own
<1>3. ASSUME NEW g \in Groups
      PROVE  groupTaskCount[g] = Cardinality(InPush(g)) + Cardinality(InQueue(g))
                 + Cardinality(AtWorker(g, Owing))
    BY DEF GroupInv, GroupsSound, GroupCountExact, Owing
<1>4. groupTaskCount[own] # 0
    <2>1. AtWorker(own, Owing) # {}
        BY DEF AtWorker, At, Owing, own
    <2>2. Cardinality(AtWorker(own, Owing)) # 0
        BY <1>1, <2>1, GroupSetsFinite, FS_EmptySet
    <2> QED
        BY <1>1, <1>2, <1>3, <2>2, GroupSetsFinite
<1>5. groupTaskCount' \in [Groups -> Nat]
    BY <1>1, <1>2, <1>4 DEF own
<1>6. ASSUME NEW g \in Groups
      PROVE  groupTaskCount'[g] = Cardinality(InPush(g)') + Cardinality(InQueue(g)')
                 + Cardinality(AtWorker(g, Owing)')
    <2>1. Cardinality(AtWorker(g, Owing)') = Cardinality(AtWorker(g, Owing))
              + One(Owes(l, item, g)) - One(Owes("glock", cur[w], g))
        <3>1. WorkerBecomes(w, l, item)
            BY DEF WorkerBecomes
        <3> QED
            BY <1>1, <3>1, WorkerCounts
    <2>2. One(Owes(l, item, g)) = 0 /\ One(Owes("glock", cur[w], g)) = One(own = g)
        BY DEF One, Owes, Owing, own
    <2>3. groupTaskCount'[g] = groupTaskCount[g] - One(own = g)
        BY <1>1, <1>2 DEF One, own
    <2>4. One(own = g) \in Nat
        BY DEF One
    <2>5. InPush(g)' = InPush(g) /\ InQueue(g)' = InQueue(g)
        BY DEF InPush, InQueue, clients
    <2> QED
        BY <1>1, <1>3, <2>1, <2>2, <2>3, <2>4, <2>5, GroupSetsFinite
<1> QED
    BY <1>1, <1>2, <1>4, <1>5, <1>6 DEF GroupCountExact, Owing, own

(* As long as nobody holds _groupOptLock, no callback is running.          *)
LEMMA NoCallback ==
    ASSUME GroupInv, groupLock = Nobody
    PROVE  \A w \in Workers : wpc[w] # "callback"
BY NobodyAssumption DEF GroupInv, CallbackLocked

LEMMA FinishGroupTaskStep ==
    ASSUME IInv, GroupInv, NEW w \in Workers, FinishGroupTask(w)
    PROVE  GroupInv'
<1> USE DEF WorkerGoes, queue, DropTask
<1> DEFINE own == cur[w].groupID
<1>1. /\ own \in Groups /\ groupTaskCount[own] \in Nat \ {0}
      /\ groupTaskCount' \in [Groups -> Nat] /\ GroupCountExact'
    BY CountsOff DEF FinishGroupTask
<1>2. Types /\ cur \in [Workers -> Items] /\ groupTaskCount \in [Groups -> Nat]
    BY DEF IInv, GroupInv, GroupTypes
<1>3. \A u \in Workers : wpc[u] # "callback"
    BY NoCallback DEF FinishGroupTask
<1>4. GroupTypes'
    BY <1>1, <1>2, ItemsSound DEF FinishGroupTask, GroupInv, GroupTypes, Types, InGroup, clients
<1>5. CallbackLocked'
    BY <1>2, <1>3 DEF FinishGroupTask, CallbackLocked, Types
<1>6. GroupTablesAgree'
    <2>1. groupTaskCount[own] > 1
        BY <1>1 DEF FinishGroupTask, IsLast
    <2>2. \A g \in Groups : groupTaskCount'[g] > 0 <=> groupTaskCount[g] > 0
        BY <1>1, <1>2, <2>1 DEF FinishGroupTask
    <2>3. \A g \in activeGroups : g \in Groups /\ groupTaskCount[g] > 0
        BY <1>3 DEF GroupInv, GroupTypes, GroupsSound, GroupTablesAgree, AtWorker, At
    <2>4. \A u \in At(Fired)' : u \in At(Fired) /\ cur'[u] = cur[u]
        BY <1>2 DEF FinishGroupTask, At, Fired, Types
    <2> QED
        BY <2>2, <2>3, <2>4 DEF FinishGroupTask, Fired, GroupInv, GroupsSound, GroupTablesAgree
<1> QED
    BY <1>1, <1>4, <1>5, <1>6 DEF GroupInv, GroupsSound

LEMMA StartCallbackStep ==
    ASSUME IInv, GroupInv, NEW w \in Workers, StartCallback(w)
    PROVE  GroupInv'
<1> USE DEF WorkerGoes, queue
<1> DEFINE own == cur[w].groupID
<1>1. cur' = [cur EXCEPT ![w] = cur[w]]
    BY ItemsSound DEF StartCallback
<1>2. /\ own \in Groups /\ groupTaskCount[own] \in Nat \ {0}
      /\ groupTaskCount' \in [Groups -> Nat] /\ GroupCountExact'
    BY <1>1, CountsOff DEF StartCallback
<1>3. Types /\ cur \in [Workers -> Items] /\ groupTaskCount \in [Groups -> Nat]
    BY DEF IInv, GroupInv, GroupTypes
<1>4. \A u \in Workers : wpc[u] # "callback"
    BY NoCallback DEF StartCallback
<1>5. GroupTypes'
    BY <1>2, <1>3 DEF StartCallback, GroupInv, GroupTypes, Types, InGroup, clients
<1>6. CallbackLocked'
    <2>1. groupTaskCount'[own] = 0
        BY <1>2, <1>3 DEF StartCallback, IsLast
    <2> QED
        BY <2>1, <1>3, <1>4 DEF StartCallback, CallbackLocked, Types
<1>7. GroupTablesAgree'
    <2>1. own \in existGroups
        BY <1>2 DEF GroupInv, GroupsSound, GroupTablesAgree
    <2>2. \A g \in Groups \ {own} : groupTaskCount'[g] = groupTaskCount[g]
        BY <1>3 DEF StartCallback
    <2>3. \A g \in activeGroups : g \in Groups /\ groupTaskCount[g] > 0
        BY <1>3, <1>4 DEF GroupInv, GroupTypes, GroupsSound, GroupTablesAgree, AtWorker, At
    <2>4. w \in AtWorker(own, {"callback"})'
        BY <1>3 DEF StartCallback, Types, AtWorker, At
    <2>5. \A u \in At(Fired)' : u \in At(Fired) /\ cur'[u] = cur[u]
        BY <1>3 DEF StartCallback, At, Fired, Types
    <2> QED
        BY <2>1, <2>2, <2>3, <2>4, <2>5 DEF StartCallback, Fired, GroupInv, GroupsSound, GroupTablesAgree
<1> QED
    BY <1>2, <1>5, <1>6, <1>7 DEF GroupInv, GroupsSound

(* The callback's worker is the only one that runs a callback.             *)
LEMMA EndCallbackStep ==
    ASSUME IInv, GroupInv, NEW w \in Workers, EndCallback(w)
    PROVE  GroupInv'
<1> USE DEF WorkerGoes, queue, DropTask
<1> DEFINE own == cur[w].groupID
<1>1. own \in Groups /\ groupTaskCount[own] = 0
    BY DEF EndCallback, GroupInv, GroupTypes, CallbackLocked, InGroup
<1>2. Types /\ cur \in [Workers -> Items] /\ groupTaskCount \in [Groups -> Nat]
    BY DEF IInv, GroupInv, GroupTypes
<1>3. \A u \in Workers : wpc[u] = "callback" => u = w
    BY DEF EndCallback, GroupInv, CallbackLocked
<1>4. groupTaskCount' = groupTaskCount
    BY <1>1, <1>2 DEF EndCallback, EraseGroup
<1>5. GroupTypes'
    BY <1>2, <1>4, ItemsSound DEF EndCallback, EraseGroup, GroupInv, GroupTypes, Types, InGroup, clients
<1>6. \A u \in Workers : wpc'[u] # "callback"
    BY <1>2, <1>3 DEF EndCallback, Types
<1>7. CallbackLocked'
    BY <1>6 DEF CallbackLocked
<1>8. GroupCountExact'
    <2>1. \A g : InPush(g)' = InPush(g) /\ InQueue(g)' = InQueue(g)
        BY DEF EndCallback, InPush, InQueue, clients
    <2>2. \A g : AtWorker(g, Owing)' = AtWorker(g, Owing)
        BY <1>2 DEF EndCallback, AtWorker, At, Owing, Types
    <2> QED
        BY <1>4, <2>1, <2>2 DEF GroupInv, GroupsSound, GroupCountExact, Owing
<1>9. GroupTablesAgree'
    <2>1. \A g \in activeGroups \ {own} : AtWorker(g, {"callback"}) = {}
        BY <1>3 DEF AtWorker, At
    <2>2. \A u \in At(Fired)' : u \in At(Fired) \ {w} /\ cur'[u] = cur[u]
        BY <1>2 DEF EndCallback, At, Fired, Types
    <2>3. \A u \in At(Fired) \ {w} : cur[u].groupID # own
        <3>1. AtWorker(own, Owing) = {}
            BY <1>1, NoneOwed
        <3> QED
            BY <1>3, <3>1 DEF AtWorker, At, Fired, Owing
    <2> QED
        BY <1>1, <1>4, <2>1, <2>2, <2>3 DEF EndCallback, EraseGroup, Fired, GroupInv, GroupsSound, GroupTablesAgree
<1> QED
    BY <1>5, <1>7, <1>8, <1>9 DEF GroupInv, GroupsSound

LEMMA FinishGroupStep ==
    ASSUME IInv, GroupInv, NEW w \in Workers, FinishGroup(w)
    PROVE  GroupInv'
<1> USE DEF WorkerGoes, queue, DropTask
<1> DEFINE own == cur[w].groupID
<1>1. Types /\ cur \in [Workers -> Items] /\ groupTaskCount \in [Groups -> Nat]
    BY DEF IInv, GroupInv, GroupTypes
<1>2. groupTaskCount' = [groupTaskCount EXCEPT ![own] = @ - 1]
    BY <1>1 DEF FinishGroup, EraseGroup, IsLast
<1>3. /\ own \in Groups /\ groupTaskCount[own] \in Nat \ {0}
      /\ groupTaskCount' \in [Groups -> Nat] /\ GroupCountExact'
    BY <1>2, CountsOff DEF FinishGroup
<1>4. \A u \in Workers : wpc[u] # "callback"
    BY NoCallback DEF FinishGroup
<1>5. GroupTypes'
    BY <1>1, <1>3, ItemsSound DEF FinishGroup, EraseGroup, GroupInv, GroupTypes, Types, InGroup, clients
<1>6. CallbackLocked'
    BY <1>1, <1>4 DEF FinishGroup, CallbackLocked, Types
<1>7. GroupTablesAgree'
    <2>1. \A g \in activeGroups : g \in Groups /\ groupTaskCount[g] > 0
        BY <1>4 DEF GroupInv, GroupTypes, GroupsSound, GroupTablesAgree, AtWorker, At
    <2>2. \A g \in Groups \ {own} : groupTaskCount'[g] = groupTaskCount[g]
        BY <1>1 DEF FinishGroup, EraseGroup
    <2>3. groupTaskCount'[own] = 0
        BY <1>1, <1>3 DEF FinishGroup, EraseGroup
    <2>4. \A u \in At(Fired)' : u \in At(Fired) \ {w} /\ cur'[u] = cur[u]
        BY <1>1 DEF FinishGroup, At, Fired, Types
    <2>5. \A u \in At(Fired) \ {w} : cur[u].groupID # own
        <3>1. Cardinality(AtWorker(own, Owing)) <= 1
            <4>1. groupTaskCount[own] = Cardinality(InPush(own)) + Cardinality(InQueue(own))
                      + Cardinality(AtWorker(own, Owing))
                BY <1>3 DEF GroupInv, GroupsSound, GroupCountExact
            <4>2. groupTaskCount[own] = 1
                BY DEF FinishGroup, IsLast
            <4> HIDE DEF own
            <4> QED
                BY <1>1, <4>1, <4>2, GroupSetsFinite
        <3>2. w \in AtWorker(own, Owing)
            BY DEF FinishGroup, AtWorker, At, Owing
        <3>3. AtWorker(own, Owing) \subseteq {w}
            <4> HIDE DEF own
            <4>1. IsFiniteSet(AtWorker(own, Owing)) /\ Cardinality(AtWorker(own, Owing)) \in Nat
                BY <1>1, GroupSetsFinite
            <4>2. IsFiniteSet(AtWorker(own, Owing) \ {w})
                  /\ Cardinality(AtWorker(own, Owing) \ {w}) = Cardinality(AtWorker(own, Owing)) - 1
                BY <3>2, <4>1, FS_RemoveElement
            <4>3. Cardinality(AtWorker(own, Owing) \ {w}) = 0
                BY <3>1, <4>1, <4>2, FS_CardinalityType
            <4> QED
                BY <4>2, <4>3, FS_EmptySet
        <3> QED
            BY <1>4, <3>3 DEF AtWorker, At, Fired, Owing
    <2> QED
        BY <2>1, <2>2, <2>3, <2>4, <2>5 DEF FinishGroup, EraseGroup, Fired, GroupInv, GroupsSound, GroupTablesAgree
<1> QED
    BY <1>3, <1>5, <1>6, <1>7 DEF GroupInv, GroupsSound

LEMMA WorkerGroupStep ==
    ASSUME ~StaleReads, IInv, GroupInv, NEW w \in Workers, Worker(w)
    PROVE  GroupInv'
BY QuietGroupStep, TakeGroups, FinishGroupTaskStep, StartCallbackStep, EndCallbackStep, FinishGroupStep
   DEF Worker, QuietForGroups

-----------------------------------------------------------------------------
(* A client's step moves no worker; what it pushes, and what it counts, is *)
(* what it comes to owe.                                                   *)
CountFollows(c, l, item) ==
    \A g \in Groups :
        groupTaskCount'[g] =
            groupTaskCount[g] + PushCount(l, item, g) - PushCount(cpc[c], citem[c], g)
                + (Cardinality(InQueue(g)') - Cardinality(InQueue(g)))

LEMMA ClientMoves ==
    ASSUME IInv, IInv', GroupInv, NEW c \in Clients, NEW l, NEW item,
           ClientBecomes(c, l, item),
           l = "push" => Sound(item),
           groupTaskCount' \in [Groups -> Nat], activeGroups' \subseteq Groups,
           \A i \in 1 .. Len(tasksQ') : Sound(tasksQ'[i]),
           CountFollows(c, l, item),
           UNCHANGED workers
    PROVE  GroupTypes' /\ GroupCountExact'
<1> USE DEF workers
<1>1. Types /\ cur \in [Workers -> Items] /\ groupTaskCount \in [Groups -> Nat] /\ Types'
    BY DEF IInv, GroupInv, GroupTypes
<1>2. GroupTypes'
    BY <1>1 DEF GroupInv, GroupTypes, Types, ClientBecomes
<1>3. ASSUME NEW g \in Groups
      PROVE  groupTaskCount'[g] = Cardinality(InPush(g)') + Cardinality(InQueue(g)')
                 + Cardinality(AtWorker(g, Owing)')
    <2>1. groupTaskCount[g] = Cardinality(InPush(g)) + Cardinality(InQueue(g))
              + Cardinality(AtWorker(g, Owing))
        BY DEF GroupInv, GroupsSound, GroupCountExact, Owing
    <2>2. Cardinality(InPush(g)') = Cardinality(InPush(g))
              + PushCount(l, item, g) - PushCount(cpc[c], citem[c], g)
        BY <1>1, ClientCounts
    <2>3. AtWorker(g, Owing)' = AtWorker(g, Owing)
        BY DEF AtWorker, At
    <2>4. groupTaskCount[g] \in Nat /\ groupTaskCount'[g] \in Nat
        BY <1>1
    <2>5. PushCount(l, item, g) \in Nat /\ PushCount(cpc[c], citem[c], g) \in Nat
        BY DEF One, PushCount
    <2>6. Cardinality(InQueue(g)') \in Nat
        <3>1. Len(tasksQ') \in Nat /\ DOMAIN tasksQ' = 1 .. Len(tasksQ')
            BY <1>1 DEF Types
        <3>2. IsFiniteSet(1 .. Len(tasksQ')) /\ InQueue(g)' \in SUBSET (1 .. Len(tasksQ'))
            BY <3>1, FS_Interval DEF InQueue
        <3> QED
            BY <3>2, FS_Subset, FS_CardinalityType
    <2>7. groupTaskCount'[g] =
              groupTaskCount[g] + PushCount(l, item, g) - PushCount(cpc[c], citem[c], g)
                  + (Cardinality(InQueue(g)') - Cardinality(InQueue(g)))
        BY DEF CountFollows
    <2>8. /\ Cardinality(InPush(g)) \in Nat /\ Cardinality(InQueue(g)) \in Nat
          /\ Cardinality(AtWorker(g, Owing)) \in Nat
        BY <1>1, GroupSetsFinite
    <2>9. Cardinality(AtWorker(g, Owing)') = Cardinality(AtWorker(g, Owing))
        BY <2>3
    <2>10. groupTaskCount'[g] =
               groupTaskCount[g] + (Cardinality(InPush(g)') - Cardinality(InPush(g)))
                   + (Cardinality(InQueue(g)') - Cardinality(InQueue(g)))
        <3> DEFINE more == PushCount(l, item, g)
                   less == PushCount(cpc[c], citem[c], g)
        <3>1. more \in Nat /\ less \in Nat /\ Cardinality(InPush(g)') = Cardinality(InPush(g)) + more - less
            BY <2>2, <2>4, <2>5
        <3>2. groupTaskCount'[g] =
                  groupTaskCount[g] + more - less + (Cardinality(InQueue(g)') - Cardinality(InQueue(g)))
            BY <2>7
        <3> HIDE DEF more, less
        <3>3. groupTaskCount[g] \in Nat
            BY <1>1
        <3> QED
            BY <2>6, <2>8, <3>1, <3>2, <3>3
    <2>11. Cardinality(InPush(g)') \in Int
        BY <2>2, <2>4, <2>5, <2>8
    <2> QED
        BY <2>1, <2>6, <2>8, <2>9, <2>10, <2>11
<1> QED
    BY <1>2, <1>3 DEF GroupCountExact, Owing

LEMMA ClientGroupStep ==
    ASSUME IInv, IInv', GroupInv, NEW c \in Clients, Client(c)
    PROVE  GroupInv'
<1> USE DEF ClientGoes, queue, groups, tables
<1>1. /\ Types /\ cur \in [Workers -> Items] /\ groupTaskCount \in [Groups -> Nat]
      /\ activeGroups \subseteq Groups /\ citem[c] \in Items
      /\ \A i \in 1 .. Len(tasksQ) : Sound(tasksQ[i])
    BY DEF IInv, GroupInv, GroupTypes, Types
<1>2. UNCHANGED workers => /\ \A g : AtWorker(g, {"callback"})' = AtWorker(g, {"callback"})
                           /\ At({"grun", "glock", "callback"})' = At({"grun", "glock", "callback"})
                           /\ cur' = cur
    BY DEF AtWorker, At, workers
<1>3. ASSUME UNCHANGED workers, UNCHANGED groupTaskCount \/ groupLock = Nobody,
             groupLock' = groupLock \/ groupLock = Nobody \/ groupLock = c
      PROVE  CallbackLocked'
    BY <1>3, NoCallback, NobodyAssumption DEF GroupInv, CallbackLocked, workers
<1>4. ASSUME UNCHANGED <<existGroups, activeGroups, groupTaskCount, groupCallback>>, UNCHANGED workers
      PROVE  GroupTablesAgree'
    BY <1>2, <1>4 DEF GroupInv, GroupsSound, GroupTablesAgree
(* A task is queued, counted or not.                                       *)
<1>5. ASSUME NEW item \in Items, Sound(item), UNCHANGED <<tables, workers>>,
             cpc[c] \in {"idle", "push"},
             cpc[c] = "push" => item.groupID = citem[c].groupID,
             cpc[c] = "idle" => item.groupID = NoGroup,
             cpc' = [cpc EXCEPT ![c] = "release"], citem' = [citem EXCEPT ![c] = NoItem],
             tasksQ' = Append(tasksQ, item),
             groupLock' = groupLock \/ groupLock = Nobody
      PROVE  GroupInv'
    <2>1. \A i \in 1 .. Len(tasksQ') : Sound(tasksQ'[i])
        <3>1. /\ Len(tasksQ') = Len(tasksQ) + 1 /\ tasksQ'[Len(tasksQ) + 1] = item
              /\ \A i \in 1 .. Len(tasksQ) : tasksQ'[i] = tasksQ[i]
            BY <1>1, <1>5, AppendProperties DEF Types
        <3> QED
            BY <1>1, <1>5, <3>1 DEF Types
    <2>2. ASSUME NEW g \in Groups
          PROVE  groupTaskCount'[g] =
                     groupTaskCount[g] + PushCount("release", NoItem, g) - PushCount(cpc[c], citem[c], g)
                         + (Cardinality(InQueue(g)') - Cardinality(InQueue(g)))
        <3>1. Cardinality(InQueue(g)') = Cardinality(InQueue(g)) + One(item.groupID = g)
            BY <1>1, <1>5, AppendCounts
        <3>2. PushCount("release", NoItem, g) = 0
            BY DEF PushCount, One
        <3>3. PushCount(cpc[c], citem[c], g) = One(item.groupID = g)
            BY <1>5, NoGroupAssumption DEF PushCount, One
        <3>4. PushCount(cpc[c], citem[c], g) \in Nat
            BY DEF PushCount, One
        <3>5. groupTaskCount[g] \in Nat /\ groupTaskCount'[g] = groupTaskCount[g]
            BY <1>1, <1>5
        <3>6. Cardinality(InQueue(g)) \in Nat
            BY <1>1, GroupSetsFinite
        <3>7. Cardinality(InQueue(g)') = Cardinality(InQueue(g)) + PushCount(cpc[c], citem[c], g)
            BY <3>1, <3>3
        <3> QED
            BY <3>2, <3>4, <3>5, <3>6, <3>7
    <2>3. GroupTypes' /\ GroupCountExact'
        <3>1. ClientBecomes(c, "release", NoItem)
            BY <1>5 DEF ClientBecomes
        <3>2. CountFollows(c, "release", NoItem)
            BY <2>2 DEF CountFollows
        <3>3. /\ groupTaskCount' \in [Groups -> Nat] /\ activeGroups' \subseteq Groups
              /\ UNCHANGED workers
            BY <1>1, <1>5
        <3> QED
            BY <2>1, <3>1, <3>2, <3>3, ClientMoves
    <2> QED
        BY <1>3, <1>4, <1>5, <2>3 DEF GroupInv, GroupsSound
<1>6. ASSUME NEW t \in Tasks, Enqueue(c, t) \/ EnqueueBarrier(c, t) PROVE GroupInv'
    <2>1. PICK b \in BOOLEAN : tasksQ' = Append(tasksQ, TaskItem(t, NoGroup, b))
        BY <1>6 DEF Enqueue, EnqueueBarrier, Push
    <2>2. TaskItem(t, NoGroup, b) \in Items /\ Sound(TaskItem(t, NoGroup, b))
          /\ TaskItem(t, NoGroup, b).groupID = NoGroup
        BY DEF TaskItem, Items, Sound
    <2> QED
        BY <1>5, <1>6, <2>1, <2>2 DEF Enqueue, EnqueueBarrier
<1>7. ASSUME NEW t \in Tasks, NEW g \in Groups, EnqueueGroupAsNormal(c, t, g) PROVE GroupInv'
    <2>1. TaskItem(t, NoGroup, FALSE) \in Items /\ Sound(TaskItem(t, NoGroup, FALSE))
          /\ TaskItem(t, NoGroup, FALSE).groupID = NoGroup
        BY DEF TaskItem, Items, Sound
    <2> QED
        BY <1>5, <1>7, <2>1 DEF EnqueueGroupAsNormal, Push
<1>8. ASSUME PushGroupTask(c) PROVE GroupInv'
    <2>1. Sound(citem[c])
        BY <1>8 DEF PushGroupTask, GroupInv, GroupTypes
    <2> QED
        BY <1>1, <1>5, <1>8, <2>1 DEF PushGroupTask, Push
(* A task is counted, before it is queued.                                 *)
<1>9. ASSUME NEW t \in Tasks, NEW g0 \in Groups, EnqueueGroup(c, t, g0) PROVE GroupInv'
    <2>0. PICK item : item = TaskItem(t, g0, FALSE)
        OBVIOUS
    <2>1. Sound(item) /\ item.groupID = g0
        BY <1>9, <2>0 DEF EnqueueGroup, TaskItem, Sound
    <2>2. groupTaskCount' \in [Groups -> Nat]
        BY <1>1, <1>9 DEF EnqueueGroup, CountTask
    <2>3. ASSUME NEW g \in Groups
          PROVE  groupTaskCount'[g] =
                     groupTaskCount[g] + PushCount("push", item, g) - PushCount(cpc[c], citem[c], g)
                         + (Cardinality(InQueue(g)') - Cardinality(InQueue(g)))
        <3>1. PushCount("push", item, g) = One(g0 = g) /\ PushCount(cpc[c], citem[c], g) = 0
            BY <1>9, <2>1 DEF EnqueueGroup, PushCount, One
        <3>2. InQueue(g)' = InQueue(g)
            BY <1>9 DEF EnqueueGroup, InQueue
        <3>3. groupTaskCount'[g] = groupTaskCount[g] + One(g0 = g)
            BY <1>1, <1>9 DEF EnqueueGroup, CountTask, One
        <3>4. Cardinality(InQueue(g)) \in Nat /\ groupTaskCount[g] \in Nat /\ groupTaskCount'[g] \in Nat
            BY <1>1, <2>2, GroupSetsFinite
        <3>5. PushCount("push", item, g) \in Nat
            BY DEF PushCount, One
        <3>6. groupTaskCount'[g] = groupTaskCount[g] + PushCount("push", item, g)
            BY <3>1, <3>3
        <3>7. Cardinality(InQueue(g)') = Cardinality(InQueue(g)) /\ PushCount(cpc[c], citem[c], g) = 0
            BY <3>1, <3>2
        <3> QED
            BY <3>4, <3>5, <3>6, <3>7
    <2>4. GroupTypes' /\ GroupCountExact'
        <3>1. /\ cpc' = [cpc EXCEPT ![c] = "push"] /\ citem' = [citem EXCEPT ![c] = item]
              /\ UNCHANGED workers /\ tasksQ' = tasksQ /\ activeGroups' = activeGroups
            BY <1>9, <2>0 DEF EnqueueGroup
        <3>2. \A i \in 1 .. Len(tasksQ') : Sound(tasksQ'[i])
            BY <1>1, <3>1
        <3>3. activeGroups' \subseteq Groups
            BY <1>1, <3>1
        <3>4. "push" = "push" => Sound(item)
            BY <2>1
        <3> QED
            <4>1. ClientBecomes(c, "push", item) /\ CountFollows(c, "push", item)
                BY <2>3, <3>1 DEF ClientBecomes, CountFollows
            <4> QED
                BY <2>2, <3>1, <3>2, <3>3, <3>4, <4>1, ClientMoves
    <2>5. CallbackLocked'
        BY <1>3, <1>9 DEF EnqueueGroup
    <2>6. GroupTablesAgree'
        <3>1. \A g \in Groups \ {g0} : groupTaskCount'[g] = groupTaskCount[g]
            BY <1>1, <1>9 DEF EnqueueGroup, CountTask
        <3>2. g0 \in existGroups \ activeGroups
            BY <1>9 DEF EnqueueGroup, TakesTasks
        <3> QED
            BY <1>1, <1>2, <1>9, <3>1, <3>2 DEF EnqueueGroup, GroupInv, GroupsSound, GroupTablesAgree
    <2> QED
        BY <2>4, <2>5, <2>6 DEF GroupInv, GroupsSound
(* Nothing is counted or queued.                                           *)
<1>10. ASSUME NEW l \in {"idle", "fire"}, NEW item, cpc[c] # "push",
              cpc' = [cpc EXCEPT ![c] = l], citem' = [citem EXCEPT ![c] = item],
              activeGroups' \subseteq Groups, UNCHANGED <<tasksQ, groupTaskCount, workers>>
       PROVE  GroupTypes' /\ GroupCountExact'
    <2>1. ASSUME NEW g \in Groups
          PROVE  groupTaskCount'[g] =
                     groupTaskCount[g] + PushCount(l, item, g) - PushCount(cpc[c], citem[c], g)
                         + (Cardinality(InQueue(g)') - Cardinality(InQueue(g)))
        <3>1. PushCount(l, item, g) = 0 /\ PushCount(cpc[c], citem[c], g) = 0
            BY <1>10 DEF PushCount, One
        <3>2. Cardinality(InQueue(g)') = Cardinality(InQueue(g)) /\ Cardinality(InQueue(g)) \in Nat
            BY <1>1, <1>10, GroupSetsFinite DEF InQueue
        <3>3. groupTaskCount'[g] = groupTaskCount[g] /\ groupTaskCount[g] \in Nat
            BY <1>1, <1>10
        <3> QED
            BY <3>1, <3>2, <3>3
    <2>2. \A i \in 1 .. Len(tasksQ') : Sound(tasksQ'[i])
        BY <1>1, <1>10
    <2>3. l # "push" /\ groupTaskCount' \in [Groups -> Nat] /\ UNCHANGED workers
        BY <1>1, <1>10
    <2>4. ClientBecomes(c, l, item) /\ CountFollows(c, l, item)
        BY <1>10, <2>1 DEF ClientBecomes, CountFollows
    <2> QED
        BY <1>10, <2>2, <2>3, <2>4, ClientMoves
<1>11. ASSUME NEW g \in Groups, NEW f \in FireArguments, SetCallbackForGroup(c, g, f) PROVE GroupInv'
    <2> DEFINE Goes(l, item) ==
                   cpc' = [cpc EXCEPT ![c] = l] /\ citem' = [citem EXCEPT ![c] = item]
    <2>0. PICK l \in {"idle", "fire"} : \E item : Goes(l, item)
        BY <1>11 DEF SetCallbackForGroup
    <2>1. PICK item : Goes(l, item)
        BY <2>0
    <2>2. cpc[c] # "push"
        BY <1>11 DEF SetCallbackForGroup
    <2>3. GroupTypes' /\ GroupCountExact'
        BY <1>1, <1>10, <1>11, <2>1, <2>2 DEF SetCallbackForGroup
    <2>4. CallbackLocked'
        BY <1>3, <1>11 DEF SetCallbackForGroup
    <2>5. GroupTablesAgree'
        BY <1>2, <1>11 DEF SetCallbackForGroup, GroupInv, GroupsSound, GroupTablesAgree
    <2> QED
        BY <2>3, <2>4, <2>5 DEF GroupInv, GroupsSound
<1>12. ASSUME NEW g \in Groups, FireGroup(c, g) PROVE GroupInv'
    <2>1. GroupTypes' /\ GroupCountExact'
        BY <1>1, <1>10, <1>12 DEF FireGroup
    <2>2. CallbackLocked'
        BY <1>3, <1>12 DEF FireGroup
    <2>3. GroupTablesAgree'
        <3>1. groupTaskCount[g] > 0
            BY <1>1, <1>12 DEF FireGroup, Fires
        <3>2. activeGroups' = activeGroups \cup {g} /\ UNCHANGED <<existGroups, groupTaskCount, groupCallback, workers>>
            BY <1>12 DEF FireGroup
        <3> QED
            BY <1>2, <3>1, <3>2 DEF GroupInv, GroupsSound, GroupTablesAgree
    <2> QED
        BY <2>1, <2>2, <2>3 DEF GroupInv, GroupsSound
<1>13. ASSUME GetGroupId(c) PROVE GroupInv'
    <2>1. /\ UNCHANGED <<workers, groupTaskCount, activeGroups, groupCallback, groupLock, tasksQ, cpc, citem>>
          /\ existGroups \subseteq existGroups'
        BY <1>13 DEF GetGroupId, clients
    <2>2. GroupTypes' /\ CallbackLocked'
        BY <2>1 DEF GroupInv, GroupTypes, CallbackLocked, workers
    <2>3. GroupCountExact'
        BY <2>1 DEF GroupInv, GroupsSound, GroupCountExact, InPush, InQueue, AtWorker, At, workers
    <2>4. GroupTablesAgree'
        BY <1>2, <2>1 DEF GroupInv, GroupsSound, GroupTablesAgree
    <2> QED
        BY <2>2, <2>3, <2>4 DEF GroupInv, GroupsSound
<1>14. ASSUME Release(c) PROVE GroupInv'
    <2>1. GroupTypes' /\ GroupCountExact'
        BY <1>1, <1>10, <1>14 DEF Release
    <2>2. CallbackLocked'
        BY <1>3, <1>14 DEF Release
    <2>3. GroupTablesAgree'
        BY <1>4, <1>14 DEF Release
    <2> QED
        BY <2>1, <2>2, <2>3 DEF GroupInv, GroupsSound
<1> QED
    BY <1>6, <1>7, <1>8, <1>9, <1>11, <1>12, <1>13, <1>14 DEF Client

-----------------------------------------------------------------------------
LEMMA GroupInit == Init => GroupInv
<1> SUFFICES ASSUME Init PROVE GroupInv
    OBVIOUS
<1>1. GroupTypes /\ CallbackLocked
    BY ItemsType DEF Init, GroupTypes, CallbackLocked, Sound, NoItem, TaskItem, InGroup
<1>2. \A g : InPush(g) = {} /\ InQueue(g) = {} /\ AtWorker(g, Owing) = {}
    BY DEF Init, InPush, InQueue, AtWorker, At, Owing
<1>3. Cardinality({}) = 0
    BY FS_EmptySet
<1>4. GroupCountExact
    <2> SUFFICES ASSUME NEW g \in Groups
                 PROVE  groupTaskCount[g] = Cardinality(InPush(g)) + Cardinality(InQueue(g))
                            + Cardinality(AtWorker(g, Owing))
        BY DEF GroupCountExact, Owing
    <2>1. groupTaskCount[g] = 0
        BY DEF Init
    <2>2. Cardinality(InPush(g)) = 0 /\ Cardinality(InQueue(g)) = 0 /\ Cardinality(AtWorker(g, Owing)) = 0
        BY <1>2, <1>3
    <2> QED
        BY <2>1, <2>2
<1>5. GroupTablesAgree
    <2>1. At({"grun", "glock", "callback"}) = {}
        BY DEF Init, At
    <2> QED
        BY <2>1 DEF Init, GroupTablesAgree
<1> QED
    BY <1>1, <1>4, <1>5 DEF GroupInv, GroupsSound

LEMMA GroupStep == ~StaleReads /\ IInv /\ IInv' /\ GroupInv /\ [Next]_vars => GroupInv'
<1> SUFFICES ASSUME ~StaleReads, IInv, IInv', GroupInv, [Next]_vars PROVE GroupInv'
    OBVIOUS
<1>1. CASE Destructor
    <2>1. UNCHANGED <<tasksQ, clients, groups, workers>>
        BY <1>1 DEF Destructor, Stop, WakeAll, Join, queue
    <2> QED
        BY <2>1, UntouchedGroups
<1>2. CASE UNCHANGED vars
    BY <1>2, UntouchedGroups DEF vars, queue
<1> QED
    BY <1>1, <1>2, ClientGroupStep, WorkerGroupStep DEF Next

LEMMA GroupInvariant == ~StaleReads => (Spec => []GroupInv)
<1> SUFFICES ASSUME ~StaleReads PROVE Spec => []GroupInv
    OBVIOUS
<1>1. IInv /\ IInv' /\ GroupInv /\ [Next]_vars => GroupInv'
    BY GroupStep
<1> QED
    BY <1>1, Invariant, GroupInit, PTL DEF Spec

(* However the clients that count and queue, the workers that take, run    *)
(* and count off, and those that fire and erase groups interleave: the     *)
(* count of a group is the number of its tasks still to end, the tables of *)
(* groups agree, a fired group has a task left to end it, and stays fired  *)
(* while one that saw it fired runs.  All of it as long as a popped item   *)
(* reads as it was; with stale reads it is false.                          *)
THEOREM GroupsSoundHolds == ~StaleReads => (Spec => []GroupsSound)
<1> SUFFICES ASSUME ~StaleReads PROVE Spec => []GroupsSound
    OBVIOUS
<1>1. GroupInv => GroupsSound
    BY DEF GroupInv
<1> QED
    BY <1>1, GroupInvariant, PTL

(* While the callback of a group runs, none of the group's tasks is with a *)
(* client, in the queue or with a worker, for any number of tasks, groups  *)
(* and threads; as long as a popped item reads as it was: with stale reads *)
(* a callback may run beside a task of its group.                          *)
THEOREM CallbackAfterAllTasksHolds == ~StaleReads => (Spec => []CallbackAfterAllTasks)
<1> SUFFICES ASSUME ~StaleReads PROVE Spec => []CallbackAfterAllTasks
    OBVIOUS
<1>1. IInv /\ GroupInv => CallbackAfterAllTasks
    <2> SUFFICES ASSUME IInv, GroupInv, NEW w \in Workers, wpc[w] = "callback",
                        NEW g, g = cur[w].groupID
                 PROVE  InPush(g) = {} /\ InQueue(g) = {} /\ AtWorker(g, Owing) = {}
        BY DEF CallbackAfterAllTasks, At
    <2>1. g \in Groups /\ groupTaskCount[g] = 0
        BY DEF GroupInv, GroupTypes, CallbackLocked, InGroup
    <2> QED
        BY <2>1, NoneOwed
<1> QED
    BY <1>1, Invariant, GroupInvariant, PTL

-----------------------------------------------------------------------------
(* The task pool.                                                          *)

Queued == {tasksQ[i].func : i \in DOMAIN tasksQ}
Pushed == {pushed[i] : i \in DOMAIN pushed}
Taken == {cur[w].func : w \in At(Held)}
Pending == [i \in DOMAIN tasksQ |-> tasksQ[i].func]

(* A task is in one place at most: with the client that is to queue it, in *)
(* the queue, with one worker, or done.                                    *)
OnePlace ==
    /\ \A i, j \in DOMAIN tasksQ : tasksQ[i].func = tasksQ[j].func => i = j
    /\ \A u, w \in At(Held) : cur[u].func = cur[w].func => u = w
    /\ \A c, d \in Clients :
           cpc[c] = "push" /\ cpc[d] = "push" /\ citem[c].func = citem[d].func => c = d
    /\ Queued \cap Taken = {} /\ Queued \cap done = {} /\ Taken \cap done = {}

(* Only tasks are queued, and what is queued, taken or done was pushed.    *)
PoolInv ==
    /\ cur \in [Workers -> Items]
    /\ pushed \in Seq(Tasks)
    /\ Queued \cup Taken \cup done \subseteq Pushed
    /\ \A c \in Clients : cpc[c] = "push" => citem[c].func \in Tasks \ Pushed
    /\ OnePlace

(* Where another item may be read, no item has a group.                    *)
NoGroupRead ==
    StaleReads =>
        /\ \A i \in DOMAIN tasksQ : tasksQ[i].groupID = NoGroup
        /\ \A w \in Workers : cur[w].groupID = NoGroup /\ wpc[w] \notin InGroup
        /\ \A c \in Clients : cpc[c] # "push"

LEMMA NoGroupReadStep ==
    ASSUME IInv, PoolInv, StaleReads => GroupTasks = {}, NoGroupRead, [Next]_vars
    PROVE  NoGroupRead'
<1> SUFFICES ASSUME StaleReads PROVE NoGroupRead'
    BY DEF NoGroupRead
<1>1. /\ wpc \in [Workers -> WorkerLabels] /\ cur \in [Workers -> Items] /\ tasksQ \in Seq(Items)
      /\ cpc \in [Clients -> {"idle", "push", "release", "fire"}]
    BY DEF IInv, Types, PoolInv
<1>2. /\ \A i \in DOMAIN tasksQ : tasksQ[i].groupID = NoGroup
      /\ \A w \in Workers : cur[w].groupID = NoGroup /\ wpc[w] \notin InGroup
      /\ \A c \in Clients : cpc[c] # "push"
    BY DEF NoGroupRead
<1>3. NoItem.groupID = NoGroup
    BY DEF NoItem, TaskItem
<1>4. ASSUME NEW c \in Clients, Client(c) PROVE NoGroupRead'
    <2> USE DEF ClientGoes
    <2>1. ASSUME NEW t, NEW b, tasksQ' = Append(tasksQ, TaskItem(t, NoGroup, b)), UNCHANGED workers,
                 cpc' = [cpc EXCEPT ![c] = "release"]
          PROVE  NoGroupRead'
        <3>1. PICK item : item = TaskItem(t, NoGroup, b)
            OBVIOUS
        <3>2. item.groupID = NoGroup /\ tasksQ' = Append(tasksQ, item)
            BY <2>1, <3>1 DEF TaskItem
        <3>3. \A i \in DOMAIN tasksQ' : tasksQ'[i] = item \/ (i \in DOMAIN tasksQ /\ tasksQ'[i] = tasksQ[i])
            BY <1>1, <3>2
        <3> QED
            BY <1>1, <1>2, <2>1, <3>2, <3>3 DEF NoGroupRead, workers
    <2>2. ASSUME NEW l \in {"idle", "fire"}, cpc' = [cpc EXCEPT ![c] = l] \/ cpc' = cpc,
                 UNCHANGED <<tasksQ, workers>>
          PROVE  NoGroupRead'
        BY <1>1, <1>2, <2>2 DEF NoGroupRead, workers
    <2>3. ASSUME NEW t \in Tasks, Enqueue(c, t) \/ EnqueueBarrier(c, t)
                     \/ \E g \in Groups : EnqueueGroupAsNormal(c, t, g)
          PROVE  NoGroupRead'
        BY <2>1, <2>3 DEF Enqueue, EnqueueBarrier, EnqueueGroupAsNormal, Push
    <2>4. ASSUME NEW t \in Tasks, NEW g \in Groups, EnqueueGroup(c, t, g) PROVE FALSE
        BY <2>4 DEF EnqueueGroup
    <2>5. ASSUME PushGroupTask(c) PROVE FALSE
        BY <1>2, <2>5 DEF PushGroupTask
    <2>6. ASSUME NEW g \in Groups, NEW f \in FireArguments, SetCallbackForGroup(c, g, f)
          PROVE  NoGroupRead'
        <3>1. PICK l \in {"idle", "fire"} : cpc' = [cpc EXCEPT ![c] = l]
            BY <2>6 DEF SetCallbackForGroup
        <3> QED
            BY <2>2, <2>6, <3>1 DEF SetCallbackForGroup, queue
    <2>7. ASSUME NEW g \in Groups, FireGroup(c, g) PROVE NoGroupRead'
        BY <2>2, <2>7 DEF FireGroup, queue
    <2>8. ASSUME GetGroupId(c) \/ Release(c) PROVE NoGroupRead'
        BY <2>2, <2>8 DEF GetGroupId, Release, queue, clients
    <2> QED
        BY <1>4, <2>3, <2>4, <2>5, <2>6, <2>7, <2>8 DEF Client
<1>5. ASSUME NEW w \in Workers, Worker(w) PROVE NoGroupRead'
    <2> USE DEF WorkerGoes, OnlyGoes, InGroup
    <2>1. ASSUME NEW l \in WorkerLabels \ InGroup, wpc' = [wpc EXCEPT ![w] = l],
                 cur' = cur \/ cur' = [cur EXCEPT ![w] = NoItem], UNCHANGED <<tasksQ, clients>>
          PROVE  NoGroupRead'
        BY <1>1, <1>2, <1>3, <2>1 DEF NoGroupRead, clients
    <2>2. CASE LoopTop(w) \/ ReadGate(w) \/ AcquirePermit(w) \/ StopCheck(w)
        BY <2>1, <2>2 DEF LoopTop, ReadGate, AcquirePermit, StopCheck, WorkerLabels, queue
    <2>3. CASE StartBarrier(w) \/ SeeNoNormalTask(w) \/ LiftBarrier(w) \/ StartNormal(w) \/ FinishNormal(w)
        BY <2>1, <2>3 DEF StartBarrier, SeeNoNormalTask, LiftBarrier, StartNormal, FinishNormal,
           WorkerLabels, queue
    <2>4. CASE EndBarrier(w) \/ EndNormal(w)
        BY <2>1, <2>4 DEF EndBarrier, EndNormal, DropTask, WorkerLabels, queue
    <2>5. CASE TakeTask(w)
        <3>1. tasksQ # << >>
            BY <2>5, TakerFinds DEF TakeTask
        <3>2. /\ wpc' = [wpc EXCEPT ![w] = "start"] /\ tasksQ' = Tail(tasksQ)
              /\ cur' = [cur EXCEPT ![w] = Head(tasksQ)] /\ UNCHANGED clients
            BY <2>5, <3>1 DEF TakeTask, PopFront
        <3>3. /\ Head(tasksQ) = tasksQ[1] /\ 1 \in DOMAIN tasksQ
              /\ \A i \in DOMAIN tasksQ' : i + 1 \in DOMAIN tasksQ /\ tasksQ'[i] = tasksQ[i + 1]
            BY <1>1, <3>1, <3>2
        <3> QED
            BY <1>1, <1>2, <3>2, <3>3 DEF NoGroupRead, clients
    <2>6. CASE ReadGroup(w)
        <3>1. \A item \in SeenItems(w) : item.groupID = NoGroup
            BY <1>2 DEF SeenItems, Overwriting, QueuedSince
        <3>2. wpc' = [wpc EXCEPT ![w] = "run"] /\ cur' = cur
            BY <2>6, <3>1 DEF ReadGroup
        <3> QED
            BY <2>1, <2>6, <3>2 DEF ReadGroup, WorkerLabels, queue
    <2>7. CASE SeeGroupActive(w) \/ RunGroupTask(w) \/ FinishGroupTask(w)
        BY <1>2, <2>7 DEF SeeGroupActive, RunGroupTask, FinishGroupTask
    <2>8. CASE StartCallback(w) \/ EndCallback(w) \/ FinishGroup(w)
        BY <1>2, <2>8 DEF StartCallback, EndCallback, FinishGroup
    <2> QED
        BY <1>5, <2>2, <2>3, <2>4, <2>5, <2>6, <2>7, <2>8 DEF Worker
<1>6. ASSUME Destructor \/ UNCHANGED vars PROVE NoGroupRead'
    <2>1. UNCHANGED <<tasksQ, clients, workers>>
        BY <1>6 DEF Destructor, Stop, WakeAll, Join, vars, queue
    <2> QED
        BY <1>2, <2>1 DEF NoGroupRead, clients, workers
<1> QED
    BY <1>4, <1>5, <1>6 DEF Next

LEMMA PoolInit == Init => PoolInv /\ Pool!Init
<1> SUFFICES ASSUME Init PROVE PoolInv /\ Pool!Init
    OBVIOUS
<1>1. At(Held) = {}
    BY DEF Init, At, Held
<1>2. Queued = {} /\ Taken = {} /\ Pushed = {} /\ done = {} /\ Pending = << >>
    BY <1>1 DEF Init, Queued, Taken, Pushed, Pending
<1>3. cur \in [Workers -> Items] /\ pushed \in Seq(Tasks)
    BY ItemsType DEF Init
<1>4. PoolInv
    BY <1>1, <1>2, <1>3 DEF Init, PoolInv, OnePlace
<1>5. Pool!Init
    BY <1>2 DEF Pool!Init, Pending, Taken, Held
<1> QED
    BY <1>4, <1>5

(* A worker moves, and holds what it held, or nothing.                     *)
LEMMA PoolMove ==
    ASSUME IInv, PoolInv, NEW w \in Workers, NEW l, NEW item \in Items,
           wpc' = [wpc EXCEPT ![w] = l], cur' = [cur EXCEPT ![w] = item],
           wpc[w] \in Held <=> l \in Held,
           l \in Held => item = cur[w],
           UNCHANGED <<tasksQ, pushed, clients, done>>
    PROVE  PoolInv' /\ UNCHANGED <<Pending, Taken, done>>
<1>1. wpc \in [Workers -> WorkerLabels] /\ cur \in [Workers -> Items]
    BY DEF IInv, Types, PoolInv
<1>2. cur' \in [Workers -> Items]
    BY <1>1
<1>3. At(Held)' = At(Held)
    BY <1>1 DEF At
<1>4. \A u \in At(Held) : cur'[u] = cur[u]
    BY <1>1 DEF At
<1>5. Taken' = Taken /\ Queued' = Queued /\ Pushed' = Pushed /\ Pending' = Pending
    BY <1>3, <1>4 DEF Taken, Queued, Pushed, Pending
<1>6. OnePlace'
    BY <1>3, <1>4, <1>5 DEF PoolInv, OnePlace, clients
<1> QED
    BY <1>2, <1>5, <1>6 DEF PoolInv, clients

(* A worker takes the oldest task.                                         *)
LEMMA PoolTake ==
    ASSUME IInv, PoolInv, NEW w \in Workers, TakeTask(w)
    PROVE  PoolInv' /\ Pool!Take
<1> USE DEF WorkerGoes
<1>1. tasksQ # << >>
    BY TakerFinds DEF TakeTask
<1> DEFINE item == Head(tasksQ)
<1>2. /\ wpc[w] = "take" /\ wpc' = [wpc EXCEPT ![w] = "start"]
      /\ tasksQ' = Tail(tasksQ) /\ cur' = [cur EXCEPT ![w] = item]
      /\ UNCHANGED <<clients, pushed, done>>
    BY <1>1 DEF TakeTask, PopFront
<1>3. Types /\ cur \in [Workers -> Items]
    BY DEF IInv, PoolInv
<1>4. /\ Len(tasksQ) \in Nat \ {0} /\ DOMAIN tasksQ = 1 .. Len(tasksQ)
      /\ DOMAIN tasksQ' = 1 .. Len(tasksQ) - 1
      /\ item = tasksQ[1] /\ item \in Items
      /\ \A i \in 1 .. Len(tasksQ) - 1 : tasksQ'[i] = tasksQ[i + 1]
    BY <1>1, <1>2, <1>3, HeadTailProperties, EmptySeq DEF Types
<1> HIDE DEF item
<1>5. Queued = Queued' \cup {item.func} /\ item.func \notin Queued'
    <2>1. item.func \in Queued
        BY <1>4 DEF Queued
    <2>2. Queued' \subseteq Queued
        <3>1. ASSUME NEW i \in DOMAIN tasksQ' PROVE tasksQ'[i].func \in Queued
            <4>1. i + 1 \in DOMAIN tasksQ /\ tasksQ'[i] = tasksQ[i + 1]
                BY <1>4
            <4> QED
                BY <4>1 DEF Queued
        <3> QED
            BY <3>1 DEF Queued
    <2>3. ASSUME NEW i \in DOMAIN tasksQ, tasksQ[i].func \notin Queued' PROVE i = 1
        <3>1. CASE i # 1
            <4>1. i - 1 \in DOMAIN tasksQ' /\ tasksQ'[i - 1] = tasksQ[i]
                BY <1>4, <3>1
            <4> QED
                BY <2>3, <4>1 DEF Queued
        <3> QED
            BY <3>1
    <2>4. ASSUME NEW i \in DOMAIN tasksQ' PROVE tasksQ'[i].func # item.func
        <3>1. i + 1 \in DOMAIN tasksQ /\ i + 1 # 1 /\ 1 \in DOMAIN tasksQ /\ tasksQ'[i] = tasksQ[i + 1]
            BY <1>4
        <3> QED
            BY <1>4, <3>1 DEF PoolInv, OnePlace
    <2> QED
        BY <1>4, <2>1, <2>2, <2>3, <2>4 DEF Queued
<1>6. At(Held)' = At(Held) \cup {w} /\ w \notin At(Held)
    BY <1>2, <1>3 DEF At, Types, Held
<1>7. cur'[w] = item /\ \A u \in At(Held) : cur'[u] = cur[u]
    BY <1>2, <1>3, <1>6 DEF At
<1>8. Taken' = Taken \cup {item.func} /\ item.func \notin Taken
    BY <1>5, <1>6, <1>7 DEF Taken, PoolInv, OnePlace
<1>9. OnePlace'
    <2>1. \A i, j \in DOMAIN tasksQ' : tasksQ'[i].func = tasksQ'[j].func => i = j
        <3> SUFFICES ASSUME NEW i \in DOMAIN tasksQ', NEW j \in DOMAIN tasksQ',
                            tasksQ'[i].func = tasksQ'[j].func
                     PROVE  i = j
            OBVIOUS
        <3>1. i + 1 \in DOMAIN tasksQ /\ j + 1 \in DOMAIN tasksQ
              /\ tasksQ[i + 1].func = tasksQ[j + 1].func
            BY <1>4
        <3>2. i + 1 = j + 1
            BY <3>1 DEF PoolInv, OnePlace
        <3> QED
            BY <1>4, <3>2
    <2>2. \A u, v \in At(Held)' : cur'[u].func = cur'[v].func => u = v
        BY <1>6, <1>7, <1>8 DEF PoolInv, OnePlace, Taken
    <2> QED
        BY <1>2, <1>5, <1>8, <2>1, <2>2 DEF PoolInv, OnePlace, clients
<1>10. PoolInv'
    <2>1. cur' \in [Workers -> Items]
        BY <1>2, <1>3, <1>4
    <2>2. Pushed' = Pushed
        BY <1>2 DEF Pushed
    <2> QED
        BY <1>2, <1>5, <1>8, <1>9, <2>1, <2>2 DEF PoolInv, clients
<1>11. Pending # << >> /\ Pending' = Tail(Pending) /\ Head(Pending) = item.func
    <2>1. Pending \in Seq({tasksQ[i].func : i \in DOMAIN tasksQ}) /\ Len(Pending) = Len(tasksQ)
        BY <1>4 DEF Pending
    <2>2. Pending # << >>
        BY <1>4, <2>1
    <2>3. Head(Pending) = item.func
        BY <1>4, <2>1, <2>2, HeadTailProperties DEF Pending
    <2>4. /\ Tail(Pending) \in Seq({tasksQ[i].func : i \in DOMAIN tasksQ})
          /\ DOMAIN Tail(Pending) = 1 .. Len(tasksQ) - 1
          /\ \A i \in 1 .. Len(tasksQ) - 1 : Tail(Pending)[i] = Pending[i + 1]
        BY <1>4, <2>1, <2>2, HeadTailProperties
    <2>5. Pending' = [i \in 1 .. Len(tasksQ) - 1 |-> tasksQ[i + 1].func]
        BY <1>4 DEF Pending
    <2>6. Tail(Pending) = [i \in 1 .. Len(tasksQ) - 1 |-> tasksQ[i + 1].func]
        BY <1>4, <2>4 DEF Pending
    <2> QED
        BY <2>2, <2>3, <2>5, <2>6
<1> QED
    BY <1>2, <1>8, <1>10, <1>11 DEF Pool!Take, Pending, Taken, Held

(* A worker ends its task.                                                 *)
LEMMA PoolFinish ==
    ASSUME IInv, PoolInv, NEW w \in Workers, NEW l, NEW item \in Items,
           wpc[w] \in Held, l \notin Held, TaskEnds(w),
           wpc' = [wpc EXCEPT ![w] = l], cur' = [cur EXCEPT ![w] = item],
           UNCHANGED <<tasksQ, pushed, clients>>
    PROVE  PoolInv' /\ Pool!Finish(cur[w].func)
<1> DEFINE t == cur[w].func
<1>1. wpc \in [Workers -> WorkerLabels] /\ cur \in [Workers -> Items]
    BY DEF IInv, Types, PoolInv
<1>2. cur' \in [Workers -> Items]
    BY <1>1
<1>3. At(Held)' = At(Held) \ {w} /\ w \in At(Held)
    BY <1>1 DEF At
<1>4. \A u \in At(Held)' : cur'[u] = cur[u]
    BY <1>1, <1>3 DEF At
<1>5. Taken' = Taken \ {t} /\ t \in Taken
    <2>1. \A u \in At(Held) \ {w} : cur[u].func # t
        BY <1>3 DEF PoolInv, OnePlace
    <2> QED
        BY <1>3, <1>4, <2>1 DEF Taken
<1>6. Queued' = Queued /\ Pushed' = Pushed /\ Pending' = Pending /\ done' = done \cup {t}
    BY DEF Queued, Pushed, Pending, TaskEnds
<1>7. OnePlace'
    BY <1>3, <1>4, <1>5, <1>6 DEF PoolInv, OnePlace, clients
<1>8. PoolInv'
    BY <1>2, <1>5, <1>6, <1>7 DEF PoolInv, clients
<1> QED
    BY <1>5, <1>6, <1>8 DEF Pool!Finish, Pending, Taken, Held

(* A client moves without queueing anything.                               *)
LEMMA PoolClient ==
    ASSUME IInv, PoolInv, NEW c \in Clients, NEW l, NEW item,
           cpc' = [cpc EXCEPT ![c] = l], citem' = [citem EXCEPT ![c] = item],
           l = "push" => /\ item.func \in Tasks \ Pushed
                         /\ \A d \in Clients : citem[d].func # item.func,
           UNCHANGED <<tasksQ, pushed, workers, done>>
    PROVE  PoolInv' /\ UNCHANGED <<Pending, Taken, done>>
<1>1. /\ cpc \in [Clients -> {"idle", "push", "release", "fire"}]
      /\ citem \in [Clients -> Items]
    BY DEF IInv, Types
<1>2. At(Held)' = At(Held) /\ Taken' = Taken /\ Queued' = Queued /\ Pushed' = Pushed /\ Pending' = Pending
    BY DEF At, Taken, Queued, Pushed, Pending, workers
<1>3. \A d \in Clients : cpc'[d] = "push" => citem'[d].func \in Tasks \ Pushed
    BY <1>1 DEF PoolInv
<1>4. \A d, e \in Clients : cpc'[d] = "push" /\ cpc'[e] = "push" /\ citem'[d].func = citem'[e].func => d = e
    BY <1>1 DEF PoolInv, OnePlace
<1>5. OnePlace'
    BY <1>2, <1>4 DEF PoolInv, OnePlace, workers
<1> QED
    BY <1>2, <1>3, <1>5 DEF PoolInv, workers

(* A client queues a task: one that no client holds any more, and that was *)
(* never queued.                                                           *)
LEMMA PoolSubmit ==
    ASSUME IInv, PoolInv, NEW c \in Clients, NEW item \in Items,
           item.func \in Tasks \ Pushed,
           \A d \in Clients \ {c} : cpc[d] = "push" => citem[d].func # item.func,
           cpc' = [cpc EXCEPT ![c] = "release"], citem' = [citem EXCEPT ![c] = NoItem],
           Push(item), UNCHANGED <<workers, done>>
    PROVE  PoolInv' /\ Pool!Submit(item.func)
<1> DEFINE t == item.func
<1>1. /\ cpc \in [Clients -> {"idle", "push", "release", "fire"}]
      /\ citem \in [Clients -> Items] /\ tasksQ \in Seq(Items) /\ pushed \in Seq(Tasks)
    BY DEF IInv, Types, PoolInv
<1>2. /\ Len(tasksQ) \in Nat /\ DOMAIN tasksQ = 1 .. Len(tasksQ)
      /\ DOMAIN tasksQ' = 1 .. Len(tasksQ) + 1
      /\ tasksQ'[Len(tasksQ) + 1] = item
      /\ \A i \in 1 .. Len(tasksQ) : tasksQ'[i] = tasksQ[i]
    BY <1>1, AppendProperties DEF Push
<1>3. Queued' = Queued \cup {t}
    <2>1. \A i \in DOMAIN tasksQ : i \in DOMAIN tasksQ' /\ tasksQ'[i] = tasksQ[i]
        BY <1>2
    <2>2. /\ Len(tasksQ) + 1 \in DOMAIN tasksQ' /\ tasksQ'[Len(tasksQ) + 1] = item
          /\ \A i \in DOMAIN tasksQ' : i \in DOMAIN tasksQ \/ i = Len(tasksQ) + 1
        BY <1>2
    <2> QED
        BY <2>1, <2>2 DEF Queued
<1>4. Pushed' = Pushed \cup {t} /\ pushed' \in Seq(Tasks)
    <2>1. /\ Len(pushed) \in Nat /\ DOMAIN pushed = 1 .. Len(pushed)
          /\ DOMAIN pushed' = 1 .. Len(pushed) + 1
          /\ pushed'[Len(pushed) + 1] = t
          /\ \A i \in 1 .. Len(pushed) : pushed'[i] = pushed[i]
          /\ pushed' \in Seq(Tasks)
        BY <1>1, AppendProperties DEF Push
    <2>2. \A i \in DOMAIN pushed : i \in DOMAIN pushed' /\ pushed'[i] = pushed[i]
        BY <2>1
    <2>3. /\ Len(pushed) + 1 \in DOMAIN pushed' /\ pushed'[Len(pushed) + 1] = t
          /\ \A i \in DOMAIN pushed' : i \in DOMAIN pushed \/ i = Len(pushed) + 1
        BY <2>1
    <2> QED
        BY <2>1, <2>2, <2>3 DEF Pushed
<1>5. At(Held)' = At(Held) /\ Taken' = Taken
    BY DEF At, Taken, workers
<1>6. t \notin Queued /\ t \notin Taken /\ t \notin done
    BY DEF PoolInv
<1>7. \A i, j \in DOMAIN tasksQ' : tasksQ'[i].func = tasksQ'[j].func => i = j
    <2> SUFFICES ASSUME NEW i \in DOMAIN tasksQ', NEW j \in DOMAIN tasksQ',
                        tasksQ'[i].func = tasksQ'[j].func
                 PROVE  i = j
        OBVIOUS
    <2>1. \A k \in 1 .. Len(tasksQ) : tasksQ'[k].func # t
        BY <1>2, <1>6 DEF Queued
    <2> QED
        BY <1>2, <2>1 DEF PoolInv, OnePlace
<1>8. \A d \in Clients : cpc'[d] = "push" => d # c /\ cpc[d] = "push" /\ citem'[d] = citem[d]
    BY <1>1
<1>9. OnePlace'
    BY <1>3, <1>5, <1>6, <1>7, <1>8 DEF PoolInv, OnePlace, workers
<1>10. PoolInv'
    BY <1>3, <1>4, <1>5, <1>8, <1>9 DEF PoolInv, workers
<1>11. Pending' = Append(Pending, t)
    <2>1. Pending \in Seq({tasksQ[i].func : i \in DOMAIN tasksQ} \cup {t}) /\ Len(Pending) = Len(tasksQ)
        BY <1>2 DEF Pending
    <2>2. /\ DOMAIN Append(Pending, t) = 1 .. Len(tasksQ) + 1
          /\ Append(Pending, t)[Len(tasksQ) + 1] = t
          /\ \A i \in 1 .. Len(tasksQ) : Append(Pending, t)[i] = Pending[i]
          /\ Append(Pending, t) \in Seq({tasksQ[i].func : i \in DOMAIN tasksQ} \cup {t})
        BY <2>1, AppendProperties
    <2>3. Pending' = [i \in 1 .. Len(tasksQ) + 1 |-> tasksQ'[i].func]
        BY <1>2 DEF Pending
    <2>4. \A i \in 1 .. Len(tasksQ) + 1 : Append(Pending, t)[i] = tasksQ'[i].func
        BY <1>2, <2>2 DEF Pending
    <2>5. Append(Pending, t) = [i \in 1 .. Len(tasksQ) + 1 |-> Append(Pending, t)[i]]
        BY <2>2
    <2> QED
        BY <2>3, <2>4, <2>5
<1>12. Pool!Fresh(t)
    BY <1>6 DEF Pool!Fresh, Queued, Taken, Held
<1> QED
    BY <1>5, <1>10, <1>11, <1>12 DEF Pool!Submit, Pending, Taken, Held

(* What a step of the pool is to the specification: one of its steps, or   *)
(* none.                                                                   *)
PoolStep == PoolInv' /\ (UNCHANGED <<Pending, Taken, done>> \/ Pool!Next)

LEMMA PoolStill ==
    ASSUME PoolInv, UNCHANGED <<tasksQ, pushed, clients, workers, done>>
    PROVE  PoolStep
<1>1. At(Held)' = At(Held) /\ Taken' = Taken /\ Queued' = Queued /\ Pushed' = Pushed /\ Pending' = Pending
    BY DEF At, Taken, Queued, Pushed, Pending, workers
<1>2. OnePlace'
    BY <1>1 DEF PoolInv, OnePlace, workers, clients
<1> QED
    BY <1>1, <1>2 DEF PoolStep, PoolInv, workers, clients

LEMMA PoolWorkerStep ==
    ASSUME IInv, PoolInv, NoGroupRead, NEW w \in Workers, Worker(w)
    PROVE  PoolStep
<1> USE DEF WorkerGoes, OnlyGoes, queue
<1>1. cur[w] \in Items /\ cur = [cur EXCEPT ![w] = cur[w]] /\ NoItem \in Items
    BY ItemsType DEF PoolInv
(* A worker keeps its item while it runs, ...                              *)
<1>2. ASSUME NEW l, wpc' = [wpc EXCEPT ![w] = l], cur' = cur, wpc[w] \in Held <=> l \in Held,
             UNCHANGED <<tasksQ, pushed, clients, done>>
      PROVE  PoolStep
    BY <1>1, <1>2, PoolMove DEF PoolStep
<1>3. CASE LoopTop(w) \/ ReadGate(w) \/ AcquirePermit(w) \/ StopCheck(w)
    BY <1>2, <1>3 DEF LoopTop, ReadGate, AcquirePermit, StopCheck, Held
<1>4. CASE StartBarrier(w) \/ SeeNoNormalTask(w) \/ LiftBarrier(w) \/ FinishNormal(w)
    BY <1>2, <1>4 DEF StartBarrier, SeeNoNormalTask, LiftBarrier, FinishNormal, Held
<1>5. CASE StartNormal(w)
    BY <1>2, <1>5 DEF StartNormal, Held
<1>12. CASE ReadGroup(w)
    <2>1. PICK l \in {"gwait", "run"} : wpc[w] = "group" /\ wpc' = [wpc EXCEPT ![w] = l]
        BY <1>12 DEF ReadGroup
    <2>2. cur' = cur
        <3>1. CASE StaleReads
            <4>1. \A item \in SeenItems(w) : item.groupID = NoGroup
                BY <3>1 DEF NoGroupRead, SeenItems, Overwriting, QueuedSince
            <4> QED
                BY <1>12, <4>1 DEF ReadGroup
        <3>2. CASE ~StaleReads
            <4>1. cur[w] = [cur[w] EXCEPT !.groupID = cur[w].groupID]
                BY <1>1 DEF Items
            <4> QED
                BY <1>1, <1>12, <3>2, <4>1, SeesItsOwn DEF ReadGroup
        <3> QED
            BY <3>1, <3>2
    <2> QED
        BY <1>2, <1>12, <2>1, <2>2 DEF ReadGroup, Held
<1>6. CASE SeeGroupActive(w) \/ StartCallback(w)
    BY <1>2, <1>6 DEF SeeGroupActive, StartCallback, Held
(* ... and lets go of it once it is done.                                  *)
<1>7. CASE FinishGroupTask(w) \/ EndCallback(w) \/ FinishGroup(w)
    <2>1. /\ wpc[w] \in {"glock", "callback"} /\ wpc' = [wpc EXCEPT ![w] = "finish"]
          /\ cur' = [cur EXCEPT ![w] = NoItem] /\ UNCHANGED <<tasksQ, pushed, clients, done>>
        BY <1>7 DEF FinishGroupTask, EndCallback, FinishGroup, DropTask
    <2> QED
        BY <1>1, <2>1, PoolMove DEF PoolStep, Held
<1>8. ASSUME NEW l, NEW item \in Items, wpc[w] \in Held, l \notin Held, TaskEnds(w),
             wpc' = [wpc EXCEPT ![w] = l], cur' = [cur EXCEPT ![w] = item],
             UNCHANGED <<tasksQ, pushed, clients>>
      PROVE  PoolStep
    <2>1. PoolInv' /\ Pool!Finish(cur[w].func)
        BY <1>8, PoolFinish
    <2>2. cur[w].func \in Tasks
        <3>1. cur[w].func \in Pushed
            BY <1>8 DEF PoolInv, Taken, At
        <3> QED
            BY <3>1 DEF PoolInv, Pushed
    <2>3. \E t \in Tasks : Pool!Finish(t)
        BY <2>1, <2>2 DEF Pool!Finish
    <2> QED
        BY <2>1, <2>3 DEF PoolStep, Pool!Next
<1>9. CASE EndBarrier(w) \/ EndNormal(w)
    BY <1>1, <1>8, <1>9 DEF EndBarrier, EndNormal, DropTask, Held
<1>10. CASE RunGroupTask(w)
    <2>1. CASE TaskEnds(w) /\ WorkerGoes(w, "grun", "glock")
        BY <1>1, <1>8, <1>10, <2>1 DEF RunGroupTask, Held
    <2>2. CASE WorkerGoes(w, "grun", "grun") /\ UNCHANGED done
        BY <1>2, <1>10, <2>2 DEF RunGroupTask, Held
    <2>3. Overwriting(w) = {}
        BY <1>10, SeesItsOwn DEF RunGroupTask, NoGroupRead, InGroup
    <2> QED
        BY <1>10, <2>1, <2>2, <2>3 DEF RunGroupTask
<1>11. CASE TakeTask(w)
    BY <1>11, PoolTake DEF PoolStep, Pool!Next
<1> QED
    BY <1>3, <1>4, <1>5, <1>6, <1>7, <1>9, <1>10, <1>11, <1>12 DEF Worker

LEMMA PoolClientStep ==
    ASSUME IInv, PoolInv, NEW c \in Clients, Client(c)
    PROVE  PoolStep
<1> USE DEF ClientGoes, queue
<1>1. ASSUME NEW item \in Items, item.func \in Tasks \ Pushed,
             \A d \in Clients \ {c} : cpc[d] = "push" => citem[d].func # item.func,
             cpc' = [cpc EXCEPT ![c] = "release"], citem' = [citem EXCEPT ![c] = NoItem],
             Push(item), UNCHANGED <<workers, done>>
      PROVE  PoolStep
    BY <1>1, PoolSubmit DEF PoolStep, Pool!Next
<1>2. ASSUME NEW l, NEW item, l # "push",
             cpc' = [cpc EXCEPT ![c] = l], citem' = [citem EXCEPT ![c] = item],
             UNCHANGED <<tasksQ, pushed, workers, done>>
      PROVE  PoolStep
    BY <1>2, PoolClient DEF PoolStep
<1>3. ASSUME NEW t \in Tasks, MaySubmit(t), NEW g \in Groups \cup {NoGroup}, NEW b \in BOOLEAN
      PROVE  /\ TaskItem(t, g, b) \in Items /\ TaskItem(t, g, b).func = t
             /\ t \notin Pushed /\ \A d \in Clients : citem[d].func # t
    BY <1>3, ItemsType DEF MaySubmit, Pushed, TaskItem
<1>4. ASSUME NEW t \in Tasks, MaySubmit(t), NEW b \in BOOLEAN, Push(TaskItem(t, NoGroup, b)),
             cpc' = [cpc EXCEPT ![c] = "release"], citem' = [citem EXCEPT ![c] = NoItem],
             UNCHANGED <<workers, done>>
      PROVE  PoolStep
    <2>1. PICK item : item = TaskItem(t, NoGroup, b)
        OBVIOUS
    <2>2. item \in Items /\ item.func \in Tasks \ Pushed /\ \A d \in Clients : citem[d].func # item.func
        BY <1>3, <1>4, <2>1
    <2> QED
        BY <1>1, <1>4, <2>1, <2>2
<1>5. ASSUME NEW t \in Tasks, Enqueue(c, t) \/ EnqueueBarrier(c, t) PROVE PoolStep
    <2>1. CASE Enqueue(c, t)
        BY <1>4, <2>1 DEF Enqueue
    <2>2. CASE EnqueueBarrier(c, t)
        BY <1>4, <2>2 DEF EnqueueBarrier
    <2> QED
        BY <1>5, <2>1, <2>2
<1>12. ASSUME NEW t \in Tasks, NEW g \in Groups, EnqueueGroupAsNormal(c, t, g) PROVE PoolStep
    BY <1>4, <1>12 DEF EnqueueGroupAsNormal
<1>6. ASSUME PushGroupTask(c) PROVE PoolStep
    <2>1. citem[c] \in Items /\ citem[c].func \in Tasks \ Pushed
        BY <1>6 DEF PushGroupTask, PoolInv, IInv, Types
    <2>2. \A d \in Clients \ {c} : cpc[d] = "push" => citem[d].func # citem[c].func
        BY <1>6 DEF PushGroupTask, PoolInv, OnePlace
    <2> QED
        BY <1>1, <1>6, <2>1, <2>2 DEF PushGroupTask
<1>7. ASSUME NEW t \in Tasks, NEW g \in Groups, EnqueueGroup(c, t, g) PROVE PoolStep
    <2>1. MaySubmit(t)
        BY <1>7 DEF EnqueueGroup
    <2>2. PICK item : item = TaskItem(t, g, FALSE)
        OBVIOUS
    <2>3. item.func \in Tasks \ Pushed /\ \A d \in Clients : citem[d].func # item.func
        BY <1>3, <2>1, <2>2
    <2>4. /\ cpc' = [cpc EXCEPT ![c] = "push"] /\ citem' = [citem EXCEPT ![c] = item]
          /\ UNCHANGED <<tasksQ, pushed, workers, done>>
        BY <1>7, <2>2 DEF EnqueueGroup
    <2> QED
        BY <2>3, <2>4, PoolClient DEF PoolStep
<1>8. ASSUME NEW g \in Groups, NEW f \in FireArguments, SetCallbackForGroup(c, g, f) PROVE PoolStep
    <2> DEFINE Goes(l, item) ==
                   cpc' = [cpc EXCEPT ![c] = l] /\ citem' = [citem EXCEPT ![c] = item]
    <2>0. PICK l \in {"idle", "fire"} : \E item : Goes(l, item)
        BY <1>8 DEF SetCallbackForGroup
    <2>1. PICK item : Goes(l, item)
        BY <2>0
    <2> QED
        BY <1>2, <1>8, <2>1 DEF SetCallbackForGroup
<1>9. ASSUME NEW g \in Groups, FireGroup(c, g) PROVE PoolStep
    BY <1>2, <1>9 DEF FireGroup
<1>10. ASSUME Release(c) PROVE PoolStep
    BY <1>2, <1>10 DEF Release
<1>11. ASSUME GetGroupId(c) PROVE PoolStep
    BY <1>11, PoolStill DEF GetGroupId
<1> QED
    BY <1>5, <1>6, <1>7, <1>8, <1>9, <1>10, <1>11, <1>12 DEF Client

LEMMA PoolNext == IInv /\ PoolInv /\ NoGroupRead /\ [Next]_vars => PoolStep
<1> SUFFICES ASSUME IInv, PoolInv, NoGroupRead, [Next]_vars PROVE PoolStep
    OBVIOUS
<1>1. CASE Destructor \/ UNCHANGED vars
    <2>1. UNCHANGED <<tasksQ, pushed, clients, workers, done>>
        BY <1>1 DEF Destructor, Stop, WakeAll, Join, vars, queue
    <2> QED
        BY <2>1, PoolStill
<1> QED
    BY <1>1, PoolWorkerStep, PoolClientStep DEF Next

(* The pool promises what TaskPool says: tasks are taken in the order of   *)
(* their submission, each by one worker, and each runs at most once; for   *)
(* any number of clients and workers, barriers, groups and a destructor in *)
(* between.  Stale reads do not touch it where no task has a group; where  *)
(* one has, a stale read may run the function of another task.             *)
THEOREM ImplementsTaskPoolHolds ==
    (StaleReads => GroupTasks = {}) => (Spec => ImplementsTaskPool)
<1> SUFFICES ASSUME StaleReads => GroupTasks = {} PROVE Spec => ImplementsTaskPool
    OBVIOUS
<1>1. Init => PoolInv /\ Pool!Init /\ NoGroupRead
    <2>1. Init => NoGroupRead
        BY DEF Init, NoGroupRead, NoItem, TaskItem, InGroup
    <2> QED
        BY <2>1, PoolInit
<1>2. IInv /\ PoolInv /\ NoGroupRead /\ [Next]_vars =>
          PoolInv' /\ NoGroupRead' /\ [Pool!Next]_Pool!pvars
    BY PoolNext, NoGroupReadStep DEF PoolStep, Pool!pvars, Pending, Taken, Held
<1> QED
    BY <1>1, <1>2, Invariant, PTL DEF Spec, ImplementsTaskPool, Pool!Spec
=============================================================================
