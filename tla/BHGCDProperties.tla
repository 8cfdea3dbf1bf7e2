-------------------------- MODULE BHGCDProperties --------------------------
(***************************************************************************)
(* What BHGCDController keeps, and what its comments promise of it.        *)
(***************************************************************************)
EXTENDS BHGCDController

At(labels) == {w \in Workers : wpc[w] \in labels}

-----------------------------------------------------------------------------
(* The queue and its semaphore *)

Releasing == {c \in Clients : cpc[c] = "release"}

(* Until the pool is stopped there is a permit for every queued task: in   *)
(* the semaphore, with a worker that has yet to pop, or about to be        *)
(* released.  After that the workers that are past their last look at      *)
(* stopFlag still find a task each (enqueue, release, acquire, stop).      *)
HasPermit == {"woken", "take"}

PermitsMatchTasks ==
    /\ ~stopFlag => tasksSem + Cardinality(At(HasPermit)) + Cardinality(Releasing)
                        = Len(tasksQ)
    /\ stopFlag => Cardinality(At({"take"})) <= Len(tasksQ)

(* A worker that came through the semaphore finds a task: the branch of    *)
(* workLoop() for an empty queue is never taken, so no permit is ever      *)
(* thrown away there.                                                      *)
TakerFindsTask == \A w \in Workers : wpc[w] = "take" => tasksQ # << >>

(* No wakeup is lost and none is spent on an empty queue, stop() included. *)
PermitsFindTasks == PermitsMatchTasks /\ TakerFindsTask

(* Where a worker has a task that it has taken and not finished.           *)
Held == {"start", "drain", "barrier", "group", "run", "gwait", "grun"}

(* Every submitted task is taken in order, by one worker, and run once,    *)
(* however push, release, acquire and pop of the threads interleave.       *)
Pool == INSTANCE TaskPool WITH
            pending <- [i \in DOMAIN tasksQ |-> tasksQ[i].func],
            taken <- {cur[w].func : w \in At(Held)},
            done <- done

ImplementsTaskPool == Pool!Spec

-----------------------------------------------------------------------------
(* Barriers *)

(* normalTaskCount is what a barrier waits on: it counts, beside the value *)
(* it happened to start with, exactly the workers between their increment  *)
(* and their decrement.                                                    *)
Counted == {"group", "run", "finish", "gwait", "grun", "glock", "callback"}

NormalCountExact ==
    normalTaskCount = InitialNormalCount + Cardinality(At(Counted))

(* The gate is shut only while some worker is between raising and lifting  *)
(* a barrier: it is never left shut behind the last one.                   *)
GateKeeping == {"drain", "barrier", "lift"}

GateHasOwner == barrierActive => At(GateKeeping) # {}

(* What a barrier does wait for: a task that runs while the barrier drains *)
(* has run by the time the barrier's task does, also when workers past the *)
(* gate go on starting tasks and another barrier lifts the gate meanwhile. *)
Runs(t) == \E w \in At({"run"}) : cur[w].func = t

BarrierWaitsForRunning ==
    \A w \in Workers, t \in Tasks :
        [](wpc[w] = "drain" /\ Runs(t) => [](wpc[w] = "barrier" => t \in done))

(* "Keep the other threads from taking tasks" (workLoop, where the flag is *)
(* raised): nothing else runs while a barrier task does.                   *)
BarrierRunsAlone ==
    \A w \in At({"barrier"}) : At({"run", "grun"}) = {}

(* "Barriers can be used for reading and writing in exclusion": two        *)
(* barrier tasks never run at the same time.                               *)
BarriersExclude == Cardinality(At({"barrier"})) <= 1

(* "Barrier task runs after previously executing normal tasks" (example):  *)
(* whatever was queued before a barrier has run when the barrier starts.   *)
BarrierRunsAfterEarlierTasks ==
    \A w \in At({"barrier"}) : \A i, j \in DOMAIN pushed :
        i < j /\ pushed[j] = cur[w].func => pushed[i] \in done

(* "barrier / normal" (workLoop): a task that was queued as a barrier is   *)
(* run as one, and no other task is.                                       *)
RunsAsQueued ==
    /\ \A w \in At({"barrier"}) : cur[w].func \in BarrierTasks
    /\ \A w \in At({"run"}) : cur[w].func \notin BarrierTasks

-----------------------------------------------------------------------------
(* Groups *)

(* The items of a group that are counted and have not counted themselves   *)
(* off: with the client that pushes them, queued, or with a worker.        *)
InPush(g) == {c \in Clients : cpc[c] = "push" /\ citem[c].groupID = g}
InQueue(g) == {i \in DOMAIN tasksQ : tasksQ[i].groupID = g}
Owing == {"start", "group", "gwait", "grun", "glock"}
AtWorker(g, labels) == {w \in At(labels) : cur[w].groupID = g}

(* The count of a group is the number of its tasks that are still to end:  *)
(* enqueueGroup() counts a task before it is queued, and the task counts   *)
(* itself off after it ran.                                                *)
GroupCountExact ==
    \A g \in Groups :
        groupTaskCount[g] = Cardinality(InPush(g)) + Cardinality(InQueue(g))
            + Cardinality(AtWorker(g, Owing))

(* "Run the callback once all tasks of the group have run": while it runs  *)
(* none of the group's tasks is on its way or running.                     *)
CallbackAfterAllTasks ==
    \A w \in At({"callback"}) :
        LET g == cur[w].groupID
        IN  InPush(g) = {} /\ InQueue(g) = {}
            /\ AtWorker(g, Owing) = {}

(* A group that is fired, or has a callback or tasks, exists; a fired      *)
(* group has tasks left, so that one of them will end it; and it stays     *)
(* fired until the last task that began to run has counted itself off.     *)
GroupTablesAgree ==
    /\ activeGroups \cup groupCallback \subseteq existGroups
    /\ \A g \in Groups : groupTaskCount[g] > 0 => g \in existGroups
    /\ \A g \in activeGroups : groupTaskCount[g] > 0 \/ AtWorker(g, {"callback"}) # {}
    /\ \A w \in At({"grun", "glock", "callback"}) : cur[w].groupID \in activeGroups

(* The count by which a group ends, and the tables it ends in, stay in     *)
(* step although three locks and the queue change them one by one.         *)
GroupsSound == GroupCountExact /\ GroupTablesAgree

-----------------------------------------------------------------------------
(* Progress *)

(* A task that is queued is run, unless the pool is destroyed first.       *)
QueuedTaskRuns ==
    \A t \in Tasks : (\E i \in DOMAIN pushed : pushed[i] = t) ~> (t \in done \/ stopFlag)

(* A client that called setCallbackForGroup() with the default argument    *)
(* has to fire the group, and waits for a lock it holds itself.            *)
WaitsForItself(c) == cpc[c] = "fire" /\ groupLock = c

(* A worker that waits in excueteGroupTask() for a group to be fired.      *)
WaitsForFire(w) == wpc[w] = "gwait" /\ cur[w].groupID \notin activeGroups

(* No worker is left to run tasks: all of them wait for groups to be       *)
(* fired, or the rest of them drain for barriers that wait for those.      *)
AllWait == \A w \in Workers : WaitsForFire(w) \/ wpc[w] = "drain"


(* The destructor returns, unless the process ended or a task waits for a  *)
(* group that nobody fired: that worker does not look at stopFlag.         *)
StopReturns ==
    stopFlag ~> \/ pool = "down" \/ ~ProcessRuns
                \/ \E w \in Workers : WaitsForFire(w)

(* "Let this task run" (setCallbackForGroup): a call that has to fire the  *)
(* group fires it.                                                         *)
FireInstantlyFires ==
    \A g \in Groups :
        (\E c \in Clients : cpc[c] = "fire" /\ citem[c].groupID = g) ~> g \in activeGroups

(* "Run the task" (excueteGroupTask): a task of a fired group runs, which  *)
(* is what the example's final sum of 6 rests on.                          *)
GroupTaskRuns == ProcessRuns

(* "Run the barrier immediately" (workLoop): once no normal task is left   *)
(* a barrier runs.                                                         *)
BarrierRuns ==
    \A w \in Workers : wpc[w] = "drain" ~> wpc[w] = "barrier"
=============================================================================
