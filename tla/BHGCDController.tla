-------------------------- MODULE BHGCDController --------------------------
(***************************************************************************)
(* BHGCDController of BHSync.hpp: a pool of workers that take tasks from   *)
(* one queue, tasks that are barriers, and groups of tasks that wait until *)
(* their group is fired and end with a callback.                           *)
(*                                                                         *)
(* Every access to an atomic is a step of its own.  A section under        *)
(* _tasksLock or _groupOptLock that cannot block is one step (SmartLock    *)
(* shows why it may be); where the code blocks or calls back inside the    *)
(* section, groupLock says who is in it.  acquire() and release() of       *)
(* _tasksSem are single steps, as AtomicSemaphore shows for one permit.    *)
(***************************************************************************)
EXTENDS Integers, Sequences, FiniteSets

CONSTANTS
    Workers, Clients,     \* the pool's threads, and the threads that call it
    NormalTasks, BarrierTasks, GroupTasks,  \* what may be submitted
    Groups,               \* the ids randomInt() can return
    NoGroup, NoTask, Nobody,
    InitialNormalCount,   \* what normalTaskCount holds at first: the
                          \* constructor leaves it uninitialised
    MovedFromOutcomes,    \* calling a moved-from function: "runs", "throws"
    FireArguments,        \* what callers pass as fireInstantly
    CallbacksCallBack,    \* callbacks call the functions of groups
    StaleReads            \* a popped slot may hold another task when read

ASSUME WorkersAssumption == IsFiniteSet(Workers) /\ IsFiniteSet(Clients)
ASSUME NobodyAssumption == Workers \cap Clients = {} /\ Nobody \notin Workers \cup Clients
ASSUME NoGroupAssumption == NoGroup \notin Groups
ASSUME InitialNormalCountAssumption == InitialNormalCount \in Int
ASSUME FireArgumentsAssumption == FireArguments \subseteq BOOLEAN
ASSUME BooleansAssumption == CallbacksCallBack \in BOOLEAN /\ StaleReads \in BOOLEAN

Tasks == NormalTasks \cup BarrierTasks \cup GroupTasks

VARIABLES
    tasksQ,               \* _tasksQ
    tasksSem,             \* the counter of _tasksSem
    stopFlag, barrierActive, normalTaskCount,
    groupLock,            \* who is inside _groupOptLock
    existGroups, activeGroups,
    groupTaskCount,       \* _groupActiveTaskCount, 0 where it has no entry;
                          \* below zero where the unsigned count wraps
    groupCallback,        \* the groups _groupIdCallback has an entry for
    wpc, cur,             \* where each worker is, and the item it holds,
                          \* with the group it read for it
    cpc, citem,           \* where each client is, and the item it is about
    pool,                 \* how far the destructor has come, or that
                          \* std::terminate() has ended the process
    pushed,               \* the tasks that were queued, in order (history)
    atPop,                \* how many tasks had been queued when each worker
                          \* popped its item (history; 0 without StaleReads)
    done                  \* the tasks that have run (history)

queue == <<tasksQ, tasksSem, pushed>>
gate == <<barrierActive, normalTaskCount>>
tables == <<existGroups, activeGroups, groupTaskCount, groupCallback>>
groups == <<groupLock, tables>>
workers == <<wpc, cur, atPop>>
clients == <<cpc, citem>>
lifetime == <<stopFlag, pool>>
vars == <<queue, gate, groups, workers, clients, lifetime, done>>

(* TaskItem *)
Items == [func : Tasks \cup {NoTask}, groupID : Groups \cup {NoGroup}, isBarrier : BOOLEAN]

TaskItem(t, g, b) == [func |-> t, groupID |-> g, isBarrier |-> b]
NoItem == TaskItem(NoTask, NoGroup, FALSE)

WorkerLabels == {"loop", "gate", "acquire", "woken", "take", "start", "drain",
                 "barrier", "lift", "group", "run", "finish", "gwait", "grun",
                 "glock", "callback", "exit"}

TypeOK ==
    /\ tasksQ \in Seq(Items)
    /\ tasksSem \in Nat
    /\ stopFlag \in BOOLEAN
    /\ barrierActive \in BOOLEAN
    /\ normalTaskCount \in Int
    /\ groupLock \in Workers \cup Clients \cup {Nobody}
    /\ existGroups \subseteq Groups
    /\ activeGroups \subseteq Groups
    /\ groupTaskCount \in [Groups -> Int]
    /\ groupCallback \subseteq Groups
    /\ wpc \in [Workers -> WorkerLabels]
    /\ cur \in [Workers -> Items]
    /\ cpc \in [Clients -> {"idle", "push", "release", "fire"}]
    /\ citem \in [Clients -> Items]
    /\ pool \in {"up", "stopping", "joining", "down", "terminated"}
    /\ pushed \in Seq(Tasks)
    /\ atPop \in [Workers -> Nat]
    /\ done \subseteq Tasks

Init ==
    /\ tasksQ = << >> /\ tasksSem = 0 /\ pushed = << >>
    /\ barrierActive = FALSE /\ normalTaskCount = InitialNormalCount
    /\ groupLock = Nobody
    /\ existGroups = {} /\ activeGroups = {} /\ groupCallback = {}
    /\ groupTaskCount = [g \in Groups |-> 0]
    /\ wpc = [w \in Workers |-> "loop"] /\ cur = [w \in Workers |-> NoItem]
    /\ atPop = [w \in Workers |-> 0]
    /\ cpc = [c \in Clients |-> "idle"] /\ citem = [c \in Clients |-> NoItem]
    /\ stopFlag = FALSE /\ pool = "up"
    /\ done = {}

(* std::terminate() ends every thread of the process. *)
ProcessRuns == pool # "terminated"

WorkerGoes(w, from, to) ==
    /\ ProcessRuns
    /\ wpc[w] = from
    /\ wpc' = [wpc EXCEPT ![w] = to]

(* A step that changes nothing but where the worker is. *)
OnlyGoes(w, from, to) ==
    /\ WorkerGoes(w, from, to)
    /\ UNCHANGED <<queue, gate, groups, cur, atPop, clients, lifetime, done>>

ClientGoes(c, from, to, item) ==
    /\ ProcessRuns
    /\ cpc[c] = from
    /\ cpc' = [cpc EXCEPT ![c] = to]
    /\ citem' = [citem EXCEPT ![c] = item]

(* Nobody calls a pool that is being destroyed, and no task is submitted   *)
(* twice.                                                                  *)
MaySubmit(t) ==
    /\ pool = "up"
    /\ \A i \in DOMAIN pushed : pushed[i] # t
    /\ \A c \in Clients : citem[c].func # t

-----------------------------------------------------------------------------
(* Submitting *)

(* _tasksQ.emplace under _tasksLock *)
Push(item) ==
    /\ tasksQ' = Append(tasksQ, item)
    /\ pushed' = Append(pushed, item.func)
    /\ UNCHANGED tasksSem

Enqueue(c, t) ==
    /\ MaySubmit(t) /\ t \in NormalTasks
    /\ ClientGoes(c, "idle", "release", NoItem)
    /\ Push(TaskItem(t, NoGroup, FALSE))
    /\ UNCHANGED <<gate, groups, workers, lifetime, done>>

EnqueueBarrier(c, t) ==
    /\ MaySubmit(t) /\ t \in BarrierTasks
    /\ ClientGoes(c, "idle", "release", NoItem)
    /\ Push(TaskItem(t, NoGroup, TRUE))
    /\ UNCHANGED <<gate, groups, workers, lifetime, done>>

(* _tasksSem.release() *)
ReleasePermit == tasksSem' = tasksSem + 1

(* The end of each submission: the permit, and the unlock of _groupOptLock *)
(* when enqueue() was called from inside enqueueGroup().                   *)
Release(c) ==
    /\ ClientGoes(c, "release", "idle", NoItem)
    /\ ReleasePermit
    /\ groupLock' = IF groupLock = c THEN Nobody ELSE groupLock
    /\ UNCHANGED <<tasksQ, pushed, gate, tables, workers, lifetime, done>>

-----------------------------------------------------------------------------
(* Groups *)

(* getGroupId(): an id nobody uses.  (It may also give up and return -1,   *)
(* which changes nothing.)                                                 *)
GetGroupId(c) ==
    /\ pool = "up" /\ cpc[c] = "idle" /\ groupLock = Nobody
    /\ \E g \in Groups \ existGroups : existGroups' = existGroups \cup {g}
    /\ UNCHANGED <<queue, gate, groupLock, activeGroups, groupTaskCount,
                   groupCallback, workers, clients, lifetime, done>>

(* Whether enqueueGroup() makes its task one of the group. *)
TakesTasks(g) == g \in existGroups \ activeGroups

(* enqueueGroup() on an id that is unknown, or already fired: the task is  *)
(* an ordinary one, and the nested enqueue() runs under _groupOptLock.     *)
EnqueueGroupAsNormal(c, t, g) ==
    /\ MaySubmit(t) /\ t \in GroupTasks
    /\ groupLock = Nobody /\ ~TakesTasks(g)
    /\ groupLock' = c
    /\ ClientGoes(c, "idle", "release", NoItem)
    /\ Push(TaskItem(t, NoGroup, FALSE))
    /\ UNCHANGED <<gate, tables, workers, lifetime, done>>

(* _groupActiveTaskCount[groupId]++ *)
CountTask(g) == groupTaskCount' = [groupTaskCount EXCEPT ![g] = @ + 1]

(* enqueueGroup(): the task is counted under _groupOptLock, and pushed     *)
(* after it.                                                               *)
EnqueueGroup(c, t, g) ==
    /\ MaySubmit(t) /\ t \in GroupTasks
    /\ groupLock = Nobody /\ TakesTasks(g)
    /\ CountTask(g)
    /\ ClientGoes(c, "idle", "push", TaskItem(t, g, FALSE))
    /\ UNCHANGED <<queue, gate, groupLock, existGroups, activeGroups,
                   groupCallback, workers, lifetime, done>>

PushGroupTask(c) ==
    /\ ClientGoes(c, "push", "release", NoItem)
    /\ Push(citem[c])
    /\ UNCHANGED <<gate, groups, workers, lifetime, done>>

(* Fault: a group without tasks is fired too, and no task will end it. *)
FiresEmpty(g) == g \in existGroups

(* The group has tasks: its unsigned count is above zero. *)
Fires(g) == groupTaskCount[g] # 0

(* setCallbackForGroup(g, func, fireInstantly).  When it has to fire, it   *)
(* calls fireGroup() from inside _groupOptLock.                            *)
SetCallbackForGroup(c, g, fireInstantly) ==
    /\ pool = "up" /\ groupLock = Nobody
    /\ g \in existGroups
    /\ groupCallback' = groupCallback \cup {g}
    /\ IF fireInstantly /\ Fires(g)
       THEN /\ ClientGoes(c, "idle", "fire", TaskItem(NoTask, g, FALSE))
            /\ groupLock' = c
       ELSE /\ ClientGoes(c, "idle", "idle", NoItem)
            /\ UNCHANGED groupLock
    /\ UNCHANGED <<queue, gate, existGroups, activeGroups, groupTaskCount,
                   workers, lifetime, done>>

(* fireGroup(), called by a client or from setCallbackForGroup(); it       *)
(* changes nothing where the group has no tasks.                           *)
FireGroup(c, g) ==
    /\ pool = "up" /\ groupLock = Nobody /\ Fires(g)
    /\ citem[c].groupID \in {NoGroup, g}
    /\ cpc[c] \in {"idle", "fire"} /\ ClientGoes(c, cpc[c], "idle", NoItem)
    /\ activeGroups' = activeGroups \cup {g}
    /\ UNCHANGED <<queue, gate, groupLock, existGroups, groupTaskCount,
                   groupCallback, workers, lifetime, done>>

-----------------------------------------------------------------------------
(* workLoop() *)

(* while (!stopFlag.load()) *)
LoopTop(w) == OnlyGoes(w, "loop", IF stopFlag THEN "exit" ELSE "gate")

(* barrierActive.load() == false *)
ReadGate(w) == OnlyGoes(w, "gate", IF barrierActive THEN "loop" ELSE "acquire")

(* _tasksSem.acquire() *)
AcquirePermit(w) ==
    /\ WorkerGoes(w, "acquire", "woken")
    /\ tasksSem > 0
    /\ tasksSem' = tasksSem - 1
    /\ UNCHANGED <<tasksQ, pushed, gate, groups, cur, atPop, clients, lifetime, done>>

(* Fault: a woken worker does not look at stopFlag again. *)
NoStopCheck(w) == OnlyGoes(w, "woken", "take")

StopCheck(w) == OnlyGoes(w, "woken", IF stopFlag THEN "exit" ELSE "take")

(* Fault: the item is copied and stays in the queue. *)
CopyFront(w) ==
    /\ cur' = [cur EXCEPT ![w] = IF tasksQ = << >> THEN NoItem ELSE Head(tasksQ)]
    /\ UNCHANGED tasksQ

(* The front of the queue is moved out and popped. *)
PopFront(w) ==
    /\ cur' = [cur EXCEPT ![w] = IF tasksQ = << >> THEN NoItem ELSE Head(tasksQ)]
    /\ tasksQ' = IF tasksQ = << >> THEN << >> ELSE Tail(tasksQ)

(* Under _tasksLock; an empty queue sends the worker back to the loop. *)
TakeTask(w) ==
    /\ WorkerGoes(w, "take", IF tasksQ = << >> THEN "loop" ELSE "start")
    /\ PopFront(w)
    /\ atPop' = IF StaleReads THEN [atPop EXCEPT ![w] = Len(pushed)] ELSE atPop
    /\ UNCHANGED <<tasksSem, pushed, gate, groups, clients, lifetime, done>>

(* task.isBarrier, task.groupID and, for a group's task, task.func are     *)
(* read through a reference into the queue, after pop() destroyed the item *)
(* and may have freed its memory: with StaleReads it may by now hold an    *)
(* item that was queued since.                                             *)
QueuedSince(w) == {j \in DOMAIN tasksQ : Len(pushed) - Len(tasksQ) + j > atPop[w]}

Overwriting(w) == IF StaleReads THEN {tasksQ[j] : j \in QueuedSince(w)} ELSE {}

SeenItems(w) == {cur[w]} \cup Overwriting(w)

StartBarrier(w) ==
    /\ \E item \in SeenItems(w) : item.isBarrier
    /\ WorkerGoes(w, "start", "drain")
    /\ barrierActive' = TRUE
    /\ UNCHANGED <<queue, normalTaskCount, groups, cur, atPop, clients, lifetime, done>>

(* Fault: a running task is not counted. *)
CountNothing(d) == UNCHANGED normalTaskCount

(* normalTaskCount.fetch_add and fetch_sub *)
CountNormal(d) == normalTaskCount' = normalTaskCount + d

StartNormal(w) ==
    /\ \E item \in SeenItems(w) : ~item.isBarrier
    /\ WorkerGoes(w, "start", "group")
    /\ CountNormal(1)
    /\ UNCHANGED <<queue, barrierActive, groups, cur, atPop, clients, lifetime, done>>

(* task.groupID is read to tell a task of a group, and again by            *)
(* excueteGroupTask(), which goes on with what it read.                    *)
ReadGroup(w) ==
    /\ \E item, again \in SeenItems(w) :
           IF item.groupID = NoGroup
           THEN WorkerGoes(w, "group", "run") /\ UNCHANGED cur
           ELSE /\ WorkerGoes(w, "group", "gwait")
                /\ cur' = [cur EXCEPT ![w].groupID = again.groupID]
    /\ UNCHANGED <<queue, gate, groups, atPop, clients, lifetime, done>>

(* The task a worker holds has run to its end, and is let go. *)
TaskEnds(w) == done' = done \cup {cur[w].func}
DropTask(w) == cur' = [cur EXCEPT ![w] = NoItem] /\ atPop' = [atPop EXCEPT ![w] = 0]

(* Fault: the barrier starts while one normal task still runs. *)
SeeOneNormalTask(w) == normalTaskCount <= 1 /\ OnlyGoes(w, "drain", "barrier")

(* while (normalTaskCount.load() != 0) *)
SeeNoNormalTask(w) == normalTaskCount = 0 /\ OnlyGoes(w, "drain", "barrier")

EndBarrier(w) ==
    /\ WorkerGoes(w, "barrier", "lift")
    /\ TaskEnds(w) /\ DropTask(w)
    /\ UNCHANGED <<queue, gate, groups, clients, lifetime>>

(* Fault: the gate stays shut after the barrier. *)
KeepGateShut(w) == OnlyGoes(w, "lift", "loop")

LiftBarrier(w) ==
    /\ WorkerGoes(w, "lift", "loop")
    /\ barrierActive' = FALSE
    /\ UNCHANGED <<queue, normalTaskCount, groups, cur, atPop, clients, lifetime, done>>

EndNormal(w) ==
    /\ WorkerGoes(w, "run", "finish")
    /\ TaskEnds(w) /\ DropTask(w)
    /\ UNCHANGED <<queue, gate, groups, clients, lifetime>>

FinishNormal(w) ==
    /\ WorkerGoes(w, "finish", "loop")
    /\ CountNormal(-1)
    /\ UNCHANGED <<queue, barrierActive, groups, cur, atPop, clients, lifetime, done>>

-----------------------------------------------------------------------------
(* excueteGroupTask() *)

(* The loop that reads _activeGroups, without its lock. *)
SeeGroupActive(w) == cur[w].groupID \in activeGroups /\ OnlyGoes(w, "gwait", "grun")

(* task.func() runs what is left of the function workLoop() moved out of   *)
(* the item: it may still be the task, or throw bad_function_call, which   *)
(* nothing in the thread catches.  It may also be the function of an item  *)
(* that took the place of this one.                                        *)
RunGroupTask(w) ==
    /\ \/ /\ "runs" \in MovedFromOutcomes
          /\ WorkerGoes(w, "grun", "glock")
          /\ TaskEnds(w)
          /\ UNCHANGED pool
       \/ /\ WorkerGoes(w, "grun", "glock")
          /\ \E other \in Overwriting(w) : done' = done \cup {other.func}
          /\ UNCHANGED pool
       \/ /\ "throws" \in MovedFromOutcomes
          /\ WorkerGoes(w, "grun", "grun")
          /\ pool' = "terminated"
          /\ UNCHANGED done
    /\ UNCHANGED <<queue, gate, groups, cur, atPop, clients, stopFlag>>


(* eraseRecordForGroupId() *)
EraseGroup(g) ==
    /\ existGroups' = existGroups \ {g}
    /\ activeGroups' = activeGroups \ {g}
    /\ groupCallback' = groupCallback \ {g}
    /\ groupTaskCount' = [groupTaskCount EXCEPT ![g] = 0]

(* Fault: the test comes before the decrement. *)
OneLeft(g) == groupTaskCount[g] \in {1, 2}

(* --_groupActiveTaskCount[groupId] is zero *)
IsLast(g) == groupTaskCount[g] = 1

(* Under _groupOptLock the task counts itself off, and others are left; *)
FinishGroupTask(w) ==
    /\ WorkerGoes(w, "glock", "finish")
    /\ groupLock = Nobody /\ ~IsLast(cur[w].groupID)
    /\ groupTaskCount' = [groupTaskCount EXCEPT ![cur[w].groupID] = @ - 1]
    /\ DropTask(w)
    /\ UNCHANGED <<queue, gate, groupLock, existGroups, activeGroups, groupCallback,
                   clients, lifetime, done>>

(* the last one calls the callback, still under the lock: one that calls a *)
(* function of the groups waits there for its own worker; ...              *)
StartCallback(w) ==
    /\ WorkerGoes(w, "glock", "callback")
    /\ groupLock = Nobody /\ IsLast(cur[w].groupID)
    /\ cur[w].groupID \in groupCallback
    /\ groupTaskCount' = [groupTaskCount EXCEPT ![cur[w].groupID] = @ - 1]
    /\ groupLock' = w
    /\ UNCHANGED <<queue, gate, existGroups, activeGroups, groupCallback, cur, atPop,
                   clients, lifetime, done>>

EndCallback(w) ==
    /\ WorkerGoes(w, "callback", "finish")
    /\ ~CallbacksCallBack
    /\ EraseGroup(cur[w].groupID)
    /\ groupLock' = Nobody
    /\ DropTask(w)
    /\ UNCHANGED <<queue, gate, clients, lifetime, done>>

(* ... or, without a callback, clears the group at once.                   *)
FinishGroup(w) ==
    /\ WorkerGoes(w, "glock", "finish")
    /\ groupLock = Nobody /\ IsLast(cur[w].groupID)
    /\ cur[w].groupID \notin groupCallback
    /\ EraseGroup(cur[w].groupID)
    /\ DropTask(w)
    /\ UNCHANGED <<queue, gate, groupLock, clients, lifetime, done>>

-----------------------------------------------------------------------------
(* ~BHGCDController(): nobody is in a call of the object any more.          *)

Stop ==
    /\ pool = "up" /\ \A c \in Clients : cpc[c] = "idle"
    /\ pool' = "stopping"
    /\ stopFlag' = TRUE
    /\ UNCHANGED <<queue, gate, groups, workers, clients, done>>

(* Fault: one worker is woken. *)
OnePermit == 1

PermitsToStop == Cardinality(Workers)

(* _tasksSem.release(threads.size()) *)
WakeAll ==
    /\ pool = "stopping"
    /\ pool' = "joining"
    /\ tasksSem' = tasksSem + PermitsToStop
    /\ UNCHANGED <<tasksQ, pushed, gate, groups, workers, clients, stopFlag, done>>

Join ==
    /\ pool = "joining"
    /\ \A w \in Workers : wpc[w] = "exit"
    /\ pool' = "down"
    /\ UNCHANGED <<queue, gate, groups, workers, clients, stopFlag, done>>

-----------------------------------------------------------------------------
Client(c) ==
    \/ \E t \in Tasks : Enqueue(c, t) \/ EnqueueBarrier(c, t)
    \/ \E t \in Tasks, g \in Groups : EnqueueGroupAsNormal(c, t, g) \/ EnqueueGroup(c, t, g)
    \/ \E g \in Groups, fireInstantly \in FireArguments : SetCallbackForGroup(c, g, fireInstantly)
    \/ \E g \in Groups : FireGroup(c, g)
    \/ GetGroupId(c) \/ PushGroupTask(c) \/ Release(c)

Worker(w) ==
    \/ LoopTop(w) \/ ReadGate(w) \/ AcquirePermit(w) \/ StopCheck(w) \/ TakeTask(w)
    \/ StartBarrier(w) \/ SeeNoNormalTask(w) \/ EndBarrier(w) \/ LiftBarrier(w)
    \/ StartNormal(w) \/ ReadGroup(w) \/ EndNormal(w) \/ FinishNormal(w)
    \/ SeeGroupActive(w) \/ RunGroupTask(w) \/ FinishGroupTask(w)
    \/ StartCallback(w) \/ EndCallback(w) \/ FinishGroup(w)

Destructor == Stop \/ WakeAll \/ Join

Next ==
    \/ \E c \in Clients : Client(c)
    \/ \E w \in Workers : Worker(w)
    \/ Destructor

Spec == Init /\ [][Next]_vars

(* The operating system runs every worker; a call that has begun, and the  *)
(* destructor, go on; tasks and callbacks return.  Nobody has to submit,   *)
(* to fire a group or to destroy the pool.                                 *)
Fairness ==
    /\ \A w \in Workers : WF_vars(Worker(w))
    /\ \A c \in Clients : WF_vars(PushGroupTask(c) \/ Release(c))
    /\ WF_vars(WakeAll \/ Join)

FairSpec == Spec /\ Fairness
=============================================================================
