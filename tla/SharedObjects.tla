---------------------------- MODULE SharedObjects ----------------------------
(***************************************************************************)
(* Objects derived from RefCountedPooledObject, the PooledSharedPtr        *)
(* handles of several threads, and the SegmentedObjectPool the objects     *)
(* come from and go back to.  An object has one member that is a handle    *)
(* itself (the next node of a list, say), set when it is constructed.      *)
(*                                                                         *)
(* Releasing a handle may be the start of a long call: the object's        *)
(* reset(), the pool's lock, the destructor, and the same for the member   *)
(* of the object; calls[t] is the stack of what t still has to do.         *)
(***************************************************************************)
EXTENDS Integers, Sequences, FiniteSets

CONSTANTS Threads,
          Vars,              \* the handles each thread has as variables
          MaxObjects,        \* bound: the objects that exist at once
          Null,              \* a null pointer
          ResetDropsMember,  \* whether the reset() of the class resets the member
          MovesFromMember,   \* whether h = std::move(h->member) is written
          ClearsUsedPool     \* whether a pool that gave slots out is cleared

Slots == 1 .. MaxObjects

ASSUME ObjectsAssumption == MaxObjects \in Nat /\ Null \notin Slots

VARIABLES
    ptr,     \* ptr[t][v]: PooledSharedPtr::ptr_ of variable v of thread t
    member,  \* member[x]: ptr_ of the member of object x
    refs,    \* refs[x]: ref_count_
    pool,    \* free: free_stack_, top first; made: slots ever used; live, locked
    built,   \* the slots that hold a constructed object (history)
    calls    \* calls[t]: what t has to do, the innermost call first

vars == <<ptr, member, refs, pool, built, calls>>

Init ==
    /\ ptr = [t \in Threads |-> [v \in Vars |-> Null]]
    /\ member = [x \in Slots |-> Null]
    /\ refs = [x \in Slots |-> 0]
    /\ pool = [free |-> << >>, made |-> 0, live |-> 0, locked |-> FALSE]
    /\ built = {}
    /\ calls = [t \in Threads |-> << >>]

Idle(t) == calls[t] = << >>
At(t, label) == ~Idle(t) /\ Head(calls[t]).at = label
Doing(t) == Head(calls[t])

(* The innermost call of t goes on as steps; << >> ends it. *)
GoOn(t, steps) == calls' = [calls EXCEPT ![t] = steps \o Tail(@)]

Set(t, v, x) == ptr' = [ptr EXCEPT ![t][v] = x]

(* A call of release_ref(), unless the pointer is null. *)
Released(x) == IF x = Null THEN << >> ELSE <<[at |-> "sub", obj |-> x]>>

(* add_ref(), unless the pointer is null. *)
AddRef(x) == refs' = IF x = Null THEN refs ELSE [refs EXCEPT ![x] = @ + 1]

-----------------------------------------------------------------------------
(* PooledSharedPtr *)

(* The copy constructor, for a variable of the same thread or for one that *)
(* another thread is given (an argument of a thread, an element of a       *)
(* queue); shared_from_this() adds the same reference.                     *)
Copy(t, v, u, w) ==
    /\ Idle(t) /\ Idle(u)
    /\ ptr[t][v] # Null /\ ptr[u][w] = Null
    /\ AddRef(ptr[t][v])
    /\ Set(u, w, ptr[t][v])
    /\ UNCHANGED <<member, pool, built, calls>>

(* What a handle may be assigned: another variable of its thread, or the   *)
(* member of the object it points to (h = h->next).                        *)
Sources(t, v) == {ptr[t][w] : w \in Vars \ {v}}
                 \cup {member[x] : x \in {ptr[t][v]} \ {Null}}

(* Fault: the pointer is copied and the object is not told. *)
AssignUncounted(t, v) ==
    /\ Idle(t)
    /\ \E x \in Sources(t, v) : Set(t, v, x)
    /\ calls' = [calls EXCEPT ![t] = Released(ptr[t][v])]
    /\ UNCHANGED <<member, refs, pool, built>>

(* Copy assignment: the temporary adds the reference, and after the swap   *)
(* it releases what the handle pointed to.                                 *)
Assign(t, v) ==
    /\ Idle(t)
    /\ \E x \in Sources(t, v) : AddRef(x) /\ Set(t, v, x)
    /\ calls' = [calls EXCEPT ![t] = Released(ptr[t][v])]
    /\ UNCHANGED <<member, pool, built>>

(* reset(), and the destructor of a handle *)
Drop(t, v) ==
    /\ Idle(t) /\ ptr[t][v] # Null
    /\ Set(t, v, Null)
    /\ calls' = [calls EXCEPT ![t] = Released(ptr[t][v])]
    /\ UNCHANGED <<member, refs, pool, built>>

(* Move assignment releases first and reads the other handle afterwards.   *)
(* The other handle is a variable, or the member of the object that is     *)
(* being released; want is what it points to now.                          *)
MoveAssign(t, v) ==
    /\ Idle(t) /\ ptr[t][v] # Null
    /\ \E from \in [var : Vars \ {v}, obj : {Null}]
                   \cup (IF MovesFromMember THEN [var : {v}, obj : {ptr[t][v]}] ELSE {}) :
           LET want == IF from.obj = Null THEN ptr[t][from.var] ELSE member[from.obj]
           IN  calls' = [calls EXCEPT ![t] = Released(ptr[t][v])
                             \o <<[at |-> "take", to |-> v, from |-> from, want |-> want]>>]
    /\ Set(t, v, Null)
    /\ UNCHANGED <<member, refs, pool, built>>

TakeOver(t) ==
    /\ At(t, "take")
    /\ LET to == Doing(t).to
           from == Doing(t).from
       IN  IF from.obj = Null
           THEN /\ ptr' = [ptr EXCEPT ![t][to] = ptr[t][from.var], ![t][from.var] = Null]
                /\ UNCHANGED member
           ELSE /\ Set(t, to, member[from.obj])
                /\ member' = [member EXCEPT ![from.obj] = Null]
    /\ GoOn(t, << >>)
    /\ UNCHANGED <<refs, pool, built>>

-----------------------------------------------------------------------------
(* atomic_make_shared() *)

Makers == {t \in Threads : At(t, "lockToMake") \/ At(t, "make")}

(* t makes an object for v; the member takes over the handle w. *)
Make(t, v, w) ==
    /\ Idle(t) /\ v # w /\ ptr[t][v] = Null
    /\ Cardinality(built) + Cardinality(Makers) < MaxObjects
    /\ calls' = [calls EXCEPT ![t] = <<[at |-> "lockToMake", for |-> v, arg |-> w]>>]
    /\ UNCHANGED <<ptr, member, refs, pool, built>>

(* The LockGuard of atomic_allocate() and of atomic_deallocate(): a plain  *)
(* spin lock, which its owner cannot take twice.                           *)
Lock(t) ==
    /\ At(t, "lockToMake") \/ At(t, "lockToFree")
    /\ ~pool.locked
    /\ pool' = [pool EXCEPT !.locked = TRUE]
    /\ GoOn(t, <<[Doing(t) EXCEPT !.at = IF @ = "lockToMake" THEN "make" ELSE "destroy"]>>)
    /\ UNCHANGED <<ptr, member, refs, built>>

(* Fault: the slot stays on the stack. *)
AllocateAndKeepFree(t) ==
    /\ At(t, "make")
    /\ LET x == IF pool.free # << >> THEN Head(pool.free) ELSE pool.made + 1
           w == Doing(t).arg
       IN  /\ pool' = [pool EXCEPT !.made = IF pool.free # << >> THEN @ ELSE @ + 1,
                                   !.live = @ + 1, !.locked = FALSE]
           /\ member' = [member EXCEPT ![x] = ptr[t][w]]
           /\ Set(t, w, Null)
           /\ refs' = [refs EXCEPT ![x] = 0]
           /\ built' = built \cup {x}
           /\ GoOn(t, <<[at |-> "own", obj |-> x, for |-> Doing(t).for]>>)

(* allocate(): the slot freed last or a new one, the constructor with its  *)
(* argument, mark_in_use() and the count; then the lock is let go.         *)
Allocate(t) ==
    /\ At(t, "make")
    /\ LET reused == pool.free # << >>
           x == IF reused THEN Head(pool.free) ELSE pool.made + 1
           w == Doing(t).arg
       IN  /\ pool' = [pool EXCEPT !.free = IF reused THEN Tail(@) ELSE @,
                                   !.made = IF reused THEN @ ELSE @ + 1,
                                   !.live = @ + 1, !.locked = FALSE]
           /\ member' = [member EXCEPT ![x] = ptr[t][w]]
           /\ Set(t, w, Null)
           /\ refs' = [refs EXCEPT ![x] = 0]
           /\ built' = built \cup {x}
           /\ GoOn(t, <<[at |-> "own", obj |-> x, for |-> Doing(t).for]>>)

(* init_shared_owner_count_() and adopt(), after the lock *)
Own(t) ==
    /\ At(t, "own")
    /\ refs' = [refs EXCEPT ![Doing(t).obj] = 1]
    /\ Set(t, Doing(t).for, Doing(t).obj)
    /\ GoOn(t, << >>)
    /\ UNCHANGED <<member, pool, built>>

-----------------------------------------------------------------------------
(* release_ref() *)

(* fetch_sub: the thread that takes the last reference off goes on. *)
Subtract(t) ==
    /\ At(t, "sub")
    /\ LET x == Doing(t).obj
       IN  /\ refs' = [refs EXCEPT ![x] = @ - 1]
           /\ GoOn(t, IF refs[x] = 1 THEN <<[at |-> "reset", obj |-> x]>> ELSE << >>)
    /\ UNCHANGED <<ptr, member, pool, built>>

(* The member of x is released, and then t goes on with x at label. *)
DropMember(t, x, label) ==
    /\ member' = [member EXCEPT ![x] = Null]
    /\ GoOn(t, Released(member[x]) \o <<[at |-> label, obj |-> x]>>)
    /\ UNCHANGED <<ptr, refs, pool, built>>

(* Fault: nothing is dropped before the lock is taken. *)
ResetNothing(t) ==
    /\ At(t, "reset")
    /\ GoOn(t, <<[at |-> "lockToFree", obj |-> Doing(t).obj]>>)
    /\ UNCHANGED <<ptr, member, refs, pool, built>>

(* The virtual reset(), and recycled_ = true. *)
Reset(t) ==
    /\ At(t, "reset")
    /\ IF ResetDropsMember
       THEN DropMember(t, Doing(t).obj, "lockToFree")
       ELSE /\ GoOn(t, <<[at |-> "lockToFree", obj |-> Doing(t).obj]>>)
            /\ UNCHANGED <<ptr, member, refs, pool, built>>

(* deallocate() destroys the object, its member included, under the lock. *)
Destroy(t) == At(t, "destroy") /\ DropMember(t, Doing(t).obj, "free")

(* The slot is free, and the lock is let go. *)
Free(t) ==
    /\ At(t, "free")
    /\ pool' = [pool EXCEPT !.free = <<Doing(t).obj>> \o @, !.live = @ - 1, !.locked = FALSE]
    /\ built' = built \ {Doing(t).obj}
    /\ GoOn(t, << >>)
    /\ UNCHANGED <<ptr, member, refs>>

-----------------------------------------------------------------------------
(* atomic_clear(), when no object is left: the segments are deleted, and   *)
(* free_stack_ is kept.                                                    *)
Clear ==
    /\ \A u \in Threads : Idle(u)
    /\ built = {} /\ (pool.free = << >> \/ ClearsUsedPool)
    /\ pool' = [pool EXCEPT !.made = 0, !.live = 0]
    /\ UNCHANGED <<ptr, member, refs, built, calls>>

-----------------------------------------------------------------------------
Step(t) == TakeOver(t) \/ Allocate(t) \/ Own(t) \/ Subtract(t) \/ Reset(t) \/ Destroy(t) \/ Free(t)

Next ==
    \/ \E t \in Threads :
           \/ \E v, w \in Vars, u \in Threads : Copy(t, v, u, w)
           \/ \E v \in Vars : Assign(t, v) \/ Drop(t, v) \/ MoveAssign(t, v)
           \/ \E v, w \in Vars : Make(t, v, w)
           \/ Lock(t) \/ Step(t)
    \/ Clear

Spec == Init /\ [][Next]_vars

(* Calls go on.  Nothing is assumed of who gets the pool's lock. *)
Fairness == \A t \in Threads : WF_vars(Step(t))

FairSpec == Spec /\ Fairness

-----------------------------------------------------------------------------
(* The calls that t is in, each with its depth in the stack.               *)
Frames(t) == {<<Len(calls[t]) - i, calls[t][i]>> : i \in DOMAIN calls[t]}

(* The handles and members that point to x, and the releases on their way. *)
Owners(x) ==
    {<<"variable", h>> : h \in {tv \in Threads \X Vars : ptr[tv[1]][tv[2]] = x}}
    \cup {<<"member", y>> : y \in {z \in built : member[z] = x}}
    \cup UNION {{<<"release", <<t, f>>>> : f \in {g \in Frames(t) : g[2].at = "sub" /\ g[2].obj = x}} :
                    t \in Threads}

(* The count of every object is the number of handles and members that     *)
(* point to it and of releases still to come, through every interleaving   *)
(* of copies, assignments and releases of several threads; nothing points  *)
(* to a slot that holds no object (PooledSharedPtr, release_ref).          *)
RefCountExact == \A x \in Slots : Cardinality(Owners(x)) = IF x \in built THEN refs[x] ELSE 0

(* Every slot the pool gave out holds an object or is once on the free     *)
(* stack, and live_count_ counts the former (atomic_allocate,              *)
(* atomic_deallocate).                                                     *)
SlotsOnce ==
    LET freeSlots == {pool.free[i] : i \in 1 .. Len(pool.free)}
    IN  /\ freeSlots \cup built = 1 .. pool.made
        /\ Len(pool.free) + Cardinality(built) = pool.made
        /\ pool.live = Cardinality(built)

(* Whoever takes the pool's lock lets it go: no destructor that runs under *)
(* it comes back to it.                                                    *)
PoolLockFalls == pool.locked ~> ~pool.locked

(* A handle that is move-assigned points to what the other handle pointed  *)
(* to when the call began (operator=).  It is so unless the other handle   *)
(* is a member of the object released (MovesFromMember).                   *)
MoveKeepsObject ==
    [][\A t \in Threads : TakeOver(t) => ptr'[t][Doing(t).to] = Doing(t).want]_vars
=============================================================================
