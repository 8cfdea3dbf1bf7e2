------------------------------ MODULE BucketMap ------------------------------
(***************************************************************************)
(* The map of buckets of BlockMemPool: bucketForSize(), called by several  *)
(* threads, looks for the bucket of a size under the read half of an       *)
(* RWSmartLock and, when there is none, emplaces one under the write half. *)
(* What a bucket does is in BlockMemPool.                                  *)
(*                                                                         *)
(* RWSmartLock lets a reader in beside a writer now and then.  A search in *)
(* a table that emplace() is rebuilding has no defined outcome; here it    *)
(* may miss a bucket that is there.                                        *)
(***************************************************************************)
EXTENDS Integers, Sequences, TLC

CONSTANTS Threads,
          Requests,       \* the sizes that are asked for
          MinBlockSize,   \* _minBlockSize, a power of two
          Word,           \* one more than the largest std::size_t
          NoBucket

VARIABLES flag, readCount, pc,   \* of _bucketMapLock
          buckets,               \* _buckets: the bucket of each size
          order,                 \* _bucketOrder
          call                   \* call[t]: the call of bucketForSize() t is in

vars == <<flag, readCount, pc, buckets, order, call>>

MapLock == INSTANCE RWSmartLock

NoCall == [step |-> "none", request |-> 0, bucket |-> NoBucket]

Init ==
    /\ MapLock!Init
    /\ buckets = << >>
    /\ order = << >>
    /\ call = [t \in Threads |-> NoCall]

-----------------------------------------------------------------------------
(* round_up_power_of_two(); the sum of the last line wraps. *)
RoundUpPowerOfTwo(n) ==
    LET powers == {2 ^ k : k \in 0 .. n}
    IN  (CHOOSE p \in powers : p >= n /\ \A q \in powers : q >= n => p <= q) % Word

Larger(m, n) == IF m < n THEN n ELSE m

ChooseBucketSize(request) ==
    Larger(RoundUpPowerOfTwo(Larger(request, MinBlockSize)), MinBlockSize)

SizeFor(t) == ChooseBucketSize(call[t].request)

At(t, step) == call[t].step = step
GoTo(t, step) == call' = [call EXCEPT ![t].step = step]

-----------------------------------------------------------------------------
AskFor(t, request) ==
    /\ At(t, "none")
    /\ MapLock!ReadLock(t)
    /\ call' = [call EXCEPT ![t] = [NoCall EXCEPT !.step = "find", !.request = request]]
    /\ UNCHANGED <<buckets, order>>

(* The loops of the lock, for readers and for writers. *)
PassLock(t) ==
    /\ \/ MapLock!SeeNoWriter(t) \/ MapLock!CountReader(t)
       \/ MapLock!RaiseFlag(t) \/ MapLock!SeeNoReader(t)
    /\ UNCHANGED <<buckets, order, call>>

Emplacing == {w \in Threads : pc[w] = "writing" /\ At(w, "insert")}

(* What find() may return. *)
Found(size) ==
    (IF size \in DOMAIN buckets THEN {buckets[size]} ELSE {NoBucket})
    \cup (IF Emplacing # {} THEN {NoBucket} ELSE {})

LookUp(t) ==
    /\ pc[t] = "reading" /\ At(t, "find")
    /\ \E found \in Found(SizeFor(t)) :
           call' = [call EXCEPT ![t].bucket = found, ![t].step = "found"]
    /\ UNCHANGED <<flag, readCount, pc, buckets, order>>

LeaveRead(t) ==
    /\ At(t, "found")
    /\ MapLock!ReadUnlock(t)
    /\ GoTo(t, IF call[t].bucket = NoBucket THEN "insert" ELSE "return")
    /\ UNCHANGED <<buckets, order>>

StartWrite(t) ==
    /\ At(t, "insert")
    /\ MapLock!WriteLock(t)
    /\ UNCHANGED <<buckets, order, call>>

(* Fault: a bucket that another thread put there since is replaced. *)
EmplacedAnyway(size) == (size :> Len(order) + 1) @@ buckets

(* emplace() keeps a bucket that is already there. *)
Emplaced(size) ==
    [s \in DOMAIN buckets \cup {size} |->
        IF s \in DOMAIN buckets THEN buckets[s] ELSE Len(order) + 1]

Emplace(t) ==
    /\ t \in Emplacing
    /\ buckets' = Emplaced(SizeFor(t))
    /\ call' = [call EXCEPT ![t].bucket = buckets'[SizeFor(t)],
                            ![t].step = IF SizeFor(t) \in DOMAIN buckets THEN "leave" ELSE "list"]
    /\ UNCHANGED <<flag, readCount, pc, order>>

ListSize(t) ==
    /\ At(t, "list")
    /\ order' = Append(order, SizeFor(t))
    /\ GoTo(t, "leave")
    /\ UNCHANGED <<flag, readCount, pc, buckets>>

LeaveWrite(t) ==
    /\ At(t, "leave")
    /\ MapLock!WriteUnlock(t)
    /\ GoTo(t, "return")
    /\ UNCHANGED <<buckets, order>>

(* allocate() goes on with the bucket, and is over. *)
Return(t) ==
    /\ At(t, "return")
    /\ call' = [call EXCEPT ![t] = NoCall]
    /\ UNCHANGED <<flag, readCount, pc, buckets, order>>

(* clear(), when nobody else uses the pool *)
Clear ==
    /\ \A t \in Threads : At(t, "none")
    /\ buckets' = << >>
    /\ order' = << >>
    /\ UNCHANGED <<flag, readCount, pc, call>>

Next ==
    \/ \E t \in Threads :
           \/ \E request \in Requests : AskFor(t, request)
           \/ PassLock(t) \/ LookUp(t) \/ LeaveRead(t) \/ StartWrite(t)
           \/ Emplace(t) \/ ListSize(t) \/ LeaveWrite(t) \/ Return(t)
    \/ Clear

Spec == Init /\ [][Next]_vars

-----------------------------------------------------------------------------
SizesListed == {order[i] : i \in 1 .. Len(order)}

(* No request is so large that the power of two above it wraps to zero.    *)
RequestsFit == \A r \in Requests : ChooseBucketSize(r) >= r

(* Whatever the threads that miss a bucket at the same time do, all calls  *)
(* for one size are answered with one bucket, its blocks have room for     *)
(* what was asked for, and the list of sizes has each size of the map once *)
(* (bucketForSize, and bucketSizes that reads the list).                   *)
OneBucketPerSize ==
    /\ \A t \in Threads : At(t, "return") =>
           /\ SizeFor(t) >= call[t].request
           /\ SizeFor(t) \in DOMAIN buckets
           /\ call[t].bucket = buckets[SizeFor(t)]
    /\ (\A t \in Threads : ~At(t, "list")) =>
           /\ SizesListed = DOMAIN buckets
           /\ \A i, j \in 1 .. Len(order) : order[i] = order[j] => i = j
=============================================================================
