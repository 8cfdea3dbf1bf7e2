------------------------------ MODULE SegVector ------------------------------
(***************************************************************************)
(* SegmentVector: vectors that share a control block until one of them is  *)
(* written to.  The elements are in segments of SEGMENT_SIZE elements,     *)
(* which go to a stack common to all vectors when their block is freed and *)
(* come back from it with what was in them.  The array of pointers to the  *)
(* segments of a block is a sequence.                                      *)
(***************************************************************************)
EXTENDS Integers, Sequences, FiniteSets, SequencesExt

CONSTANTS
    Vectors,        \* the vectors of the program, which name control blocks too
    Elements,
    Default,        \* the elements of a new segment
    Null,           \* the ctrl of a vector that was moved from
    SEGMENT_SIZE,   \* the system's page size divided by the size of an element
    MaxSize,        \* bound: the elements of a vector
    MaxSegments,    \* bound: the segments that are allocated
    AssignsToMoved, \* whether a vector that was moved from is assigned a copy
    KeepsReferences \* whether what operator[] returned is used after other calls

VARIABLES
    mem,      \* ctrl: the control block of each vector; blocks: size, segments and
              \* refCount of each block; cells: the elements of each segment;
              \* freed: _freeSegments, top last
    crashed,  \* a null control block was used (history)
    ref,      \* the T& that operator[] of a vector returned, while it is used
    seqs      \* seqs[v]: the elements the same calls give a vector of its own

vars == <<mem, crashed, ref, seqs>>

NoBlock == [size |-> 0, segments |-> << >>, refCount |-> 0]
NewBlock == [NoBlock EXCEPT !.refCount = 1]

NoRef == [of |-> Null, idx |-> 0, segment |-> 0]

(* SEGMENT_SHIFT: getSegmentShift(SEGMENT_SIZE) *)
SEGMENT_SHIFT == CHOOSE n \in 0 .. SEGMENT_SIZE :
                     2 ^ n >= SEGMENT_SIZE /\ \A m \in 0 .. n - 1 : 2 ^ m < SEGMENT_SIZE

SEGMENT_MASK == SEGMENT_SIZE - 1

(* idx & SEGMENT_MASK, bit by bit *)
Masked(idx) ==
    LET bit(n, i) == (n \div 2 ^ i) % 2
    IN  MapThenSumSet(LAMBDA i : 2 ^ i * bit(idx, i) * bit(SEGMENT_MASK, i), 0 .. SEGMENT_SHIFT)

(* segIndex and subIndex, as positions that start at 1 *)
SegIndex(idx) == idx \div 2 ^ SEGMENT_SHIFT + 1
SubIndex(idx) == Masked(idx) + 1

Init ==
    /\ mem = [ctrl |-> [v \in Vectors |-> v], blocks |-> [c \in Vectors |-> NewBlock],
              cells |-> << >>, freed |-> << >>]
    /\ crashed = FALSE /\ ref = NoRef
    /\ seqs = [v \in Vectors |-> << >>]

BlockOf(v) == mem.blocks[mem.ctrl[v]]

-----------------------------------------------------------------------------
(* allocateSegment(): the segment freed last, as it is, or a new one *)
NextSegment(m) == IF m.freed # << >> THEN Last(m.freed) ELSE Len(m.cells) + 1

Allocated(m) ==
    IF m.freed # << >> THEN [m EXCEPT !.freed = Front(@)]
    ELSE [m EXCEPT !.cells = Append(@, [i \in 1 .. SEGMENT_SIZE |-> Default])]

HasSegments(n) == n <= Len(mem.freed) + MaxSegments - Len(mem.cells)

(* ~SegmentVector(): the last owner gives the segments back, the block goes. *)
Released(m, v) ==
    LET c == m.ctrl[v]
    IN  IF c = Null THEN m
        ELSE IF m.blocks[c].refCount > 1
        THEN [m EXCEPT !.blocks[c].refCount = @ - 1, !.ctrl[v] = Null]
        ELSE [m EXCEPT !.blocks[c] = NoBlock, !.ctrl[v] = Null,
                       !.freed = @ \o m.blocks[c].segments]

(* Where new ControlBlock() is put. *)
FreeBlock(m) == CHOOSE c \in Vectors : m.blocks[c].refCount = 0

(* deepCopy(): so many segments are copied, each to one that is allocated. *)
CopyOf(m, b) ==
    LET after[n \in 0 .. Len(b.segments)] ==
            IF n = 0 THEN [m |-> m, segments |-> << >>]
            ELSE LET x == NextSegment(after[n - 1].m)
                     a == Allocated(after[n - 1].m)
                 IN  [m |-> [a EXCEPT !.cells[x] = a.cells[b.segments[n]]],
                      segments |-> Append(after[n - 1].segments, x)]
    IN  after[Len(b.segments)]

(* Fault: the block is copied, and its segments stay shared. *)
DetachedShallow(m, v) ==
    LET b == m.blocks[m.ctrl[v]]
        c == FreeBlock(m)
    IN  IF b.refCount = 1 THEN m
        ELSE [m EXCEPT !.blocks[m.ctrl[v]].refCount = @ - 1,
                       !.blocks[c] = [b EXCEPT !.refCount = 1], !.ctrl[v] = c]

(* Fault: the owners of the old block are as many as before. *)
DetachedUncounted(m, v) ==
    LET b == m.blocks[m.ctrl[v]]
        copy == CopyOf(m, b)
        c == FreeBlock(m)
    IN  IF b.refCount = 1 \/ ~\E d \in Vectors : m.blocks[d].refCount = 0 THEN m
        ELSE [copy.m EXCEPT !.blocks[c] = [b EXCEPT !.segments = copy.segments, !.refCount = 1],
                            !.ctrl[v] = c]

(* detach() *)
Detached(m, v) ==
    LET b == m.blocks[m.ctrl[v]]
        copy == CopyOf(m, b)
        c == FreeBlock(m)
    IN  IF b.refCount = 1 THEN m
        ELSE [copy.m EXCEPT !.blocks[m.ctrl[v]].refCount = @ - 1,
                            !.blocks[c] = [b EXCEPT !.segments = copy.segments, !.refCount = 1],
                            !.ctrl[v] = c]

(* addSegment() *)
WithSegment(m, v) ==
    [Allocated(m) EXCEPT !.blocks[m.ctrl[v]].segments = Append(@, NextSegment(m))]

Stored(m, v, idx, x) ==
    [m EXCEPT !.cells[m.blocks[m.ctrl[v]].segments[SegIndex(idx)]][SubIndex(idx)] = x]

(* What is left of the reference once these vectors are changed. *)
RefWithout(changed) == IF KeepsReferences /\ ref.of \notin changed THEN ref ELSE NoRef

-----------------------------------------------------------------------------
(* What push_back() and operator[] may have to allocate. *)
Writable(v) == mem.ctrl[v] # Null /\ HasSegments(Len(BlockOf(v).segments) + 1)

PushBack(v, x) ==
    /\ Writable(v) /\ BlockOf(v).size < MaxSize
    /\ LET m == Detached(mem, v)
           b == m.blocks[m.ctrl[v]]
           room == IF b.size = Len(b.segments) * SEGMENT_SIZE THEN WithSegment(m, v) ELSE m
       IN  mem' = [Stored(room, v, b.size, x) EXCEPT !.blocks[m.ctrl[v]].size = @ + 1]
    /\ seqs' = [seqs EXCEPT ![v] = Append(@, x)]
    /\ ref' = RefWithout({v}) /\ UNCHANGED crashed

(* operator[]: v has its elements to itself when the reference is made. *)
Access(v, idx) ==
    /\ Writable(v) /\ idx < BlockOf(v).size
    /\ LET m == Detached(mem, v)
       IN  /\ mem' = m
           /\ ref' = [of |-> v, idx |-> idx,
                      segment |-> m.blocks[m.ctrl[v]].segments[SegIndex(idx)]]
    /\ UNCHANGED <<crashed, seqs>>

(* The caller stores through the reference: it is the vector he asked that *)
(* he means to write to.                                                   *)
Store(x) ==
    /\ ref # NoRef
    /\ mem' = [mem EXCEPT !.cells[ref.segment][SubIndex(ref.idx)] = x]
    /\ seqs' = [seqs EXCEPT ![ref.of][ref.idx + 1] = x]
    /\ UNCHANGED <<crashed, ref>>

(* The destructor, and SegmentVector() for the next vector of that name. *)
Renew(v) ==
    /\ LET m == Released(mem, v)
           c == FreeBlock(m)
       IN  mem' = [m EXCEPT !.blocks[c] = NewBlock, !.ctrl[v] = c]
    /\ seqs' = [seqs EXCEPT ![v] = << >>]
    /\ ref' = RefWithout({v}) /\ UNCHANGED crashed

(* Copy assignment releases what v has without asking whether it has       *)
(* anything; the copy constructor has nothing to release.                  *)
CopyAssign(v, w) ==
    /\ v # w /\ mem.ctrl[w] # Null
    /\ mem.ctrl[v] # Null \/ AssignsToMoved
    /\ mem' = [Released(mem, v) EXCEPT !.ctrl[v] = mem.ctrl[w],
                                       !.blocks[mem.ctrl[w]].refCount = @ + 1]
    /\ crashed' = (crashed \/ mem.ctrl[v] = Null)
    /\ seqs' = [seqs EXCEPT ![v] = seqs[w]]
    /\ ref' = RefWithout({v})

MoveAssign(v, w) ==
    /\ v # w
    /\ mem' = [Released(mem, v) EXCEPT !.ctrl[v] = mem.ctrl[w], !.ctrl[w] = Null]
    /\ seqs' = [seqs EXCEPT ![v] = seqs[w], ![w] = << >>]
    /\ ref' = RefWithout({v, w}) /\ UNCHANGED crashed

Next ==
    \/ \E v \in Vectors :
           \/ \E x \in Elements : PushBack(v, x)
           \/ \E idx \in 0 .. MaxSize : Access(v, idx)
           \/ Renew(v)
           \/ \E w \in Vectors : CopyAssign(v, w) \/ MoveAssign(v, w)
    \/ \E x \in Elements : Store(x)

Spec == Init /\ [][Next]_vars

-----------------------------------------------------------------------------
Read(v, idx) == mem.cells[BlockOf(v).segments[SegIndex(idx)]][SubIndex(idx)]

(* "Supports copy-on-write control blocks": whatever is shared, each       *)
(* vector reads at every index what was stored there through that vector   *)
(* or, before it was copied, through the one it was copied from, and a     *)
(* store through another vector never shows.                               *)
VectorsAreValues ==
    /\ ~crashed
    /\ \A v \in Vectors :
           mem.ctrl[v] # Null =>
               [i \in 1 .. BlockOf(v).size |-> Read(v, i - 1)] = seqs[v]

(* A block has as many owners as its count says, and a segment belongs to  *)
(* one owned block or is once on the stack: none is lost, and none is given *)
(* to two blocks.                                                          *)
SegmentsOwnedOnce ==
    LET owned == {c \in Vectors : mem.blocks[c].refCount > 0}
        places == {p \in owned \X (1 .. MaxSegments) : p[2] <= Len(mem.blocks[p[1]].segments)}
    IN  /\ \A c \in Vectors :
               mem.blocks[c].refCount = Cardinality({v \in Vectors : mem.ctrl[v] = c})
        /\ {mem.blocks[p[1]].segments[p[2]] : p \in places} \cup Range(mem.freed)
               = DOMAIN mem.cells
        /\ Cardinality(places) + Len(mem.freed) = Len(mem.cells)
=============================================================================
