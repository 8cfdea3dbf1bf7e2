---------------------------- MODULE MCContainers ----------------------------
(***************************************************************************)
(* The sequential containers that keep their elements in the pools, for    *)
(* TLC in one run: container says which of them the program uses, and the  *)
(* others stay empty.  PooledList is extended; the others have variables   *)
(* of their own here.                                                      *)
(***************************************************************************)
EXTENDS PooledList

CONSTANTS Default,
          CacheMax, Stride, DenseBelow, Sparse, FarFromEnds, CachePer, EdgeCalls, \* PooledHashList
          MaxKey, MapValues,                                        \* PooledMap
          MaxSize, ThrowsInMiddle, ThrowsInConstructor, AliasedArguments, \* PooledVector
          SEGMENT_SIZE, AssignsToMoved, KeepsReferences             \* SegVector

VARIABLES container,
          hst, cache, hseqs,
          tree, dict,
          vec, broken, vseqs,
          mem, crashed, ref, sseqs

(* A block has room for an even number of elements. *)
EvenBlock(n) == n + (n % 2)

Hash == INSTANCE PooledHashList WITH st <- hst, seqs <- hseqs
Map == INSTANCE PooledMap WITH Values <- MapValues
Vector == INSTANCE PooledVector WITH Vectors <- Lists, BlockFor <- EvenBlock, seqs <- vseqs
Segments == INSTANCE SegVector WITH
    Vectors <- Lists, MaxSegments <- MaxNodes, seqs <- sseqs

ASSUME VectorAssumption == Vector!Raw \notin Elements \cup {Default}
ASSUME SegmentsAssumption ==
    /\ IsFiniteSet(Lists) /\ Null \notin Lists
    /\ SEGMENT_SIZE \in Nat \ {0} /\ MaxSize \in Nat

hashVars == <<hst, cache, hseqs>>
mapVars == <<tree, dict>>
vectorVars == <<vec, broken, vseqs>>
segmentVars == <<mem, crashed, ref, sseqs>>
allVars == <<container, vars, hashVars, mapVars, vectorVars, segmentVars>>

AllInit ==
    /\ container \in {"PooledList", "PooledHashList", "PooledMap", "PooledVector", "SegVector"}
    /\ Init /\ Hash!Init /\ Map!Init /\ Vector!Init /\ Segments!Init

AllNext ==
    /\ UNCHANGED container
    /\ \/ /\ container = "PooledList" /\ Next
          /\ UNCHANGED <<hashVars, mapVars, vectorVars, segmentVars>>
       \/ /\ container = "PooledHashList" /\ Hash!Next
          /\ UNCHANGED <<vars, mapVars, vectorVars, segmentVars>>
       \/ /\ container = "PooledMap" /\ Map!Next
          /\ UNCHANGED <<vars, hashVars, vectorVars, segmentVars>>
       \/ /\ container = "PooledVector" /\ Vector!Next
          /\ UNCHANGED <<vars, hashVars, mapVars, segmentVars>>
       \/ /\ container = "SegVector" /\ Segments!Next
          /\ UNCHANGED <<vars, hashVars, mapVars, vectorVars>>

AllSpec == AllInit /\ [][AllNext]_allVars

-----------------------------------------------------------------------------
(* A container that stays empty is not looked at again and again.          *)
In(name) == container = name

(* Every index PooledHashList cached leads to the node at that index.      *)
CacheExact == In("PooledHashList") => Hash!CacheExact

(* PooledHashList holds the sequence its calls ask for.                    *)
HashListsAgree == In("PooledHashList") => Hash!HashListsAgree

(* PooledMap is a red-black tree with the contents of a std::map.          *)
RedBlackMap == In("PooledMap") => Map!RedBlackMap

(* PooledVector destroys each object once and holds the right elements.    *)
VectorsHoldElements == In("PooledVector") => Vector!VectorsHoldElements

(* Vectors that share their elements behave as if each had its own.        *)
VectorsAreValues == In("SegVector") => Segments!VectorsAreValues

(* Shared blocks are counted, and segments belong to one block each.       *)
SegmentsOwnedOnce == In("SegVector") => Segments!SegmentsOwnedOnce
=============================================================================
