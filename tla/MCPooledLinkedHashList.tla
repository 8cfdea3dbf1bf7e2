----------------------- MODULE MCPooledLinkedHashList -----------------------
(* Two of the keys have one hash, so that a rehash changes where they are. *)
EXTENDS PooledLinkedHashList, TLC

CONSTANTS k1, k2, k3

Hashes == (k1 :> 0) @@ (k2 :> 0) @@ (k3 :> 3)
ThreeQuarters == <<3, 4>>

(* Keys like integers: the bytes stay as they were. *)
ReadAsBefore == [k \in Keys |-> {k}]

(* Keys with a destructor, or a block that another map has taken. *)
ReadAsAnything == [k \in Keys |-> Keys]
=============================================================================
