--------------------------- MODULE MCPooledHashMap ---------------------------
(* Two keys with one hash, the last index of a small table, so that one of *)
(* them wraps around to the index of the third; the load factors are the   *)
(* default, the largest that is safe, and one that is raised to a tenth.   *)
EXTENDS PooledHashMap, TLC

CONSTANTS k1, k2, k3

Hashes == (k1 :> 3) @@ (k2 :> 3) @@ (k3 :> 0)
ThreeQuarters == <<3, 4>>
Loads == {<<3, 4>>, <<1, 1>>, <<0, 1>>}
=============================================================================
