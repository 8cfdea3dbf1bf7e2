--------------------------- MODULE MCBlockMemPool ---------------------------
(* Threads, and handles, are interchangeable; the runs of safety properties *)
(* use it.                                                                 *)
EXTENDS BlockMemPoolProperties, TLC

Symmetry == Permutations(Threads) \cup Permutations(Handles)
=============================================================================
