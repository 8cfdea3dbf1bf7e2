--------------------------- MODULE MCRWSmartLock ---------------------------
(* The threads are interchangeable; the runs of safety properties use it.  *)
EXTENDS RWSmartLock, TLC

Symmetry == Permutations(Threads)
=============================================================================
