------------------------------- MODULE MCBHGCD -------------------------------
(* Workers, and clients, are interchangeable, and so are the tasks of one  *)
(* kind; the runs of safety properties use it.                             *)
EXTENDS BHGCDProperties, TLC

Symmetry ==
    Permutations(Workers) \cup Permutations(Clients) \cup Permutations(NormalTasks)
        \cup Permutations(BarrierTasks) \cup Permutations(GroupTasks)
=============================================================================
