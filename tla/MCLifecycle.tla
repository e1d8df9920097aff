---------------------------- MODULE MCLifecycle ----------------------------
(* Score and breach spaces for checking Lifecycle.                         *)
EXTENDS Lifecycle, TLC

(* Promotable, and kept but not promotable.                                *)
TwoVerdicts ==
  {[gate |-> TRUE, edge |-> TRUE, track |-> TRUE],
   [gate |-> FALSE, edge |-> TRUE, track |-> TRUE]}

DemoteOnly == {{}, {"decay"}}

LifecycleSymmetry == Permutations(Ids) \cup Permutations(Runs)
=============================================================================
