------------------------------ MODULE MCA2ARouter ------------------------------
(* A2ARouter for TLC: the runs' cfg files give the constants their values.   *)
EXTENDS A2ARouter, TLC

Symmetry == Permutations(Task) \cup Permutations(Agent)
=============================================================================
