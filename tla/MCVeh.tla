------------------------------- MODULE MCVeh -------------------------------
(* Instances of Veh for TLC: targets on pages of their own, or sharing one; *)
(* the detours are elsewhere.                                              *)
EXTENDS Veh, TLC

CONSTANTS admin1, admin2, caller1, caller2, h1, h2, h3, t1, t2, d1, x1, x2

OwnPages   == [f \in Functions |-> IF f = t1 THEN 1 ELSE IF f = t2 THEN 2 ELSE 0]
SharedPage == [f \in Functions |-> IF f \in Targets THEN 1 ELSE 0]

(* Threads of a kind and handles are interchangeable: the run checks safety.*)
Symmetry ==
  Permutations(Admins) \cup Permutations(Callers) \cup Permutations(Handles)
=============================================================================
