----------------------------- MODULE MCVehChain -----------------------------
(* Instances of VehChain for TLC: two targets on one page, one on another, *)
(* each of which can be hooked by either kind, or by both.                 *)
EXTENDS VehChain, TLC

CONSTANTS t1, t2, t3, p1, p2

TwoPages == [t \in Targets |-> IF t = t3 THEN 2 ELSE 1]
Symmetry == Permutations(Callers) \cup Permutations(Targets \ {t3})
=============================================================================
