---------------------------- MODULE MCTrampoline ----------------------------
(* An instance of Trampoline for TLC: two targets on one page.             *)
EXTENDS Trampoline, TLC

CONSTANTS t1, t2, h1, h2, p1, p2

OnePage == [t \in Targets |-> "page"]
Symmetry == Permutations(Callers) \cup Permutations(Hooks)
=============================================================================
