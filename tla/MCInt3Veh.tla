----------------------------- MODULE MCInt3Veh -----------------------------
(* Instances of Int3Veh for TLC: two targets, the detours of two hooks.    *)
EXTENDS Int3Veh

CONSTANTS admin1, admin2, caller, h1, h2, h3, t1, t2, d1, d2, x1, x2

CompiledByte == [t \in Targets |-> t]       \* no target begins with INT 3
=============================================================================
