------------------------------- MODULE MCVmt -------------------------------
(* An instance of Vmt for TLC: a class whose vtable another one adjoins,   *)
(* that one, closed by a word of data, and a class of 33 methods, one more *)
(* than disp_ can reach.                                                   *)
EXTENDS Vmt, TLC

CONSTANTS h1, h2, p1, f, forward, q, far, thunk

Linked == <<forward, far, Data>> \o [i \in 1 .. 31 |-> q] \o <<far, f, Data>>
Classes == {1, 2, 4}

(* forward, the method of the first class, calls the second method of what *)
(* it is given; thunk is for the last method of the long class.            *)
Displacements == (forward :> 8) @@ (thunk :> 256)
=============================================================================
