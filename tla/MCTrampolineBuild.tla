------------------------- MODULE MCTrampolineBuild -------------------------
(* Instances of TrampolineBuild for TLC: every length that can share the   *)
(* five patched bytes with others, destinations before, in and after them. *)
EXTENDS TrampolineBuild

Others(kind, lens) == {[kind |-> kind, len |-> n, dest |-> 0] : n \in lens}
Jumps(kind, lens, dests) ==
  {[kind |-> kind, len |-> n, dest |-> d] : n \in lens, d \in dests}

AllInsts ==
  Others("plain", {1, 2, 3, 4}) \cup Others("rip", {6}) \cup Others("rip_jmp", {6})
  \cup Others("call", {5}) \cup Others("ret", {1, 3}) \cup Others("error", {1})
  \cup Jumps("jmp", {2}, {0, 1, 2, 3, 4, 40}) \cup Jumps("jmp", {5}, {-9})
  \cup Jumps("jcc", {2}, {0, 1, 2, 3, 4, 5}) \cup Jumps("jcc", {6}, {40})
  \cup Jumps("loop", {2}, {4, 40})
=============================================================================
