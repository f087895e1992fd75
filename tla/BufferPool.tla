---------------------------- MODULE BufferPool ----------------------------
(***************************************************************************)
(* What Memory promises a trampoline: AllocateBuffer(origin) hands out a   *)
(* buffer nobody else has, every byte of it within the reach of a relative *)
(* jump from origin, or fails; FreeBuffer takes it back.                   *)
(***************************************************************************)
EXTENDS Naturals

CONSTANTS Origins, SlotSize, MaxAddress,
          Reach   \* the longest distance from an origin to a byte of its buffer

VARIABLE handed   \* buffers in use: a set of [buf, origin]

Within(buf, origin) == /\ origin <= buf + Reach
                       /\ buf + SlotSize <= origin + Reach + 1

Disjoint(buf, other) == buf + SlotSize <= other \/ other + SlotSize <= buf

Init == handed = {}

AllocateBuffer(origin) ==
  \E buf \in 1 .. MaxAddress :
    /\ Within(buf, origin)
    /\ \A x \in handed : Disjoint(buf, x.buf)
    /\ handed' = handed \cup {[buf |-> buf, origin |-> origin]}

FreeBuffer(x) == handed' = handed \ {x}

(* ~Memory releases every block.                                           *)
Destroy == handed' = {}

Next == \/ \E o \in Origins : AllocateBuffer(o)
        \/ \E x \in handed : FreeBuffer(x)
        \/ Destroy

Spec == Init /\ [][Next]_handed
=============================================================================
