----------------------------- MODULE HookStack -----------------------------
(***************************************************************************)
(* What class Hook of src/include/hook.h promises when several objects     *)
(* hook one target: the object enabled last is in force, the address Enable*)
(* returns in origin runs what was in force before it, also for a detour   *)
(* that is still running when its object is disabled, and disabling the    *)
(* object enabled last puts that back.                                     *)
(***************************************************************************)
CONSTANTS Threads, Targets, Hooks,
          Body,     \* target -> the function it is when nobody hooks it
          NULL

VARIABLES
  top,     \* target -> what a call runs: a hook's detour or its own body
  below,   \* hook -> what its origin runs
  on,      \* hook -> the target it is enabled on, or NULL
  calls    \* thread -> the detour or body it runs, or NULL

vars == <<top, below, on, calls>>

Init == /\ top = Body
        /\ below = [h \in Hooks |-> NULL]
        /\ on = [h \in Hooks |-> NULL]
        /\ calls = [p \in Threads |-> NULL]

Enable(h, t) == /\ on[h] = NULL
                /\ on' = [on EXCEPT ![h] = t]
                /\ below' = [below EXCEPT ![h] = top[t]]
                /\ top' = [top EXCEPT ![t] = h]
                /\ UNCHANGED calls

Disable(h) == /\ on[h] # NULL /\ top[on[h]] = h
              /\ top' = [top EXCEPT ![on[h]] = below[h]]
              /\ on' = [on EXCEPT ![h] = NULL]
              /\ UNCHANGED <<below, calls>>

Call(p, t) == /\ calls[p] = NULL
              /\ calls' = [calls EXCEPT ![p] = top[t]]
              /\ UNCHANGED <<top, below, on>>

(* A detour calls the original function.                                   *)
CallOrigin(p) == /\ calls[p] \in Hooks
                 /\ calls' = [calls EXCEPT ![p] = below[calls[p]]]
                 /\ UNCHANGED <<top, below, on>>

Return(p) == /\ calls[p] # NULL
             /\ calls' = [calls EXCEPT ![p] = NULL]
             /\ UNCHANGED <<top, below, on>>

Next == \/ \E h \in Hooks : Disable(h) \/ \E t \in Targets : Enable(h, t)
        \/ \E p \in Threads : \/ CallOrigin(p) \/ Return(p)
                              \/ \E t \in Targets : Call(p, t)

Spec == Init /\ [][Next]_vars
=============================================================================
