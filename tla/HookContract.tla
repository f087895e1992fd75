---------------------------- MODULE HookContract ----------------------------
(***************************************************************************)
(* What class Hook of src/include/hook.h promises the threads of the       *)
(* process, whatever the hooking method: after Enable(target, detour) a    *)
(* call of the target runs the detour, after Disable the target again, and *)
(* no call runs anything else, twice or not at all.                        *)
(***************************************************************************)
CONSTANTS Threads, Targets, Detours, NULL

VARIABLES
  hooks,   \* the detour a target is hooked to, NULL when it is not
  calls    \* the target a thread calls, and the function the call runs

vars == <<hooks, calls>>

NoCall == [target |-> NULL, ran |-> NULL]

Init == /\ hooks \in [Targets -> Detours \cup {NULL}]
        /\ calls = [p \in Threads |-> NoCall]

Enable(t, d) == /\ hooks[t] = NULL
                /\ hooks' = [hooks EXCEPT ![t] = d]
                /\ UNCHANGED calls

Disable(t) == /\ hooks[t] # NULL
              /\ hooks' = [hooks EXCEPT ![t] = NULL]
              /\ UNCHANGED calls

Call(p, t) == /\ calls[p] = NoCall
              /\ calls' = [calls EXCEPT ![p].target = t]
              /\ UNCHANGED hooks

(* The hook in force now decides which function the call runs.             *)
Run(p) ==
  LET t == calls[p].target
  IN  /\ t # NULL /\ calls[p].ran = NULL
      /\ calls' = [calls EXCEPT ![p].ran = IF hooks[t] # NULL THEN hooks[t] ELSE t]
      /\ UNCHANGED hooks

Return(p) == /\ calls[p].ran # NULL
             /\ calls' = [calls EXCEPT ![p] = NoCall]
             /\ UNCHANGED hooks

Next == \/ \E t \in Targets : Disable(t) \/ \E d \in Detours : Enable(t, d)
        \/ \E p \in Threads : \/ Run(p) \/ Return(p)
                              \/ \E t \in Targets : Call(p, t)

Spec == Init /\ [][Next]_vars

(* Every call is decided, and a call that was decided returns.             *)
Fairness == \A p \in Threads : WF_vars(Run(p)) /\ WF_vars(Return(p))
=============================================================================
