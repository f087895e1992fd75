--------------------------- MODULE Int3VehProofs ---------------------------
(* Proofs about Int3Veh for every number of threads, hooks and targets.    *)
EXTENDS Int3Veh, TLAPS

(* A thread that runs a section locked by g_mutex holds it.                *)
Locked == {"enable_find", "enable_patch", "disable_find", "disable_patch",
           "handler_find"}
LockInv == \A p \in Threads : pc[p] \in Locked => mutex = p

(* Enable and Disable work on an object of their own, whose two addresses  *)
(* are set as long as it is enabled or in use.                             *)
WorkInv ==
  /\ \A p \in Threads : pc[p] \in EnableLabels \cup DisableLabels => cur[p] \in Hooks
  /\ \A p, q \in Threads : cur[p] = cur[q] /\ cur[p] # NULL => p = q
  /\ \A p \in Threads : cur[p] # NULL =>
       obj[cur[p]].target \in Targets /\ obj[cur[p]].detour \in Detours
  /\ \A h \in Hooks : obj[h].enabled =>
       obj[h].target \in Targets /\ obj[h].detour \in Detours

(* A breakpoint exception points at a target.                              *)
RaisedInv ==
  \A p \in Threads :
    pc[p] \in {"bp_raised", "handler_lock", "handler_find"} => ip[p] \in Targets

(* Inside the window the code still is what the change of the map found.   *)
WindowInv ==
  \A p \in Threads :
    LET t == obj[cur[p]].target
    IN  /\ pc[p] = "enable_patch" =>
             activeHooks[t] # NULL /\ code[t] = OrigByte[t]
        /\ pc[p] = "disable_patch" =>
             activeHooks[t] = NULL /\ patchedBytes[t] = OrigByte[t]

IInv == TypeOK /\ LockInv /\ WorkInv /\ RaisedInv /\ WindowInv /\ CodeMatchesHooks

(* The initial states satisfy the invariant.                               *)
LEMMA InitInv == Init => IInv
<1> SUFFICES ASSUME Init PROVE IInv
  OBVIOUS
<1> USE ConstantsAssumption
<1>1. TypeOK
  BY DEF Init, TypeOK, Objects, Bytes, NoHook
<1>2. LockInv /\ RaisedInv
  BY DEF Init, LockInv, RaisedInv, Locked
<1>3. WorkInv
  BY DEF Init, WorkInv, EnableLabels, DisableLabels, NoHook
<1>4. WindowInv
  BY DEF Init, WindowInv
<1>5. CodeMatchesHooks
  BY DEF Init, CodeMatchesHooks, Patching
<1> QED
  BY <1>1, <1>2, <1>3, <1>4, <1>5 DEF IInv

(* Every statement of Enable preserves the invariant.                      *)
LEMMA EnableStepInv ==
  ASSUME IInv, NEW p \in Threads, EnableStep(p)
  PROVE  IInv'
<1> USE ConstantsAssumption DEF IInv, EnableLabels, DisableLabels, CallLabels
<1>1. CASE EnableLock(p)
  <2> USE <1>1 DEF Goto, handler, maps, locals, cpu, EnableLock, Acquire
  <2>1. TypeOK'
    BY DEF TypeOK, Objects, Bytes, WindowInv, WorkInv, RaisedInv
  <2>2. LockInv' /\ RaisedInv'
    BY DEF LockInv, RaisedInv, Locked, TypeOK
  <2>3. WorkInv'
    BY DEF WorkInv, TypeOK
  <2>4. WindowInv' /\ CodeMatchesHooks'
    BY DEF WindowInv, CodeMatchesHooks, Patching, TypeOK, LockInv, Locked,
       WorkInv
  <2> QED
    BY <2>1, <2>2, <2>3, <2>4
<1>2. CASE EnableRefused(p)
  <2> USE <1>2 DEF Goto, handler, maps, locals, cpu, EnableRefused, Return,
        Release
  <2>1. TypeOK'
    BY DEF TypeOK, Objects, Bytes, WindowInv, WorkInv, RaisedInv
  <2>2. LockInv' /\ RaisedInv'
    BY DEF LockInv, RaisedInv, Locked, TypeOK
  <2>3. WorkInv'
    BY DEF WorkInv, TypeOK
  <2>4. WindowInv' /\ CodeMatchesHooks'
    BY DEF WindowInv, CodeMatchesHooks, Patching, TypeOK, LockInv, Locked,
       WorkInv
  <2> QED
    BY <2>1, <2>2, <2>3, <2>4
<1>3. CASE EnableInsert(p)
  <2> USE <1>3 DEF Goto, handler, maps, locals, cpu, EnableInsert
  <2>1. TypeOK'
    BY DEF TypeOK, Objects, Bytes, WindowInv, WorkInv, RaisedInv
  <2>2. LockInv' /\ RaisedInv'
    BY DEF LockInv, RaisedInv, Locked, TypeOK
  <2>3. WorkInv'
    BY DEF WorkInv, TypeOK
  <2>4. WindowInv' /\ CodeMatchesHooks'
    BY DEF WindowInv, CodeMatchesHooks, Patching, TypeOK, LockInv, Locked,
       WorkInv
  <2> QED
    BY <2>1, <2>2, <2>3, <2>4
<1>4. CASE EnablePatch(p)
  <2> USE <1>4 DEF Goto, handler, maps, locals, cpu, EnablePatch, Release
  <2>1. TypeOK'
    BY DEF TypeOK, Objects, Bytes, WindowInv, WorkInv, RaisedInv
  <2>2. LockInv' /\ RaisedInv'
    BY DEF LockInv, RaisedInv, Locked, TypeOK
  <2>3. WorkInv'
    BY DEF WorkInv, TypeOK
  <2>4. WindowInv' /\ CodeMatchesHooks'
    BY DEF WindowInv, CodeMatchesHooks, Patching, TypeOK, LockInv, Locked,
       WorkInv
  <2> QED
    BY <2>1, <2>2, <2>3, <2>4
<1>5. CASE EnableInstalled(p)
  <2> USE <1>5 DEF Goto, handler, maps, locals, cpu, EnableInstalled,
        EnableReturn, Return
  <2>1. TypeOK'
    <3>1. cur[p] \in Hooks
      BY DEF WorkInv
    <3>2. obj[cur[p]] \in Objects
      BY <3>1 DEF TypeOK
    <3>3. [obj[cur[p]] EXCEPT !.enabled = TRUE] \in Objects
      BY <3>2 DEF Objects
    <3>4. obj' \in [Hooks -> Objects]
      BY <3>1, <3>3 DEF TypeOK
    <3> QED
      BY <3>4 DEF TypeOK, Bytes
  <2>2. LockInv' /\ RaisedInv'
    BY DEF LockInv, RaisedInv, Locked, TypeOK
  <2>3. WorkInv'
    BY DEF WorkInv, TypeOK
  <2>4. WindowInv' /\ CodeMatchesHooks'
    BY DEF WindowInv, CodeMatchesHooks, Patching, TypeOK, LockInv, Locked,
       WorkInv
  <2> QED
    BY <2>1, <2>2, <2>3, <2>4
<1>6. CASE EnableNotInstalled(p)
  <2> USE <1>6 DEF Goto, handler, maps, locals, cpu, EnableNotInstalled
  <2>1. TypeOK'
    BY DEF TypeOK, Objects, Bytes, WindowInv, WorkInv, RaisedInv
  <2>2. LockInv' /\ RaisedInv'
    BY DEF LockInv, RaisedInv, Locked, TypeOK
  <2>3. WorkInv'
    BY DEF WorkInv, TypeOK
  <2>4. WindowInv' /\ CodeMatchesHooks'
    BY DEF WindowInv, CodeMatchesHooks, Patching, TypeOK, LockInv, Locked,
       WorkInv
  <2> QED
    BY <2>1, <2>2, <2>3, <2>4
<1>7. CASE EnableAdd(p)
  <2> USE <1>7 DEF Goto, handler, maps, locals, cpu, EnableAdd
  <2>1. TypeOK'
    BY DEF TypeOK, Objects, Bytes, WindowInv, WorkInv, RaisedInv
  <2>2. LockInv' /\ RaisedInv'
    BY DEF LockInv, RaisedInv, Locked, TypeOK
  <2>3. WorkInv'
    BY DEF WorkInv, TypeOK
  <2>4. WindowInv' /\ CodeMatchesHooks'
    BY DEF WindowInv, CodeMatchesHooks, Patching, TypeOK, LockInv, Locked,
       WorkInv
  <2> QED
    BY <2>1, <2>2, <2>3, <2>4
<1>8. CASE EnableFlag(p)
  <2> USE <1>8 DEF Goto, handler, maps, locals, cpu, EnableFlag, EnableReturn,
        Return
  <2>1. TypeOK'
    <3>1. cur[p] \in Hooks
      BY DEF WorkInv
    <3>2. obj[cur[p]] \in Objects
      BY <3>1 DEF TypeOK
    <3>3. [obj[cur[p]] EXCEPT !.enabled = TRUE] \in Objects
      BY <3>2 DEF Objects
    <3>4. obj' \in [Hooks -> Objects]
      BY <3>1, <3>3 DEF TypeOK
    <3> QED
      BY <3>4 DEF TypeOK, Bytes
  <2>2. LockInv' /\ RaisedInv'
    BY DEF LockInv, RaisedInv, Locked, TypeOK
  <2>3. WorkInv'
    BY DEF WorkInv, TypeOK
  <2>4. WindowInv' /\ CodeMatchesHooks'
    BY DEF WindowInv, CodeMatchesHooks, Patching, TypeOK, LockInv, Locked,
       WorkInv
  <2> QED
    BY <2>1, <2>2, <2>3, <2>4
<1> QED
  BY <1>1, <1>2, <1>3, <1>4, <1>5, <1>6, <1>7, <1>8 DEF EnableStep

(* Every statement of Disable preserves the invariant.                     *)
LEMMA DisableStepInv ==
  ASSUME IInv, NEW p \in Threads, DisableStep(p)
  PROVE  IInv'
<1> USE ConstantsAssumption DEF IInv, EnableLabels, DisableLabels, CallLabels
<1>1. CASE DisableLock(p)
  <2> USE <1>1 DEF Goto, handler, maps, locals, cpu, DisableLock, Acquire
  <2>1. TypeOK'
    BY DEF TypeOK, Objects, Bytes, WindowInv, WorkInv, RaisedInv
  <2>2. LockInv' /\ RaisedInv'
    BY DEF LockInv, RaisedInv, Locked, TypeOK
  <2>3. WorkInv'
    BY DEF WorkInv, TypeOK
  <2>4. WindowInv' /\ CodeMatchesHooks'
    BY DEF WindowInv, CodeMatchesHooks, Patching, TypeOK, LockInv, Locked,
       WorkInv
  <2> QED
    BY <2>1, <2>2, <2>3, <2>4
<1>2. CASE DisableRefused(p)
  <2> USE <1>2 DEF Goto, handler, maps, locals, cpu, DisableRefused, Return,
        Release
  <2>1. TypeOK'
    BY DEF TypeOK, Objects, Bytes, WindowInv, WorkInv, RaisedInv
  <2>2. LockInv' /\ RaisedInv'
    BY DEF LockInv, RaisedInv, Locked, TypeOK
  <2>3. WorkInv'
    BY DEF WorkInv, TypeOK
  <2>4. WindowInv' /\ CodeMatchesHooks'
    BY DEF WindowInv, CodeMatchesHooks, Patching, TypeOK, LockInv, Locked,
       WorkInv
  <2> QED
    BY <2>1, <2>2, <2>3, <2>4
<1>3. CASE DisableErase(p)
  <2> USE <1>3 DEF Goto, handler, maps, locals, cpu, DisableErase
  <2>1. TypeOK'
    BY DEF TypeOK, Objects, Bytes, WindowInv, WorkInv, RaisedInv
  <2>2. LockInv' /\ RaisedInv'
    BY DEF LockInv, RaisedInv, Locked, TypeOK
  <2>3. WorkInv'
    BY DEF WorkInv, TypeOK
  <2>4. WindowInv' /\ CodeMatchesHooks'
    BY DEF WindowInv, CodeMatchesHooks, Patching, TypeOK, LockInv, Locked,
       WorkInv
  <2> QED
    BY <2>1, <2>2, <2>3, <2>4
<1>4. CASE DisablePatch(p)
  <2> USE <1>4 DEF Goto, handler, maps, locals, cpu, DisablePatch, Release
  <2>1. TypeOK'
    BY DEF TypeOK, Objects, Bytes, WindowInv, WorkInv, RaisedInv
  <2>2. LockInv' /\ RaisedInv'
    BY DEF LockInv, RaisedInv, Locked, TypeOK
  <2>3. WorkInv'
    BY DEF WorkInv, TypeOK
  <2>4. WindowInv' /\ CodeMatchesHooks'
    BY DEF WindowInv, CodeMatchesHooks, Patching, TypeOK, LockInv, Locked,
       WorkInv
  <2> QED
    BY <2>1, <2>2, <2>3, <2>4
<1>5. CASE DisableRemove(p)
  <2> USE <1>5 DEF Goto, handler, maps, locals, cpu, DisableRemove
  <2>1. TypeOK'
    BY DEF TypeOK, Objects, Bytes, WindowInv, WorkInv, RaisedInv
  <2>2. LockInv' /\ RaisedInv'
    BY DEF LockInv, RaisedInv, Locked, TypeOK
  <2>3. WorkInv'
    BY DEF WorkInv, TypeOK
  <2>4. WindowInv' /\ CodeMatchesHooks'
    BY DEF WindowInv, CodeMatchesHooks, Patching, TypeOK, LockInv, Locked,
       WorkInv
  <2> QED
    BY <2>1, <2>2, <2>3, <2>4
<1>6. CASE DisableRemoveFails(p)
  <2> USE <1>6 DEF Goto, handler, maps, locals, cpu, DisableRemoveFails, Return
  <2>1. TypeOK'
    BY DEF TypeOK, Objects, Bytes, WindowInv, WorkInv, RaisedInv
  <2>2. LockInv' /\ RaisedInv'
    BY DEF LockInv, RaisedInv, Locked, TypeOK
  <2>3. WorkInv'
    BY DEF WorkInv, TypeOK
  <2>4. WindowInv' /\ CodeMatchesHooks'
    BY DEF WindowInv, CodeMatchesHooks, Patching, TypeOK, LockInv, Locked,
       WorkInv
  <2> QED
    BY <2>1, <2>2, <2>3, <2>4
<1>7. CASE DisableClear(p)
  <2> USE <1>7 DEF Goto, handler, maps, locals, cpu, DisableClear
  <2>1. TypeOK'
    BY DEF TypeOK, Objects, Bytes, WindowInv, WorkInv, RaisedInv
  <2>2. LockInv' /\ RaisedInv'
    BY DEF LockInv, RaisedInv, Locked, TypeOK
  <2>3. WorkInv'
    BY DEF WorkInv, TypeOK
  <2>4. WindowInv' /\ CodeMatchesHooks'
    BY DEF WindowInv, CodeMatchesHooks, Patching, TypeOK, LockInv, Locked,
       WorkInv
  <2> QED
    BY <2>1, <2>2, <2>3, <2>4
<1>8. CASE DisableReturn(p)
  <2> USE <1>8 DEF Goto, handler, maps, locals, cpu, DisableReturn, Return,
        NoHook
  <2>1. TypeOK'
    BY DEF TypeOK, Objects, Bytes, WindowInv, WorkInv, RaisedInv
  <2>2. LockInv' /\ RaisedInv'
    BY DEF LockInv, RaisedInv, Locked, TypeOK
  <2>3. WorkInv'
    BY DEF WorkInv, TypeOK
  <2>4. WindowInv' /\ CodeMatchesHooks'
    BY DEF WindowInv, CodeMatchesHooks, Patching, TypeOK, LockInv, Locked,
       WorkInv
  <2> QED
    BY <2>1, <2>2, <2>3, <2>4
<1> QED
  BY <1>1, <1>2, <1>3, <1>4, <1>5, <1>6, <1>7, <1>8 DEF DisableStep

(* Every step of a call, the handler's included, preserves the invariant.  *)
LEMMA CallStepInv ==
  ASSUME IInv, NEW p \in Threads, CallStep(p)
  PROVE  IInv'
<1> USE ConstantsAssumption DEF IInv, EnableLabels, DisableLabels, CallLabels
<1>1. CASE Trap(p)
  <2> USE <1>1 DEF Goto, handler, maps, locals, cpu, Trap, AtBreakpoint
  <2>1. TypeOK'
    BY DEF TypeOK, Objects, Bytes, WindowInv, WorkInv, RaisedInv
  <2>2. LockInv' /\ RaisedInv'
    BY DEF LockInv, RaisedInv, Locked, TypeOK
  <2>3. WorkInv'
    BY DEF WorkInv, TypeOK
  <2>4. WindowInv' /\ CodeMatchesHooks'
    BY DEF WindowInv, CodeMatchesHooks, Patching, TypeOK, LockInv, Locked,
       WorkInv
  <2> QED
    BY <2>1, <2>2, <2>3, <2>4
<1>2. CASE Dispatch(p)
  <2> USE <1>2 DEF Goto, handler, maps, locals, cpu, Dispatch
  <2>1. TypeOK'
    BY DEF TypeOK, Objects, Bytes, WindowInv, WorkInv, RaisedInv
  <2>2. LockInv' /\ RaisedInv'
    BY DEF LockInv, RaisedInv, Locked, TypeOK
  <2>3. WorkInv'
    BY DEF WorkInv, TypeOK
  <2>4. WindowInv' /\ CodeMatchesHooks'
    BY DEF WindowInv, CodeMatchesHooks, Patching, TypeOK, LockInv, Locked,
       WorkInv
  <2> QED
    BY <2>1, <2>2, <2>3, <2>4
<1>3. CASE HandlerLock(p)
  <2> USE <1>3 DEF Goto, handler, maps, locals, cpu, HandlerLock, Acquire
  <2>1. TypeOK'
    BY DEF TypeOK, Objects, Bytes, WindowInv, WorkInv, RaisedInv
  <2>2. LockInv' /\ RaisedInv'
    BY DEF LockInv, RaisedInv, Locked, TypeOK
  <2>3. WorkInv'
    BY DEF WorkInv, TypeOK
  <2>4. WindowInv' /\ CodeMatchesHooks'
    BY DEF WindowInv, CodeMatchesHooks, Patching, TypeOK, LockInv, Locked,
       WorkInv
  <2> QED
    BY <2>1, <2>2, <2>3, <2>4
<1>4. CASE HandlerRedirect(p)
  <2> USE <1>4 DEF Goto, handler, maps, locals, cpu, HandlerRedirect, Release
  <2>1. TypeOK'
    BY DEF TypeOK, Objects, Bytes, WindowInv, WorkInv, RaisedInv
  <2>2. LockInv' /\ RaisedInv'
    BY DEF LockInv, RaisedInv, Locked, TypeOK
  <2>3. WorkInv'
    BY DEF WorkInv, TypeOK
  <2>4. WindowInv' /\ CodeMatchesHooks'
    BY DEF WindowInv, CodeMatchesHooks, Patching, TypeOK, LockInv, Locked,
       WorkInv
  <2> QED
    BY <2>1, <2>2, <2>3, <2>4
<1>5. CASE Execute(p)
  <2> USE <1>5 DEF Goto, handler, maps, locals, cpu, Execute
  <2>1. TypeOK'
    BY DEF TypeOK, Objects, Bytes, WindowInv, WorkInv, RaisedInv
  <2>2. LockInv' /\ RaisedInv'
    BY DEF LockInv, RaisedInv, Locked, TypeOK
  <2>3. WorkInv'
    BY DEF WorkInv, TypeOK
  <2>4. WindowInv' /\ CodeMatchesHooks'
    BY DEF WindowInv, CodeMatchesHooks, Patching, TypeOK, LockInv, Locked,
       WorkInv
  <2> QED
    BY <2>1, <2>2, <2>3, <2>4
<1>6. CASE SingleStep(p)
  <2> USE <1>6 DEF Goto, handler, maps, locals, cpu, SingleStep
  <2>1. TypeOK'
    BY DEF TypeOK, Objects, Bytes, WindowInv, WorkInv, RaisedInv
  <2>2. LockInv' /\ RaisedInv'
    BY DEF LockInv, RaisedInv, Locked, TypeOK
  <2>3. WorkInv'
    BY DEF WorkInv, TypeOK
  <2>4. WindowInv' /\ CodeMatchesHooks'
    BY DEF WindowInv, CodeMatchesHooks, Patching, TypeOK, LockInv, Locked,
       WorkInv
  <2> QED
    BY <2>1, <2>2, <2>3, <2>4
<1>7. CASE CallReturns(p)
  <2> USE <1>7 DEF Goto, handler, maps, locals, cpu, CallReturns
  <2>1. TypeOK'
    BY DEF TypeOK, Objects, Bytes, WindowInv, WorkInv, RaisedInv
  <2>2. LockInv' /\ RaisedInv'
    BY DEF LockInv, RaisedInv, Locked, TypeOK
  <2>3. WorkInv'
    BY DEF WorkInv, TypeOK
  <2>4. WindowInv' /\ CodeMatchesHooks'
    BY DEF WindowInv, CodeMatchesHooks, Patching, TypeOK, LockInv, Locked,
       WorkInv
  <2> QED
    BY <2>1, <2>2, <2>3, <2>4
<1> QED
  BY <1>1, <1>2, <1>3, <1>4, <1>5, <1>6, <1>7 DEF CallStep

(* So does the beginning of a call, of an Enable or of a Disable.          *)
LEMMA BeginInv ==
  ASSUME IInv, NEW p \in Threads, Begin(p)
  PROVE  IInv'
<1> USE ConstantsAssumption DEF IInv, EnableLabels, DisableLabels, CallLabels
<1>1. ASSUME NEW t \in Targets, Call(p, t) PROVE IInv'
  <2> USE <1>1 DEF Goto, handler, maps, locals, cpu, Call
  <2>1. TypeOK'
    BY DEF TypeOK, Objects, Bytes, WindowInv, WorkInv, RaisedInv
  <2>2. LockInv' /\ RaisedInv'
    BY DEF LockInv, RaisedInv, Locked, TypeOK
  <2>3. WorkInv'
    BY DEF WorkInv, TypeOK
  <2>4. WindowInv' /\ CodeMatchesHooks'
    BY DEF WindowInv, CodeMatchesHooks, Patching, TypeOK, LockInv, Locked,
       WorkInv
  <2> QED
    BY <2>1, <2>2, <2>3, <2>4
<1>2. ASSUME NEW h \in Hooks, Disable(p, h) PROVE IInv'
  <2> USE <1>2 DEF Goto, handler, maps, locals, cpu, Disable, InUse
  <2>1. TypeOK'
    BY DEF TypeOK, Objects, Bytes, WindowInv, WorkInv, RaisedInv
  <2>2. LockInv' /\ RaisedInv'
    BY DEF LockInv, RaisedInv, Locked, TypeOK
  <2>3. WorkInv'
    BY DEF WorkInv, TypeOK
  <2>4. WindowInv' /\ CodeMatchesHooks'
    BY DEF WindowInv, CodeMatchesHooks, Patching, TypeOK, LockInv, Locked,
       WorkInv
  <2> QED
    BY <2>1, <2>2, <2>3, <2>4
<1>3. ASSUME NEW h \in Hooks, NEW t \in Targets, NEW d \in Detours, Enable(p, h, t, d)
      PROVE  IInv'
  <2> USE <1>3 DEF Goto, handler, maps, locals, cpu, Enable, InUse
  <2>1. TypeOK'
    BY DEF TypeOK, Objects, Bytes, WindowInv, WorkInv, RaisedInv
  <2>2. LockInv' /\ RaisedInv'
    BY DEF LockInv, RaisedInv, Locked, TypeOK
  <2>3. WorkInv'
    BY DEF WorkInv, TypeOK
  <2>4. WindowInv' /\ CodeMatchesHooks'
    BY DEF WindowInv, CodeMatchesHooks, Patching, TypeOK, LockInv, Locked,
       WorkInv
  <2> QED
    BY <2>1, <2>2, <2>3, <2>4
<1> QED
  BY <1>1, <1>2, <1>3 DEF Begin

(* Every step preserves the invariant.                                     *)
LEMMA NextInv == IInv /\ [Next]_vars => IInv'
<1> SUFFICES ASSUME IInv, [Next]_vars PROVE IInv'
  OBVIOUS
<1>1. ASSUME NEW p \in Threads, Step(p) PROVE IInv'
  BY <1>1, EnableStepInv, DisableStepInv, CallStepInv DEF Step
<1>2. ASSUME NEW p \in Threads, Begin(p) PROVE IInv'
  BY <1>2, BeginInv
<1>3. CASE UNCHANGED vars
  BY <1>3 DEF vars, maps, handler, cpu, locals, IInv, TypeOK, LockInv, WorkInv,
              RaisedInv, WindowInv, CodeMatchesHooks, Patching
<1> QED
  BY <1>1, <1>2, <1>3 DEF Next

(* Type correctness, for any number of threads that hook and call.         *)
THEOREM TypeCorrect == Spec => []TypeOK
<1>1. IInv => TypeOK
  BY DEF IInv
<1> QED
  BY InitInv, NextInv, <1>1, PTL DEF Spec

(* The maps and the patched code agree in every interleaving of any number *)
(* of Enable, Disable, call and handler executions.                        *)
THEOREM Consistency == Spec => []CodeMatchesHooks
<1>1. IInv => CodeMatchesHooks
  BY DEF IInv
<1> QED
  BY InitInv, NextInv, <1>1, PTL DEF Spec
=============================================================================
