------------------------ MODULE Int3VehPinProofs ------------------------
(* Proofs about the owners of the entries of g_active_veh_hooks: what     *)
(* Int3Veh restores, and what a hook that stays enabled guarantees.        *)
EXTENDS Int3VehProofs

(* h owns the entry of its target: from the insertion in Enable to the     *)
(* erasure in Disable.                                                     *)
Inserted == {"enable_patch", "enable_check", "enable_add", "enable_flag"}
Erased   == {"disable_patch", "disable_remove", "disable_clear", "disable_return"}

Owner(h) ==
  \/ obj[h].enabled /\ \A p \in Threads : cur[p] = h => pc[p] \notin Erased
  \/ \E p \in Threads : cur[p] = h /\ pc[p] \in Inserted

(* Only an object that is not enabled is being enabled, only an enabled one*)
(* disabled, and only a thread in one of the two works on an object.       *)
UseInv ==
  \A p \in Threads :
    /\ pc[p] \in EnableLabels => ~obj[cur[p]].enabled
    /\ pc[p] \in DisableLabels => obj[cur[p]].enabled
    /\ cur[p] # NULL => pc[p] \in EnableLabels \cup DisableLabels

(* Every entry of the map belongs to an object.                            *)
OwnedInv ==
  \A t \in Targets : activeHooks[t] # NULL =>
    \E h \in Hooks : obj[h].target = t /\ Owner(h)

OInv == IInv /\ UseInv /\ OwnedInv

(* The initial states satisfy the invariant.                               *)
LEMMA InitOInv == Init => OInv
<1> SUFFICES ASSUME Init PROVE OInv
  OBVIOUS
<1> USE ConstantsAssumption
<1>1. UseInv
  BY DEF Init, UseInv, EnableLabels, DisableLabels
<1>2. OwnedInv
  BY DEF Init, OwnedInv, Owner, Erased
<1> QED
  BY <1>1, <1>2, InitInv DEF OInv

(* Every statement of Enable preserves the ownership.                      *)
LEMMA EnableStepOwned ==
  ASSUME OInv, NEW p \in Threads, EnableStep(p)
  PROVE  UseInv' /\ OwnedInv'
<1> USE ConstantsAssumption DEF OInv, IInv, EnableLabels, DisableLabels,
      CallLabels
<1>1. CASE EnableLock(p)
  <2> USE <1>1 DEF Goto, handler, maps, locals, cpu, EnableLock, Acquire
  <2>1. UseInv'
    BY DEF UseInv, TypeOK, Objects, WorkInv
  <2>2. OwnedInv'
    BY DEF OwnedInv, Owner, Inserted, Erased, UseInv, TypeOK, Objects, WorkInv
  <2> QED
    BY <2>1, <2>2
<1>2. CASE EnableRefused(p)
  <2> USE <1>2 DEF Goto, handler, maps, locals, cpu, EnableRefused, Return,
        Release
  <2>1. UseInv'
    BY DEF UseInv, TypeOK, Objects, WorkInv
  <2>2. OwnedInv'
    BY DEF OwnedInv, Owner, Inserted, Erased, UseInv, TypeOK, Objects, WorkInv
  <2> QED
    BY <2>1, <2>2
<1>3. CASE EnableInsert(p)
  <2> USE <1>3 DEF Goto, handler, maps, locals, cpu, EnableInsert
  <2>1. UseInv'
    BY DEF UseInv, TypeOK, Objects, WorkInv
  <2>2. OwnedInv'
    BY DEF OwnedInv, Owner, Inserted, Erased, UseInv, TypeOK, Objects, WorkInv
  <2> QED
    BY <2>1, <2>2
<1>4. CASE EnablePatch(p)
  <2> USE <1>4 DEF Goto, handler, maps, locals, cpu, EnablePatch, Release
  <2>1. UseInv'
    BY DEF UseInv, TypeOK, Objects, WorkInv
  <2>2. OwnedInv'
    BY DEF OwnedInv, Owner, Inserted, Erased, UseInv, TypeOK, Objects, WorkInv
  <2> QED
    BY <2>1, <2>2
<1>5. CASE EnableInstalled(p)
  <2> USE <1>5 DEF Goto, handler, maps, locals, cpu, EnableInstalled,
        EnableReturn, Return
  <2>1. UseInv'
    BY DEF UseInv, TypeOK, Objects, WorkInv
  <2>2. OwnedInv'
    BY DEF OwnedInv, Owner, Inserted, Erased, UseInv, TypeOK, Objects, WorkInv
  <2> QED
    BY <2>1, <2>2
<1>6. CASE EnableNotInstalled(p)
  <2> USE <1>6 DEF Goto, handler, maps, locals, cpu, EnableNotInstalled
  <2>1. UseInv'
    BY DEF UseInv, TypeOK, Objects, WorkInv
  <2>2. OwnedInv'
    BY DEF OwnedInv, Owner, Inserted, Erased, UseInv, TypeOK, Objects, WorkInv
  <2> QED
    BY <2>1, <2>2
<1>7. CASE EnableAdd(p)
  <2> USE <1>7 DEF Goto, handler, maps, locals, cpu, EnableAdd
  <2>1. UseInv'
    BY DEF UseInv, TypeOK, Objects, WorkInv
  <2>2. OwnedInv'
    BY DEF OwnedInv, Owner, Inserted, Erased, UseInv, TypeOK, Objects, WorkInv
  <2> QED
    BY <2>1, <2>2
<1>8. CASE EnableFlag(p)
  <2> USE <1>8 DEF Goto, handler, maps, locals, cpu, EnableFlag, EnableReturn,
        Return
  <2>1. UseInv'
    BY DEF UseInv, TypeOK, Objects, WorkInv
  <2>2. OwnedInv'
    BY DEF OwnedInv, Owner, Inserted, Erased, UseInv, TypeOK, Objects, WorkInv
  <2> QED
    BY <2>1, <2>2
<1> QED
  BY <1>1, <1>2, <1>3, <1>4, <1>5, <1>6, <1>7, <1>8 DEF EnableStep

(* Every statement of Disable preserves the ownership.                     *)
LEMMA DisableStepOwned ==
  ASSUME OInv, NEW p \in Threads, DisableStep(p)
  PROVE  UseInv' /\ OwnedInv'
<1> USE ConstantsAssumption DEF OInv, IInv, EnableLabels, DisableLabels,
      CallLabels
<1>1. CASE DisableLock(p)
  <2> USE <1>1 DEF Goto, handler, maps, locals, cpu, DisableLock, Acquire
  <2>1. UseInv'
    BY DEF UseInv, TypeOK, Objects, WorkInv
  <2>2. OwnedInv'
    BY DEF OwnedInv, Owner, Inserted, Erased, UseInv, TypeOK, Objects, WorkInv
  <2> QED
    BY <2>1, <2>2
<1>2. CASE DisableRefused(p)
  <2> USE <1>2 DEF Goto, handler, maps, locals, cpu, DisableRefused, Return,
        Release
  <2>1. UseInv'
    BY DEF UseInv, TypeOK, Objects, WorkInv
  <2>2. OwnedInv'
    BY DEF OwnedInv, Owner, Inserted, Erased, UseInv, TypeOK, Objects, WorkInv
  <2> QED
    BY <2>1, <2>2
<1>3. CASE DisableErase(p)
  <2> USE <1>3 DEF Goto, handler, maps, locals, cpu, DisableErase
  <2>1. UseInv'
    BY DEF UseInv, TypeOK, Objects, WorkInv
  <2>2. OwnedInv'
    BY DEF OwnedInv, Owner, Inserted, Erased, UseInv, TypeOK, Objects, WorkInv
  <2> QED
    BY <2>1, <2>2
<1>4. CASE DisablePatch(p)
  <2> USE <1>4 DEF Goto, handler, maps, locals, cpu, DisablePatch, Release
  <2>1. UseInv'
    BY DEF UseInv, TypeOK, Objects, WorkInv
  <2>2. OwnedInv'
    BY DEF OwnedInv, Owner, Inserted, Erased, UseInv, TypeOK, Objects, WorkInv
  <2> QED
    BY <2>1, <2>2
<1>5. CASE DisableRemove(p)
  <2> USE <1>5 DEF Goto, handler, maps, locals, cpu, DisableRemove
  <2>1. UseInv'
    BY DEF UseInv, TypeOK, Objects, WorkInv
  <2>2. OwnedInv'
    BY DEF OwnedInv, Owner, Inserted, Erased, UseInv, TypeOK, Objects, WorkInv
  <2> QED
    BY <2>1, <2>2
<1>6. CASE DisableRemoveFails(p)
  <2> USE <1>6 DEF Goto, handler, maps, locals, cpu, DisableRemoveFails, Return
  <2>1. UseInv'
    BY DEF UseInv, TypeOK, Objects, WorkInv
  <2>2. OwnedInv'
    BY DEF OwnedInv, Owner, Inserted, Erased, UseInv, TypeOK, Objects, WorkInv
  <2> QED
    BY <2>1, <2>2
<1>7. CASE DisableClear(p)
  <2> USE <1>7 DEF Goto, handler, maps, locals, cpu, DisableClear
  <2>1. UseInv'
    BY DEF UseInv, TypeOK, Objects, WorkInv
  <2>2. OwnedInv'
    BY DEF OwnedInv, Owner, Inserted, Erased, UseInv, TypeOK, Objects, WorkInv
  <2> QED
    BY <2>1, <2>2
<1>8. CASE DisableReturn(p)
  <2> USE <1>8 DEF Goto, handler, maps, locals, cpu, DisableReturn, Return,
        NoHook
  <2>1. UseInv'
    BY DEF UseInv, TypeOK, Objects, WorkInv
  <2>2. OwnedInv'
    BY DEF OwnedInv, Owner, Inserted, Erased, UseInv, TypeOK, Objects, WorkInv
  <2> QED
    BY <2>1, <2>2
<1> QED
  BY <1>1, <1>2, <1>3, <1>4, <1>5, <1>6, <1>7, <1>8 DEF DisableStep

(* Every step of a call preserves the ownership.                           *)
LEMMA CallStepOwned ==
  ASSUME OInv, NEW p \in Threads, CallStep(p)
  PROVE  UseInv' /\ OwnedInv'
<1> USE ConstantsAssumption DEF OInv, IInv, EnableLabels, DisableLabels,
      CallLabels
<1>1. CASE Trap(p)
  <2> USE <1>1 DEF Goto, handler, maps, locals, cpu, Trap, AtBreakpoint
  <2>1. UseInv'
    BY DEF UseInv, TypeOK, Objects, WorkInv
  <2>2. OwnedInv'
    BY DEF OwnedInv, Owner, Inserted, Erased, UseInv, TypeOK, Objects, WorkInv
  <2> QED
    BY <2>1, <2>2
<1>2. CASE Dispatch(p)
  <2> USE <1>2 DEF Goto, handler, maps, locals, cpu, Dispatch
  <2>1. UseInv'
    BY DEF UseInv, TypeOK, Objects, WorkInv
  <2>2. OwnedInv'
    BY DEF OwnedInv, Owner, Inserted, Erased, UseInv, TypeOK, Objects, WorkInv
  <2> QED
    BY <2>1, <2>2
<1>3. CASE HandlerLock(p)
  <2> USE <1>3 DEF Goto, handler, maps, locals, cpu, HandlerLock, Acquire
  <2>1. UseInv'
    BY DEF UseInv, TypeOK, Objects, WorkInv
  <2>2. OwnedInv'
    BY DEF OwnedInv, Owner, Inserted, Erased, UseInv, TypeOK, Objects, WorkInv
  <2> QED
    BY <2>1, <2>2
<1>4. CASE HandlerRedirect(p)
  <2> USE <1>4 DEF Goto, handler, maps, locals, cpu, HandlerRedirect, Release
  <2>1. UseInv'
    BY DEF UseInv, TypeOK, Objects, WorkInv
  <2>2. OwnedInv'
    BY DEF OwnedInv, Owner, Inserted, Erased, UseInv, TypeOK, Objects, WorkInv
  <2> QED
    BY <2>1, <2>2
<1>5. CASE Execute(p)
  <2> USE <1>5 DEF Goto, handler, maps, locals, cpu, Execute, AtBreakpoint
  <2>1. UseInv'
    BY DEF UseInv, TypeOK, Objects, WorkInv
  <2>2. OwnedInv'
    BY DEF OwnedInv, Owner, Inserted, Erased, UseInv, TypeOK, Objects, WorkInv
  <2> QED
    BY <2>1, <2>2
<1>6. CASE SingleStep(p)
  <2> USE <1>6 DEF Goto, handler, maps, locals, cpu, SingleStep
  <2>1. UseInv'
    BY DEF UseInv, TypeOK, Objects, WorkInv
  <2>2. OwnedInv'
    BY DEF OwnedInv, Owner, Inserted, Erased, UseInv, TypeOK, Objects, WorkInv
  <2> QED
    BY <2>1, <2>2
<1>7. CASE CallReturns(p)
  <2> USE <1>7 DEF Goto, handler, maps, locals, cpu, CallReturns
  <2>1. UseInv'
    BY DEF UseInv, TypeOK, Objects, WorkInv
  <2>2. OwnedInv'
    BY DEF OwnedInv, Owner, Inserted, Erased, UseInv, TypeOK, Objects, WorkInv
  <2> QED
    BY <2>1, <2>2
<1> QED
  BY <1>1, <1>2, <1>3, <1>4, <1>5, <1>6, <1>7 DEF CallStep

(* So does the beginning of a call, of an Enable or of a Disable.          *)
LEMMA BeginOwned ==
  ASSUME OInv, NEW p \in Threads, Begin(p)
  PROVE  UseInv' /\ OwnedInv'
<1> USE ConstantsAssumption DEF OInv, IInv, EnableLabels, DisableLabels,
      CallLabels
<1>1. ASSUME NEW t \in Targets, Call(p, t)
      PROVE  UseInv' /\ OwnedInv'
  <2> USE <1>1 DEF Goto, handler, maps, locals, cpu, Call
  <2>1. UseInv'
    BY DEF UseInv, TypeOK, Objects, WorkInv
  <2>2. OwnedInv'
    BY DEF OwnedInv, Owner, Inserted, Erased, UseInv, TypeOK, Objects, WorkInv
  <2> QED
    BY <2>1, <2>2
<1>2. ASSUME NEW h \in Hooks, Disable(p, h)
      PROVE  UseInv' /\ OwnedInv'
  <2> USE <1>2 DEF Goto, handler, maps, locals, cpu, Disable, InUse
  <2>1. UseInv'
    BY DEF UseInv, TypeOK, Objects, WorkInv
  <2>2. OwnedInv'
    BY DEF OwnedInv, Owner, Inserted, Erased, UseInv, TypeOK, Objects, WorkInv
  <2> QED
    BY <2>1, <2>2
<1>3. ASSUME NEW h \in Hooks, NEW t \in Targets, NEW d \in Detours, Enable(p, h, t, d)
      PROVE  UseInv' /\ OwnedInv'
  <2> USE <1>3 DEF Goto, handler, maps, locals, cpu, Enable, InUse
  <2>1. UseInv'
    BY DEF UseInv, TypeOK, Objects, WorkInv
  <2>2. OwnedInv'
    BY DEF OwnedInv, Owner, Inserted, Erased, UseInv, TypeOK, Objects, WorkInv
  <2> QED
    BY <2>1, <2>2
<1> QED
  BY <1>1, <1>2, <1>3 DEF Begin

(* Every step preserves the invariant.                                     *)
LEMMA NextOInv == OInv /\ [Next]_vars => OInv'
<1> SUFFICES ASSUME OInv, [Next]_vars PROVE OInv'
  OBVIOUS
<1>1. IInv'
  BY NextInv DEF OInv
<1>2. ASSUME NEW p \in Threads, Step(p) PROVE UseInv' /\ OwnedInv'
  BY <1>2, EnableStepOwned, DisableStepOwned, CallStepOwned DEF Step
<1>3. ASSUME NEW p \in Threads, Begin(p) PROVE UseInv' /\ OwnedInv'
  BY <1>3, BeginOwned
<1>4. ASSUME UNCHANGED vars PROVE UseInv' /\ OwnedInv'
  BY <1>4 DEF vars, maps, handler, cpu, locals, OInv, UseInv, OwnedInv, Owner
<1>5. UseInv' /\ OwnedInv'
  BY <1>2, <1>3, <1>4 DEF Next
<1> QED
  BY <1>1, <1>5 DEF OInv

(* Every reachable state satisfies the invariant.                          *)
LEMMA Ownership == Spec => []OInv
  BY InitOInv, NextOInv, PTL DEF Spec

(* A target that no object is enabled for or working on has its compiled   *)
(* byte, however many Enable and Disable calls interleaved or failed.      *)
THEOREM Restoration == Spec => []CodeRestored
<1>1. ASSUME OInv PROVE CodeRestored
  <2> SUFFICES ASSUME NEW t \in Targets, Idle(t)
               PROVE  code[t] = OrigByte[t]
    BY DEF CodeRestored
  <2>1. ~Patching(t)
    BY <1>1 DEF Patching, Idle, InUse, OInv, IInv, WorkInv, EnableLabels,
       DisableLabels
  <2>2. activeHooks[t] = NULL
    BY <1>1 DEF Idle, InUse, OInv, OwnedInv, Owner
  <2> QED
    BY <1>1, <2>1, <2>2 DEF OInv, IInv, CodeMatchesHooks
<1> QED
  BY Ownership, <1>1, PTL

-----------------------------------------------------------------------------
(* While a hook is enabled throughout, every owner's entry is its own, no  *)
(* target has two owners and the handler stays registered.                 *)
OwnersInv ==
  /\ \A h \in Hooks : Owner(h) => activeHooks[obj[h].target] = obj[h].detour
  /\ \A g, h \in Hooks :
       Owner(g) /\ Owner(h) /\ obj[g].target = obj[h].target => g = h

PinnedInv ==
  /\ obj[PinHook].enabled /\ obj[PinHook].target = PinTarget
  /\ obj[PinHook].detour = PinDetour
  /\ activeHooks[PinTarget] = PinDetour
  /\ installed /\ handlers # {}
  /\ \A p \in Threads :
       /\ cur[p] # PinHook /\ lastHook[p] = FALSE
       /\ pc[p] \notin {"enable_add", "enable_flag", "disable_remove",
                        "disable_clear", "unhandled"}

(* A call points at the function called or at a detour; a call of the      *)
(* pinned target at its detour, once past the first instruction.           *)
CallInv ==
  \A p \in Threads :
    /\ pc[p] \in CallLabels =>
         /\ callee[p] \in Targets
         /\ ip[p] \in Targets \cup Detours
         /\ ip[p] \in Targets => ip[p] = callee[p]
    /\ pc[p] \notin CallLabels => callee[p] = NULL /\ ip[p] = NULL
    /\ ip[p] = PinTarget => pc[p] \notin {"step_raised", "body"}
    /\ callee[p] = PinTarget /\ ip[p] \in Detours => ip[p] = PinDetour

(* The code a Disable is about to restore is INT 3.                        *)
RestoreInv ==
  \A p \in Threads : pc[p] = "disable_patch" => code[obj[cur[p]].target] = Int3

PInv == OInv /\ OwnersInv /\ PinnedInv /\ CallInv /\ RestoreInv

(* The initial states satisfy the invariant.                               *)
LEMMA InitPInv == PinHook # NULL /\ Init => PInv
<1> SUFFICES ASSUME PinHook # NULL, Init PROVE PInv
  OBVIOUS
<1> USE ConstantsAssumption
<1>1. OwnersInv
  BY DEF Init, OwnersInv, Owner, NoHook, Inserted
<1>2. PinnedInv
  BY DEF Init, PinnedInv
<1>3. CallInv /\ RestoreInv
  BY DEF Init, CallInv, RestoreInv, CallLabels
<1> QED
  BY <1>1, <1>2, <1>3, InitOInv DEF PInv

(* While a hook is enabled throughout, its target traps.                   *)
LEMMA PinnedTraps ==
  ASSUME PinHook # NULL, PInv
  PROVE  code[PinTarget] = Int3
<1> USE ConstantsAssumption DEF PInv, OInv, IInv, PinnedInv
<1>1. Owner(PinHook)
  BY DEF Owner
<1>2. ASSUME Patching(PinTarget) PROVE FALSE
  <2>1. PICK p \in Threads : /\ pc[p] \in {"enable_patch", "disable_patch"}
                             /\ obj[cur[p]].target = PinTarget
    BY <1>2 DEF Patching
  <2>2. cur[p] \in Hooks
    BY <2>1 DEF WorkInv, EnableLabels, DisableLabels
  <2>3. CASE pc[p] = "enable_patch"
    BY <1>1, <2>1, <2>2, <2>3 DEF Owner, Inserted, OwnersInv
  <2>4. CASE pc[p] = "disable_patch"
    BY <2>1, <2>4 DEF WindowInv
  <2> QED
    BY <2>1, <2>3, <2>4
<1> QED
  BY <1>2 DEF CodeMatchesHooks

(* Every statement of Enable preserves it.                                 *)
LEMMA EnableStepPinned ==
  ASSUME PinHook # NULL, PInv, NEW p \in Threads, EnableStep(p)
  PROVE  OwnersInv' /\ PinnedInv' /\ CallInv' /\ RestoreInv'
<1> USE ConstantsAssumption DEF PInv, OInv, IInv, EnableLabels, DisableLabels,
      CallLabels
<1>1. CASE EnableLock(p)
  <2> USE <1>1 DEF Goto, handler, maps, locals, cpu, EnableLock, Acquire
  <2>1. \A h \in Hooks : Owner(h)' <=> Owner(h)
    BY DEF Owner, Inserted, Erased, UseInv, TypeOK, Objects, WorkInv, PinnedInv
  <2>2. \A h \in Hooks : Owner(h)' => /\ obj'[h].target = obj[h].target
                                   /\ obj'[h].detour = obj[h].detour
    BY DEF Owner, Inserted, Erased, UseInv, TypeOK, Objects, WorkInv, PinnedInv,
       OwnersInv
  <2>3. OwnersInv'
    BY <2>1, <2>2 DEF OwnersInv, TypeOK, Objects, WorkInv
  <2>4. PinnedInv'
    BY DEF PinnedInv, UseInv, TypeOK, Objects, WorkInv, OwnersInv, Owner,
       Inserted, Erased
  <2>5. CallInv'
    BY DEF CallInv, TypeOK, AtBreakpoint, CodeMatchesHooks, Patching, PinnedInv,
       LockInv, RaisedInv, WindowInv, WorkInv
  <2>6. RestoreInv'
    BY DEF RestoreInv, TypeOK, CodeMatchesHooks, Patching, LockInv, Locked,
       WorkInv, WindowInv
  <2> QED
    BY <2>1, <2>2, <2>3, <2>4, <2>5, <2>6
<1>2. CASE EnableRefused(p)
  <2> USE <1>2 DEF Goto, handler, maps, locals, cpu, EnableRefused, Return,
        Release
  <2>1. \A h \in Hooks : Owner(h)' <=> Owner(h)
    BY DEF Owner, Inserted, Erased, UseInv, TypeOK, Objects, WorkInv, PinnedInv
  <2>2. \A h \in Hooks : Owner(h)' => /\ obj'[h].target = obj[h].target
                                   /\ obj'[h].detour = obj[h].detour
    BY DEF Owner, Inserted, Erased, UseInv, TypeOK, Objects, WorkInv, PinnedInv,
       OwnersInv
  <2>3. OwnersInv'
    BY <2>1, <2>2 DEF OwnersInv, TypeOK, Objects, WorkInv
  <2>4. PinnedInv'
    BY DEF PinnedInv, UseInv, TypeOK, Objects, WorkInv, OwnersInv, Owner,
       Inserted, Erased
  <2>5. CallInv'
    BY DEF CallInv, TypeOK, AtBreakpoint, CodeMatchesHooks, Patching, PinnedInv,
       LockInv, RaisedInv, WindowInv, WorkInv
  <2>6. RestoreInv'
    BY DEF RestoreInv, TypeOK, CodeMatchesHooks, Patching, LockInv, Locked,
       WorkInv, WindowInv
  <2> QED
    BY <2>1, <2>2, <2>3, <2>4, <2>5, <2>6
<1>3. CASE EnableInsert(p)
  <2> USE <1>3 DEF Goto, handler, maps, locals, cpu, EnableInsert
  <2>1. \A h \in Hooks : Owner(h)' <=> Owner(h) \/ h = cur[p]
    BY DEF Owner, Inserted, Erased, UseInv, TypeOK, Objects, WorkInv, PinnedInv
  <2>2. /\ cur[p] \in Hooks
       /\ \A h \in Hooks : Owner(h) => obj[h].target # obj[cur[p]].target
    BY DEF Owner, Inserted, Erased, UseInv, TypeOK, Objects, WorkInv, PinnedInv,
       OwnersInv
  <2>3. OwnersInv'
    BY <2>1, <2>2 DEF OwnersInv, TypeOK, Objects, WorkInv
  <2>4. PinnedInv'
    BY DEF PinnedInv, UseInv, TypeOK, Objects, WorkInv, OwnersInv, Owner,
       Inserted, Erased
  <2>5. CallInv'
    BY DEF CallInv, TypeOK, AtBreakpoint, CodeMatchesHooks, Patching, PinnedInv,
       LockInv, RaisedInv, WindowInv, WorkInv
  <2>6. RestoreInv'
    BY DEF RestoreInv, TypeOK, CodeMatchesHooks, Patching, LockInv, Locked,
       WorkInv, WindowInv
  <2> QED
    BY <2>1, <2>2, <2>3, <2>4, <2>5, <2>6
<1>4. CASE EnablePatch(p)
  <2> USE <1>4 DEF Goto, handler, maps, locals, cpu, EnablePatch, Release
  <2>1. \A h \in Hooks : Owner(h)' <=> Owner(h)
    BY DEF Owner, Inserted, Erased, UseInv, TypeOK, Objects, WorkInv, PinnedInv
  <2>2. \A h \in Hooks : Owner(h)' => /\ obj'[h].target = obj[h].target
                                   /\ obj'[h].detour = obj[h].detour
    BY DEF Owner, Inserted, Erased, UseInv, TypeOK, Objects, WorkInv, PinnedInv,
       OwnersInv
  <2>3. OwnersInv'
    BY <2>1, <2>2 DEF OwnersInv, TypeOK, Objects, WorkInv
  <2>4. PinnedInv'
    BY DEF PinnedInv, UseInv, TypeOK, Objects, WorkInv, OwnersInv, Owner,
       Inserted, Erased
  <2>5. CallInv'
    BY DEF CallInv, TypeOK, AtBreakpoint, CodeMatchesHooks, Patching, PinnedInv,
       LockInv, RaisedInv, WindowInv, WorkInv
  <2>6. RestoreInv'
    BY DEF RestoreInv, TypeOK, CodeMatchesHooks, Patching, LockInv, Locked,
       WorkInv, WindowInv
  <2> QED
    BY <2>1, <2>2, <2>3, <2>4, <2>5, <2>6
<1>5. CASE EnableInstalled(p)
  <2> USE <1>5 DEF Goto, handler, maps, locals, cpu, EnableInstalled,
        EnableReturn, Return
  <2>1. \A h \in Hooks : Owner(h)' <=> Owner(h)
    BY DEF Owner, Inserted, Erased, UseInv, TypeOK, Objects, WorkInv, PinnedInv
  <2>2. \A h \in Hooks : Owner(h)' => /\ obj'[h].target = obj[h].target
                                   /\ obj'[h].detour = obj[h].detour
    BY DEF Owner, Inserted, Erased, UseInv, TypeOK, Objects, WorkInv, PinnedInv,
       OwnersInv
  <2>3. OwnersInv'
    BY <2>1, <2>2 DEF OwnersInv, TypeOK, Objects, WorkInv
  <2>4. PinnedInv'
    BY DEF PinnedInv, UseInv, TypeOK, Objects, WorkInv, OwnersInv, Owner,
       Inserted, Erased
  <2>5. CallInv'
    BY DEF CallInv, TypeOK, AtBreakpoint, CodeMatchesHooks, Patching, PinnedInv,
       LockInv, RaisedInv, WindowInv, WorkInv
  <2>6. RestoreInv'
    BY DEF RestoreInv, TypeOK, CodeMatchesHooks, Patching, LockInv, Locked,
       WorkInv, WindowInv
  <2> QED
    BY <2>1, <2>2, <2>3, <2>4, <2>5, <2>6
<1>6. CASE EnableNotInstalled(p)
  <2> USE <1>6 DEF Goto, handler, maps, locals, cpu, EnableNotInstalled
  <2>1. \A h \in Hooks : Owner(h)' <=> Owner(h)
    BY DEF Owner, Inserted, Erased, UseInv, TypeOK, Objects, WorkInv, PinnedInv
  <2>2. \A h \in Hooks : Owner(h)' => /\ obj'[h].target = obj[h].target
                                   /\ obj'[h].detour = obj[h].detour
    BY DEF Owner, Inserted, Erased, UseInv, TypeOK, Objects, WorkInv, PinnedInv,
       OwnersInv
  <2>3. OwnersInv'
    BY <2>1, <2>2 DEF OwnersInv, TypeOK, Objects, WorkInv
  <2>4. PinnedInv'
    BY DEF PinnedInv, UseInv, TypeOK, Objects, WorkInv, OwnersInv, Owner,
       Inserted, Erased
  <2>5. CallInv'
    BY DEF CallInv, TypeOK, AtBreakpoint, CodeMatchesHooks, Patching, PinnedInv,
       LockInv, RaisedInv, WindowInv, WorkInv
  <2>6. RestoreInv'
    BY DEF RestoreInv, TypeOK, CodeMatchesHooks, Patching, LockInv, Locked,
       WorkInv, WindowInv
  <2> QED
    BY <2>1, <2>2, <2>3, <2>4, <2>5, <2>6
<1>7. CASE EnableAdd(p)
  <2> USE <1>7 DEF Goto, handler, maps, locals, cpu, EnableAdd
  <2>1. \A h \in Hooks : Owner(h)' <=> Owner(h)
    BY DEF Owner, Inserted, Erased, UseInv, TypeOK, Objects, WorkInv, PinnedInv
  <2>2. \A h \in Hooks : Owner(h)' => /\ obj'[h].target = obj[h].target
                                   /\ obj'[h].detour = obj[h].detour
    BY DEF Owner, Inserted, Erased, UseInv, TypeOK, Objects, WorkInv, PinnedInv,
       OwnersInv
  <2>3. OwnersInv'
    BY <2>1, <2>2 DEF OwnersInv, TypeOK, Objects, WorkInv
  <2>4. PinnedInv'
    BY DEF PinnedInv, UseInv, TypeOK, Objects, WorkInv, OwnersInv, Owner,
       Inserted, Erased
  <2>5. CallInv'
    BY DEF CallInv, TypeOK, AtBreakpoint, CodeMatchesHooks, Patching, PinnedInv,
       LockInv, RaisedInv, WindowInv, WorkInv
  <2>6. RestoreInv'
    BY DEF RestoreInv, TypeOK, CodeMatchesHooks, Patching, LockInv, Locked,
       WorkInv, WindowInv
  <2> QED
    BY <2>1, <2>2, <2>3, <2>4, <2>5, <2>6
<1>8. CASE EnableFlag(p)
  <2> USE <1>8 DEF Goto, handler, maps, locals, cpu, EnableFlag, EnableReturn,
        Return
  <2>1. \A h \in Hooks : Owner(h)' <=> Owner(h)
    BY DEF Owner, Inserted, Erased, UseInv, TypeOK, Objects, WorkInv, PinnedInv
  <2>2. \A h \in Hooks : Owner(h)' => /\ obj'[h].target = obj[h].target
                                   /\ obj'[h].detour = obj[h].detour
    BY DEF Owner, Inserted, Erased, UseInv, TypeOK, Objects, WorkInv, PinnedInv,
       OwnersInv
  <2>3. OwnersInv'
    BY <2>1, <2>2 DEF OwnersInv, TypeOK, Objects, WorkInv
  <2>4. PinnedInv'
    BY DEF PinnedInv, UseInv, TypeOK, Objects, WorkInv, OwnersInv, Owner,
       Inserted, Erased
  <2>5. CallInv'
    BY DEF CallInv, TypeOK, AtBreakpoint, CodeMatchesHooks, Patching, PinnedInv,
       LockInv, RaisedInv, WindowInv, WorkInv
  <2>6. RestoreInv'
    BY DEF RestoreInv, TypeOK, CodeMatchesHooks, Patching, LockInv, Locked,
       WorkInv, WindowInv
  <2> QED
    BY <2>1, <2>2, <2>3, <2>4, <2>5, <2>6
<1> QED
  BY <1>1, <1>2, <1>3, <1>4, <1>5, <1>6, <1>7, <1>8 DEF EnableStep

(* Every statement of Disable preserves it.                                *)
LEMMA DisableStepPinned ==
  ASSUME PinHook # NULL, PInv, NEW p \in Threads, DisableStep(p)
  PROVE  OwnersInv' /\ PinnedInv' /\ CallInv' /\ RestoreInv'
<1> USE ConstantsAssumption DEF PInv, OInv, IInv, EnableLabels, DisableLabels,
      CallLabels
<1>1. CASE DisableLock(p)
  <2> USE <1>1 DEF Goto, handler, maps, locals, cpu, DisableLock, Acquire
  <2>1. \A h \in Hooks : Owner(h)' <=> Owner(h)
    BY DEF Owner, Inserted, Erased, UseInv, TypeOK, Objects, WorkInv, PinnedInv
  <2>2. \A h \in Hooks : Owner(h)' => /\ obj'[h].target = obj[h].target
                                   /\ obj'[h].detour = obj[h].detour
    BY DEF Owner, Inserted, Erased, UseInv, TypeOK, Objects, WorkInv, PinnedInv,
       OwnersInv
  <2>3. OwnersInv'
    BY <2>1, <2>2 DEF OwnersInv, TypeOK, Objects, WorkInv
  <2>4. PinnedInv'
    BY DEF PinnedInv, UseInv, TypeOK, Objects, WorkInv, OwnersInv, Owner,
       Inserted, Erased
  <2>5. CallInv'
    BY DEF CallInv, TypeOK, AtBreakpoint, CodeMatchesHooks, Patching, PinnedInv,
       LockInv, RaisedInv, WindowInv, WorkInv
  <2>6. RestoreInv'
    BY DEF RestoreInv, TypeOK, CodeMatchesHooks, Patching, LockInv, Locked,
       WorkInv, WindowInv
  <2> QED
    BY <2>1, <2>2, <2>3, <2>4, <2>5, <2>6
<1>2. CASE DisableRefused(p)
  <2> USE <1>2 DEF Goto, handler, maps, locals, cpu, DisableRefused, Return,
        Release
  <2>1. \A h \in Hooks : Owner(h)' <=> Owner(h)
    BY DEF Owner, Inserted, Erased, UseInv, TypeOK, Objects, WorkInv, PinnedInv
  <2>2. \A h \in Hooks : Owner(h)' => /\ obj'[h].target = obj[h].target
                                   /\ obj'[h].detour = obj[h].detour
    BY DEF Owner, Inserted, Erased, UseInv, TypeOK, Objects, WorkInv, PinnedInv,
       OwnersInv
  <2>3. OwnersInv'
    BY <2>1, <2>2 DEF OwnersInv, TypeOK, Objects, WorkInv
  <2>4. PinnedInv'
    BY DEF PinnedInv, UseInv, TypeOK, Objects, WorkInv, OwnersInv, Owner,
       Inserted, Erased
  <2>5. CallInv'
    BY DEF CallInv, TypeOK, AtBreakpoint, CodeMatchesHooks, Patching, PinnedInv,
       LockInv, RaisedInv, WindowInv, WorkInv
  <2>6. RestoreInv'
    BY DEF RestoreInv, TypeOK, CodeMatchesHooks, Patching, LockInv, Locked,
       WorkInv, WindowInv
  <2> QED
    BY <2>1, <2>2, <2>3, <2>4, <2>5, <2>6
<1>3. CASE DisableErase(p)
  <2> USE <1>3 DEF Goto, handler, maps, locals, cpu, DisableErase
  <2>1. \A h \in Hooks : Owner(h)' <=> Owner(h) /\ h # cur[p]
    BY DEF Owner, Inserted, Erased, UseInv, TypeOK, Objects, WorkInv, PinnedInv
  <2>2. /\ cur[p] \in Hooks
       /\ \A h \in Hooks : Owner(h) /\ h # cur[p] => obj[h].target # obj[cur[p]].target
    BY DEF Owner, Inserted, Erased, UseInv, TypeOK, Objects, WorkInv, PinnedInv,
       OwnersInv
  <2>3. OwnersInv'
    BY <2>1, <2>2 DEF OwnersInv, TypeOK, Objects, WorkInv
  <2>4. PinnedInv'
    BY DEF PinnedInv, UseInv, TypeOK, Objects, WorkInv, OwnersInv, Owner,
       Inserted, Erased
  <2>5. CallInv'
    BY DEF CallInv, TypeOK, AtBreakpoint, CodeMatchesHooks, Patching, PinnedInv,
       LockInv, RaisedInv, WindowInv, WorkInv
  <2>6. RestoreInv'
    BY DEF RestoreInv, TypeOK, CodeMatchesHooks, Patching, LockInv, Locked,
       WorkInv, WindowInv
  <2> QED
    BY <2>1, <2>2, <2>3, <2>4, <2>5, <2>6
<1>4. CASE DisablePatch(p)
  <2> USE <1>4 DEF Goto, handler, maps, locals, cpu, DisablePatch, Release
  <2>1. \A h \in Hooks : Owner(h)' <=> Owner(h)
    BY DEF Owner, Inserted, Erased, UseInv, TypeOK, Objects, WorkInv, PinnedInv
  <2>2. \A h \in Hooks : Owner(h)' => /\ obj'[h].target = obj[h].target
                                   /\ obj'[h].detour = obj[h].detour
    BY DEF Owner, Inserted, Erased, UseInv, TypeOK, Objects, WorkInv, PinnedInv,
       OwnersInv
  <2>3. OwnersInv'
    BY <2>1, <2>2 DEF OwnersInv, TypeOK, Objects, WorkInv
  <2>4. PinnedInv'
    BY DEF PinnedInv, UseInv, TypeOK, Objects, WorkInv, OwnersInv, Owner,
       Inserted, Erased
  <2>5. CallInv'
    BY DEF CallInv, TypeOK, AtBreakpoint, CodeMatchesHooks, Patching, PinnedInv,
       LockInv, RaisedInv, WindowInv, WorkInv
  <2>6. RestoreInv'
    BY DEF RestoreInv, TypeOK, CodeMatchesHooks, Patching, LockInv, Locked,
       WorkInv, WindowInv
  <2> QED
    BY <2>1, <2>2, <2>3, <2>4, <2>5, <2>6
<1>5. CASE DisableRemove(p)
  <2> USE <1>5 DEF Goto, handler, maps, locals, cpu, DisableRemove
  <2>1. \A h \in Hooks : Owner(h)' <=> Owner(h)
    BY DEF Owner, Inserted, Erased, UseInv, TypeOK, Objects, WorkInv, PinnedInv
  <2>2. \A h \in Hooks : Owner(h)' => /\ obj'[h].target = obj[h].target
                                   /\ obj'[h].detour = obj[h].detour
    BY DEF Owner, Inserted, Erased, UseInv, TypeOK, Objects, WorkInv, PinnedInv,
       OwnersInv
  <2>3. OwnersInv'
    BY <2>1, <2>2 DEF OwnersInv, TypeOK, Objects, WorkInv
  <2>4. PinnedInv'
    BY DEF PinnedInv, UseInv, TypeOK, Objects, WorkInv, OwnersInv, Owner,
       Inserted, Erased
  <2>5. CallInv'
    BY DEF CallInv, TypeOK, AtBreakpoint, CodeMatchesHooks, Patching, PinnedInv,
       LockInv, RaisedInv, WindowInv, WorkInv
  <2>6. RestoreInv'
    BY DEF RestoreInv, TypeOK, CodeMatchesHooks, Patching, LockInv, Locked,
       WorkInv, WindowInv
  <2> QED
    BY <2>1, <2>2, <2>3, <2>4, <2>5, <2>6
<1>6. CASE DisableRemoveFails(p)
  <2> USE <1>6 DEF Goto, handler, maps, locals, cpu, DisableRemoveFails, Return
  <2>1. \A h \in Hooks : Owner(h)' <=> Owner(h)
    BY DEF Owner, Inserted, Erased, UseInv, TypeOK, Objects, WorkInv, PinnedInv
  <2>2. \A h \in Hooks : Owner(h)' => /\ obj'[h].target = obj[h].target
                                   /\ obj'[h].detour = obj[h].detour
    BY DEF Owner, Inserted, Erased, UseInv, TypeOK, Objects, WorkInv, PinnedInv,
       OwnersInv
  <2>3. OwnersInv'
    BY <2>1, <2>2 DEF OwnersInv, TypeOK, Objects, WorkInv
  <2>4. PinnedInv'
    BY DEF PinnedInv, UseInv, TypeOK, Objects, WorkInv, OwnersInv, Owner,
       Inserted, Erased
  <2>5. CallInv'
    BY DEF CallInv, TypeOK, AtBreakpoint, CodeMatchesHooks, Patching, PinnedInv,
       LockInv, RaisedInv, WindowInv, WorkInv
  <2>6. RestoreInv'
    BY DEF RestoreInv, TypeOK, CodeMatchesHooks, Patching, LockInv, Locked,
       WorkInv, WindowInv
  <2> QED
    BY <2>1, <2>2, <2>3, <2>4, <2>5, <2>6
<1>7. CASE DisableClear(p)
  <2> USE <1>7 DEF Goto, handler, maps, locals, cpu, DisableClear
  <2>1. \A h \in Hooks : Owner(h)' <=> Owner(h)
    BY DEF Owner, Inserted, Erased, UseInv, TypeOK, Objects, WorkInv, PinnedInv
  <2>2. \A h \in Hooks : Owner(h)' => /\ obj'[h].target = obj[h].target
                                   /\ obj'[h].detour = obj[h].detour
    BY DEF Owner, Inserted, Erased, UseInv, TypeOK, Objects, WorkInv, PinnedInv,
       OwnersInv
  <2>3. OwnersInv'
    BY <2>1, <2>2 DEF OwnersInv, TypeOK, Objects, WorkInv
  <2>4. PinnedInv'
    BY DEF PinnedInv, UseInv, TypeOK, Objects, WorkInv, OwnersInv, Owner,
       Inserted, Erased
  <2>5. CallInv'
    BY DEF CallInv, TypeOK, AtBreakpoint, CodeMatchesHooks, Patching, PinnedInv,
       LockInv, RaisedInv, WindowInv, WorkInv
  <2>6. RestoreInv'
    BY DEF RestoreInv, TypeOK, CodeMatchesHooks, Patching, LockInv, Locked,
       WorkInv, WindowInv
  <2> QED
    BY <2>1, <2>2, <2>3, <2>4, <2>5, <2>6
<1>8. CASE DisableReturn(p)
  <2> USE <1>8 DEF Goto, handler, maps, locals, cpu, DisableReturn, Return,
        NoHook
  <2>1. \A h \in Hooks : Owner(h)' <=> Owner(h)
    BY DEF Owner, Inserted, Erased, UseInv, TypeOK, Objects, WorkInv, PinnedInv
  <2>2. \A h \in Hooks : Owner(h)' => /\ obj'[h].target = obj[h].target
                                   /\ obj'[h].detour = obj[h].detour
    BY DEF Owner, Inserted, Erased, UseInv, TypeOK, Objects, WorkInv, PinnedInv,
       OwnersInv
  <2>3. OwnersInv'
    BY <2>1, <2>2 DEF OwnersInv, TypeOK, Objects, WorkInv
  <2>4. PinnedInv'
    BY DEF PinnedInv, UseInv, TypeOK, Objects, WorkInv, OwnersInv, Owner,
       Inserted, Erased
  <2>5. CallInv'
    BY DEF CallInv, TypeOK, AtBreakpoint, CodeMatchesHooks, Patching, PinnedInv,
       LockInv, RaisedInv, WindowInv, WorkInv
  <2>6. RestoreInv'
    BY DEF RestoreInv, TypeOK, CodeMatchesHooks, Patching, LockInv, Locked,
       WorkInv, WindowInv
  <2> QED
    BY <2>1, <2>2, <2>3, <2>4, <2>5, <2>6
<1> QED
  BY <1>1, <1>2, <1>3, <1>4, <1>5, <1>6, <1>7, <1>8 DEF DisableStep

(* Every step of a call preserves it.                                      *)
LEMMA CallStepPinned ==
  ASSUME PinHook # NULL, PInv, NEW p \in Threads, CallStep(p)
  PROVE  OwnersInv' /\ PinnedInv' /\ CallInv' /\ RestoreInv'
<1> USE ConstantsAssumption DEF PInv, OInv, IInv, EnableLabels, DisableLabels,
      CallLabels
<1>1. CASE Trap(p)
  <2> USE <1>1 DEF Goto, handler, maps, locals, cpu, Trap, AtBreakpoint
  <2>1. \A h \in Hooks : Owner(h)' <=> Owner(h)
    BY DEF Owner, Inserted, Erased, UseInv, TypeOK, Objects, WorkInv, PinnedInv
  <2>2. \A h \in Hooks : Owner(h)' => /\ obj'[h].target = obj[h].target
                                   /\ obj'[h].detour = obj[h].detour
    BY DEF Owner, Inserted, Erased, UseInv, TypeOK, Objects, WorkInv, PinnedInv,
       OwnersInv
  <2>3. OwnersInv'
    BY <2>1, <2>2 DEF OwnersInv, TypeOK, Objects, WorkInv
  <2>4. PinnedInv'
    BY DEF PinnedInv, UseInv, TypeOK, Objects, WorkInv, OwnersInv, Owner,
       Inserted, Erased
  <2>5. CallInv'
    BY DEF CallInv, TypeOK, AtBreakpoint, RaisedInv, PinnedInv
  <2>6. RestoreInv'
    BY DEF RestoreInv, TypeOK, CodeMatchesHooks, Patching, LockInv, Locked,
       WorkInv, WindowInv
  <2> QED
    BY <2>1, <2>2, <2>3, <2>4, <2>5, <2>6
<1>2. CASE Dispatch(p)
  <2> USE <1>2 DEF Goto, handler, maps, locals, cpu, Dispatch
  <2>1. \A h \in Hooks : Owner(h)' <=> Owner(h)
    BY DEF Owner, Inserted, Erased, UseInv, TypeOK, Objects, WorkInv, PinnedInv
  <2>2. \A h \in Hooks : Owner(h)' => /\ obj'[h].target = obj[h].target
                                   /\ obj'[h].detour = obj[h].detour
    BY DEF Owner, Inserted, Erased, UseInv, TypeOK, Objects, WorkInv, PinnedInv,
       OwnersInv
  <2>3. OwnersInv'
    BY <2>1, <2>2 DEF OwnersInv, TypeOK, Objects, WorkInv
  <2>4. PinnedInv'
    BY DEF PinnedInv, UseInv, TypeOK, Objects, WorkInv, OwnersInv, Owner,
       Inserted, Erased
  <2>5. CallInv'
    BY DEF CallInv, TypeOK, AtBreakpoint, RaisedInv, PinnedInv
  <2>6. RestoreInv'
    BY DEF RestoreInv, TypeOK, CodeMatchesHooks, Patching, LockInv, Locked,
       WorkInv, WindowInv
  <2> QED
    BY <2>1, <2>2, <2>3, <2>4, <2>5, <2>6
<1>3. CASE HandlerLock(p)
  <2> USE <1>3 DEF Goto, handler, maps, locals, cpu, HandlerLock, Acquire
  <2>1. \A h \in Hooks : Owner(h)' <=> Owner(h)
    BY DEF Owner, Inserted, Erased, UseInv, TypeOK, Objects, WorkInv, PinnedInv
  <2>2. \A h \in Hooks : Owner(h)' => /\ obj'[h].target = obj[h].target
                                   /\ obj'[h].detour = obj[h].detour
    BY DEF Owner, Inserted, Erased, UseInv, TypeOK, Objects, WorkInv, PinnedInv,
       OwnersInv
  <2>3. OwnersInv'
    BY <2>1, <2>2 DEF OwnersInv, TypeOK, Objects, WorkInv
  <2>4. PinnedInv'
    BY DEF PinnedInv, UseInv, TypeOK, Objects, WorkInv, OwnersInv, Owner,
       Inserted, Erased
  <2>5. CallInv'
    BY DEF CallInv, TypeOK, AtBreakpoint, RaisedInv, PinnedInv
  <2>6. RestoreInv'
    BY DEF RestoreInv, TypeOK, CodeMatchesHooks, Patching, LockInv, Locked,
       WorkInv, WindowInv
  <2> QED
    BY <2>1, <2>2, <2>3, <2>4, <2>5, <2>6
<1>4. CASE HandlerRedirect(p)
  <2> USE <1>4 DEF Goto, handler, maps, locals, cpu, HandlerRedirect, Release
  <2>1. \A h \in Hooks : Owner(h)' <=> Owner(h)
    BY DEF Owner, Inserted, Erased, UseInv, TypeOK, Objects, WorkInv, PinnedInv
  <2>2. \A h \in Hooks : Owner(h)' => /\ obj'[h].target = obj[h].target
                                   /\ obj'[h].detour = obj[h].detour
    BY DEF Owner, Inserted, Erased, UseInv, TypeOK, Objects, WorkInv, PinnedInv,
       OwnersInv
  <2>3. OwnersInv'
    BY <2>1, <2>2 DEF OwnersInv, TypeOK, Objects, WorkInv
  <2>4. PinnedInv'
    BY DEF PinnedInv, UseInv, TypeOK, Objects, WorkInv, OwnersInv, Owner,
       Inserted, Erased
  <2>5. CallInv'
    BY DEF CallInv, TypeOK, AtBreakpoint, RaisedInv, PinnedInv
  <2>6. RestoreInv'
    BY DEF RestoreInv, TypeOK, CodeMatchesHooks, Patching, LockInv, Locked,
       WorkInv, WindowInv
  <2> QED
    BY <2>1, <2>2, <2>3, <2>4, <2>5, <2>6
<1>5. CASE Execute(p)
  <2> USE <1>5 DEF Goto, handler, maps, locals, cpu, Execute, AtBreakpoint
  <2>1. \A h \in Hooks : Owner(h)' <=> Owner(h)
    BY DEF Owner, Inserted, Erased, UseInv, TypeOK, Objects, WorkInv, PinnedInv
  <2>2. \A h \in Hooks : Owner(h)' => /\ obj'[h].target = obj[h].target
                                   /\ obj'[h].detour = obj[h].detour
    BY DEF Owner, Inserted, Erased, UseInv, TypeOK, Objects, WorkInv, PinnedInv,
       OwnersInv
  <2>3. OwnersInv'
    BY <2>1, <2>2 DEF OwnersInv, TypeOK, Objects, WorkInv
  <2>4. PinnedInv'
    BY DEF PinnedInv, UseInv, TypeOK, Objects, WorkInv, OwnersInv, Owner,
       Inserted, Erased
  <2>5. CallInv'
    BY ZenonT(60), PinnedTraps DEF CallInv, TypeOK, AtBreakpoint, RaisedInv,
       PinnedInv
  <2>6. RestoreInv'
    BY DEF RestoreInv, TypeOK, CodeMatchesHooks, Patching, LockInv, Locked,
       WorkInv, WindowInv
  <2> QED
    BY <2>1, <2>2, <2>3, <2>4, <2>5, <2>6
<1>6. CASE SingleStep(p)
  <2> USE <1>6 DEF Goto, handler, maps, locals, cpu, SingleStep
  <2>1. \A h \in Hooks : Owner(h)' <=> Owner(h)
    BY DEF Owner, Inserted, Erased, UseInv, TypeOK, Objects, WorkInv, PinnedInv
  <2>2. \A h \in Hooks : Owner(h)' => /\ obj'[h].target = obj[h].target
                                   /\ obj'[h].detour = obj[h].detour
    BY DEF Owner, Inserted, Erased, UseInv, TypeOK, Objects, WorkInv, PinnedInv,
       OwnersInv
  <2>3. OwnersInv'
    BY <2>1, <2>2 DEF OwnersInv, TypeOK, Objects, WorkInv
  <2>4. PinnedInv'
    BY DEF PinnedInv, UseInv, TypeOK, Objects, WorkInv, OwnersInv, Owner,
       Inserted, Erased
  <2>5. CallInv'
    BY DEF CallInv, TypeOK, AtBreakpoint, RaisedInv, PinnedInv
  <2>6. RestoreInv'
    BY DEF RestoreInv, TypeOK, CodeMatchesHooks, Patching, LockInv, Locked,
       WorkInv, WindowInv
  <2> QED
    BY <2>1, <2>2, <2>3, <2>4, <2>5, <2>6
<1>7. CASE CallReturns(p)
  <2> USE <1>7 DEF Goto, handler, maps, locals, cpu, CallReturns
  <2>1. \A h \in Hooks : Owner(h)' <=> Owner(h)
    BY DEF Owner, Inserted, Erased, UseInv, TypeOK, Objects, WorkInv, PinnedInv
  <2>2. \A h \in Hooks : Owner(h)' => /\ obj'[h].target = obj[h].target
                                   /\ obj'[h].detour = obj[h].detour
    BY DEF Owner, Inserted, Erased, UseInv, TypeOK, Objects, WorkInv, PinnedInv,
       OwnersInv
  <2>3. OwnersInv'
    BY <2>1, <2>2 DEF OwnersInv, TypeOK, Objects, WorkInv
  <2>4. PinnedInv'
    BY DEF PinnedInv, UseInv, TypeOK, Objects, WorkInv, OwnersInv, Owner,
       Inserted, Erased
  <2>5. CallInv'
    BY DEF CallInv, TypeOK, AtBreakpoint, RaisedInv, PinnedInv
  <2>6. RestoreInv'
    BY DEF RestoreInv, TypeOK, CodeMatchesHooks, Patching, LockInv, Locked,
       WorkInv, WindowInv
  <2> QED
    BY <2>1, <2>2, <2>3, <2>4, <2>5, <2>6
<1> QED
  BY <1>1, <1>2, <1>3, <1>4, <1>5, <1>6, <1>7 DEF CallStep

(* So does the beginning of a call, of an Enable or of a Disable.          *)
LEMMA BeginPinned ==
  ASSUME PinHook # NULL, PInv, NEW p \in Threads, Begin(p)
  PROVE  OwnersInv' /\ PinnedInv' /\ CallInv' /\ RestoreInv'
<1> USE ConstantsAssumption DEF PInv, OInv, IInv, EnableLabels, DisableLabels,
      CallLabels
<1>1. ASSUME NEW t \in Targets, Call(p, t)
      PROVE  OwnersInv' /\ PinnedInv' /\ CallInv' /\ RestoreInv'
  <2> USE <1>1 DEF Goto, handler, maps, locals, cpu, Call
  <2>1. \A g \in Hooks : Owner(g)' <=> Owner(g)
    BY DEF Owner, Inserted, Erased, UseInv, TypeOK, Objects, WorkInv, PinnedInv
  <2>2. \A g \in Hooks : Owner(g)' => /\ obj'[g].target = obj[g].target
                                   /\ obj'[g].detour = obj[g].detour
    BY DEF Owner, Inserted, Erased, UseInv, TypeOK, Objects, WorkInv, PinnedInv,
       OwnersInv
  <2>3. OwnersInv'
    BY <2>1, <2>2 DEF OwnersInv, TypeOK, Objects, WorkInv
  <2>4. PinnedInv'
    BY DEF PinnedInv, UseInv, TypeOK, Objects, WorkInv, OwnersInv, Owner,
       Inserted, Erased
  <2>5. CallInv'
    BY DEF CallInv, TypeOK, AtBreakpoint, CodeMatchesHooks, Patching, PinnedInv,
       LockInv, RaisedInv, WindowInv, WorkInv
  <2>6. RestoreInv'
    BY DEF RestoreInv, TypeOK, CodeMatchesHooks, Patching, LockInv, Locked,
       WorkInv, WindowInv
  <2> QED
    BY <2>3, <2>4, <2>5, <2>6
<1>2. ASSUME NEW h \in Hooks, Disable(p, h)
      PROVE  OwnersInv' /\ PinnedInv' /\ CallInv' /\ RestoreInv'
  <2> USE <1>2 DEF Goto, handler, maps, locals, cpu, Disable, InUse
  <2>1. \A g \in Hooks : Owner(g)' <=> Owner(g)
    BY DEF Owner, Inserted, Erased, UseInv, TypeOK, Objects, WorkInv, PinnedInv
  <2>2. \A g \in Hooks : Owner(g)' => /\ obj'[g].target = obj[g].target
                                   /\ obj'[g].detour = obj[g].detour
    BY DEF Owner, Inserted, Erased, UseInv, TypeOK, Objects, WorkInv, PinnedInv,
       OwnersInv
  <2>3. OwnersInv'
    BY <2>1, <2>2 DEF OwnersInv, TypeOK, Objects, WorkInv
  <2>4. PinnedInv'
    BY DEF PinnedInv, UseInv, TypeOK, Objects, WorkInv, OwnersInv, Owner,
       Inserted, Erased
  <2>5. CallInv'
    BY DEF CallInv, TypeOK, AtBreakpoint, CodeMatchesHooks, Patching, PinnedInv,
       LockInv, RaisedInv, WindowInv, WorkInv
  <2>6. RestoreInv'
    BY DEF RestoreInv, TypeOK, CodeMatchesHooks, Patching, LockInv, Locked,
       WorkInv, WindowInv
  <2> QED
    BY <2>3, <2>4, <2>5, <2>6
<1>3. ASSUME NEW h \in Hooks, NEW t \in Targets, NEW d \in Detours, Enable(p, h, t, d)
      PROVE  OwnersInv' /\ PinnedInv' /\ CallInv' /\ RestoreInv'
  <2> USE <1>3 DEF Goto, handler, maps, locals, cpu, Enable, InUse
  <2>1. \A g \in Hooks : Owner(g)' <=> Owner(g)
    BY DEF Owner, Inserted, Erased, UseInv, TypeOK, Objects, WorkInv, PinnedInv
  <2>2. \A g \in Hooks : Owner(g)' => /\ obj'[g].target = obj[g].target
                                   /\ obj'[g].detour = obj[g].detour
    BY DEF Owner, Inserted, Erased, UseInv, TypeOK, Objects, WorkInv, PinnedInv,
       OwnersInv
  <2>3. OwnersInv'
    BY <2>1, <2>2 DEF OwnersInv, TypeOK, Objects, WorkInv
  <2>4. PinnedInv'
    BY DEF PinnedInv, UseInv, TypeOK, Objects, WorkInv, OwnersInv, Owner,
       Inserted, Erased
  <2>5. CallInv'
    BY DEF CallInv, TypeOK, AtBreakpoint, CodeMatchesHooks, Patching, PinnedInv,
       LockInv, RaisedInv, WindowInv, WorkInv
  <2>6. RestoreInv'
    BY DEF RestoreInv, TypeOK, CodeMatchesHooks, Patching, LockInv, Locked,
       WorkInv, WindowInv
  <2> QED
    BY <2>3, <2>4, <2>5, <2>6
<1> QED
  BY <1>1, <1>2, <1>3 DEF Begin

(* Every step preserves the invariant of a hook enabled throughout.        *)
LEMMA NextPInv == PinHook # NULL /\ PInv /\ [Next]_vars => PInv'
<1> SUFFICES ASSUME PinHook # NULL, PInv, [Next]_vars PROVE PInv'
  OBVIOUS
<1> DEFINE Rest == OwnersInv /\ PinnedInv /\ CallInv /\ RestoreInv
<1>1. OInv'
  BY NextOInv DEF PInv
<1>2. ASSUME NEW p \in Threads, Step(p) PROVE Rest'
  BY <1>2, EnableStepPinned, DisableStepPinned, CallStepPinned DEF Step
<1>3. ASSUME NEW p \in Threads, Begin(p) PROVE Rest'
  BY <1>3, BeginPinned
<1>4. ASSUME UNCHANGED vars PROVE Rest'
  BY <1>4 DEF vars, maps, handler, cpu, locals, PInv, OwnersInv, PinnedInv,
              CallInv, RestoreInv, Owner
<1>5. Rest'
  BY <1>2, <1>3, <1>4 DEF Next
<1> QED
  BY <1>1, <1>5 DEF PInv

(* Every state reached while a hook is enabled throughout satisfies it.    *)
LEMMA PinnedSafe == PinHook # NULL => (Spec => []PInv)
<1>1. PinHook # NULL => [](PinHook # NULL)
  OBVIOUS
<1> QED
  BY InitPInv, NextPInv, <1>1, PTL DEF Spec

(* An enabled hook that nobody works on is in force while any number of    *)
(* threads enable and disable other hooks.                                 *)
THEOREM Interception == PinHook # NULL => (Spec => []HookIntercepts)
<1>1. ASSUME PInv PROVE HookIntercepts
  <2> USE <1>1, ConstantsAssumption DEF PInv, OInv, IInv
  <2> SUFFICES ASSUME NEW h \in Hooks, obj[h].enabled, ~InUse(h)
               PROVE  /\ activeHooks[obj[h].target] = obj[h].detour
                      /\ code[obj[h].target] = Int3
                      /\ handlers # {}
    BY DEF HookIntercepts
  <2> DEFINE t == obj[h].target
  <2>1. Owner(h) /\ t \in Targets /\ obj[h].detour \in Detours
    BY DEF Owner, InUse, WorkInv
  <2>2. activeHooks[t] = obj[h].detour
    BY <2>1 DEF OwnersInv
  <2>3. ASSUME Patching(t) PROVE FALSE
    <3>1. PICK p \in Threads : /\ pc[p] \in {"enable_patch", "disable_patch"}
                               /\ obj[cur[p]].target = t
      BY <2>3 DEF Patching
    <3>2. cur[p] \in Hooks /\ cur[p] # h
      BY <3>1 DEF WorkInv, EnableLabels, DisableLabels, InUse
    <3>3. CASE pc[p] = "enable_patch"
      BY <2>1, <3>1, <3>2, <3>3 DEF Owner, Inserted, OwnersInv
    <3>4. CASE pc[p] = "disable_patch"
      BY <2>1, <2>2, <3>1, <3>4 DEF WindowInv
    <3> QED
      BY <3>1, <3>3, <3>4
  <2> QED
    BY <2>1, <2>2, <2>3 DEF CodeMatchesHooks, PinnedInv
<1> QED
  BY PinnedSafe, <1>1, PTL

(* No call of any target meets an exception that nobody handles, as long   *)
(* as one hook stays enabled.                                              *)
THEOREM Handled == PinHook # NULL => (Spec => []NoUnhandled)
<1>1. PInv => NoUnhandled
  BY DEF PInv, PinnedInv, NoUnhandled, Alive
<1> QED
  BY PinnedSafe, <1>1, PTL

(* Every call of a target that stays hooked goes to its detour.            *)
THEOREM Detoured == Spec => []CallsReachDetour
<1>1. CASE PinHook # NULL
  <2>1. PInv => CallsReachDetour
    <3> SUFFICES ASSUME PInv, NEW p \in Threads, callee[p] = PinTarget
                 PROVE  /\ ip[p] \in {PinTarget, PinDetour}
                        /\ ip[p] = PinTarget =>
                             pc[p] \notin {"step_raised", "body"} /\ code[PinTarget] = Int3
      BY DEF CallsReachDetour
    <3> QED
      BY <1>1, PinnedTraps, ConstantsAssumption DEF PInv, CallInv
  <2> QED
    BY <1>1, PinnedSafe, <2>1, PTL
<1>2. CASE PinHook = NULL
  <2>1. CallsReachDetour
    BY <1>2 DEF CallsReachDetour
  <2> QED
    BY <2>1, PTL
<1> QED
  BY <1>1, <1>2

-----------------------------------------------------------------------------
(* The refinement of HookContract.  A function as compiled does not begin  *)
(* with INT 3.                                                             *)
NoInt3 == \A t \in Targets : OrigByte[t] # Int3

SameHooks == \A t \in Targets : hookOf(t)' = hookOf(t)

SameCalls ==
  \A q \in Threads : callee'[q] = callee[q] /\ ranBy(q)' = ranBy(q)

(* Only between the erasure and the restoration does a target trap that has*)
(* no entry, and the thread in between holds the lock.                     *)
LEMMA WindowHeld ==
  ASSUME NoInt3, PInv, NEW t \in Targets, code[t] = Int3, activeHooks[t] = NULL
  PROVE  \E q \in Threads : /\ pc[q] = "disable_patch" /\ mutex = q
                            /\ cur[q] \in Hooks /\ obj[cur[q]].target = t
<1> USE DEF PInv, OInv, IInv
<1>1. Patching(t)
  BY DEF NoInt3, CodeMatchesHooks
<1>2. PICK q \in Threads : /\ pc[q] \in {"enable_patch", "disable_patch"}
                           /\ obj[cur[q]].target = t
  BY <1>1 DEF Patching
<1>3. pc[q] = "disable_patch"
  BY <1>2 DEF WindowInv
<1>4. mutex = q /\ cur[q] \in Hooks
  BY <1>3 DEF LockInv, Locked, WorkInv, DisableLabels
<1> QED
  BY <1>2, <1>3, <1>4

(* A step that leaves hooks and calls alone is a stuttering step.          *)
LEMMA Stutter == SameHooks /\ SameCalls => UNCHANGED Contract!vars
  BY DEF SameHooks, SameCalls, Contract!vars

(* Enable implements the contract: it hooks where it writes INT 3.         *)
LEMMA EnableStepSimulates ==
  ASSUME PinHook # NULL, NoInt3, PInv, NEW p \in Threads, EnableStep(p)
  PROVE  [Contract!Next]_(Contract!vars)
<1> USE ConstantsAssumption DEF PInv, OInv, IInv, EnableLabels, DisableLabels,
      CallLabels
<1>1. CASE EnableLock(p)
  <2> USE <1>1 DEF Goto, handler, maps, locals, cpu, EnableLock, Acquire
  <2>1. SameHooks
    BY WindowHeld DEF SameHooks, hookOf, TypeOK, Objects, WorkInv, LockInv,
       Locked, UseInv
  <2>2. SameCalls
    BY DEF SameCalls, ranBy, TypeOK, CallInv, PinnedInv
  <2> QED
    BY <2>1, <2>2, Stutter
<1>2. CASE EnableRefused(p)
  <2> USE <1>2 DEF Goto, handler, maps, locals, cpu, EnableRefused, Return,
        Release
  <2>1. SameHooks
    BY WindowHeld DEF SameHooks, hookOf, TypeOK, Objects, WorkInv, LockInv,
       Locked, UseInv
  <2>2. SameCalls
    BY DEF SameCalls, ranBy, TypeOK, CallInv, PinnedInv
  <2> QED
    BY <2>1, <2>2, Stutter
<1>3. CASE EnableInsert(p)
  <2> USE <1>3 DEF Goto, handler, maps, locals, cpu, EnableInsert
  <2> DEFINE t == obj[cur[p]].target
  <2>1. cur[p] \in Hooks /\ t \in Targets /\ mutex = p /\ code[t] # Int3
    BY WindowHeld DEF WorkInv, LockInv, Locked
  <2>2. SameHooks
    BY <2>1 DEF SameHooks, hookOf, TypeOK
  <2>3. SameCalls
    BY DEF SameCalls, ranBy, TypeOK, CallInv, PinnedInv
  <2> QED
    BY <2>2, <2>3, Stutter
<1>4. CASE EnablePatch(p)
  <2> USE <1>4 DEF Goto, handler, maps, locals, cpu, EnablePatch, Release
  <2> DEFINE t == obj[cur[p]].target
             d == activeHooks[t]
  <2>1. cur[p] \in Hooks /\ t \in Targets /\ mutex = p /\ d \in Detours
    BY DEF WorkInv, LockInv, Locked, WindowInv, TypeOK
  <2>2. hookOf(t) = NULL /\ hookOf(t)' = d
    BY <2>1 DEF hookOf, WindowInv, NoInt3, TypeOK
  <2>3. \A u \in Targets : u # t => hookOf(u)' = hookOf(u)
    BY <2>1, WindowHeld DEF hookOf, TypeOK
  <2>4. SameCalls
    BY DEF SameCalls, ranBy, TypeOK, CallInv, PinnedInv
  <2>5. Contract!Enable(t, d)
    BY <2>1, <2>2, <2>3, <2>4 DEF Contract!Enable, SameCalls
  <2> QED
    BY <2>1, <2>5 DEF Contract!Next
<1>5. CASE EnableInstalled(p)
  <2> USE <1>5 DEF Goto, handler, maps, locals, cpu, EnableInstalled,
        EnableReturn, Return
  <2>1. SameHooks
    BY WindowHeld DEF SameHooks, hookOf, TypeOK, Objects, WorkInv, LockInv,
       Locked, UseInv
  <2>2. SameCalls
    BY DEF SameCalls, ranBy, TypeOK, CallInv, PinnedInv
  <2> QED
    BY <2>1, <2>2, Stutter
<1>6. CASE EnableNotInstalled(p)
  <2> USE <1>6 DEF Goto, handler, maps, locals, cpu, EnableNotInstalled
  <2>1. SameHooks
    BY WindowHeld DEF SameHooks, hookOf, TypeOK, Objects, WorkInv, LockInv,
       Locked, UseInv
  <2>2. SameCalls
    BY DEF SameCalls, ranBy, TypeOK, CallInv, PinnedInv
  <2> QED
    BY <2>1, <2>2, Stutter
<1>7. CASE EnableAdd(p)
  <2> USE <1>7 DEF Goto, handler, maps, locals, cpu, EnableAdd
  <2>1. SameHooks
    BY WindowHeld DEF SameHooks, hookOf, TypeOK, Objects, WorkInv, LockInv,
       Locked, UseInv
  <2>2. SameCalls
    BY DEF SameCalls, ranBy, TypeOK, CallInv, PinnedInv
  <2> QED
    BY <2>1, <2>2, Stutter
<1>8. CASE EnableFlag(p)
  <2> USE <1>8 DEF Goto, handler, maps, locals, cpu, EnableFlag, EnableReturn,
        Return
  <2>1. SameHooks
    BY WindowHeld DEF SameHooks, hookOf, TypeOK, Objects, WorkInv, LockInv,
       Locked, UseInv
  <2>2. SameCalls
    BY DEF SameCalls, ranBy, TypeOK, CallInv, PinnedInv
  <2> QED
    BY <2>1, <2>2, Stutter
<1> QED
  BY <1>1, <1>2, <1>3, <1>4, <1>5, <1>6, <1>7, <1>8 DEF EnableStep

(* Disable unhooks where it restores the byte.                             *)
LEMMA DisableStepSimulates ==
  ASSUME PinHook # NULL, NoInt3, PInv, NEW p \in Threads, DisableStep(p)
  PROVE  [Contract!Next]_(Contract!vars)
<1> USE ConstantsAssumption DEF PInv, OInv, IInv, EnableLabels, DisableLabels,
      CallLabels
<1>1. CASE DisableLock(p)
  <2> USE <1>1 DEF Goto, handler, maps, locals, cpu, DisableLock, Acquire
  <2>1. SameHooks
    BY WindowHeld DEF SameHooks, hookOf, TypeOK, Objects, WorkInv, LockInv,
       Locked, UseInv
  <2>2. SameCalls
    BY DEF SameCalls, ranBy, TypeOK, CallInv, PinnedInv
  <2> QED
    BY <2>1, <2>2, Stutter
<1>2. CASE DisableRefused(p)
  <2> USE <1>2 DEF Goto, handler, maps, locals, cpu, DisableRefused, Return,
        Release
  <2>1. SameHooks
    BY WindowHeld DEF SameHooks, hookOf, TypeOK, Objects, WorkInv, LockInv,
       Locked, UseInv
  <2>2. SameCalls
    BY DEF SameCalls, ranBy, TypeOK, CallInv, PinnedInv
  <2> QED
    BY <2>1, <2>2, Stutter
<1>3. CASE DisableErase(p)
  <2> USE <1>3 DEF Goto, handler, maps, locals, cpu, DisableErase
  <2> DEFINE t == obj[cur[p]].target
             h == cur[p]
  <2>1. cur[p] \in Hooks /\ t \in Targets /\ mutex = p
    BY DEF WorkInv, LockInv, Locked
  <2>2. Owner(h) /\ obj[h].detour \in Detours
    BY <2>1 DEF Owner, Erased, UseInv, WorkInv
  <2>3. activeHooks[t] = obj[h].detour
    BY <2>1, <2>2 DEF OwnersInv
  <2>4. code[t] = Int3
    BY <2>1 DEF CodeMatchesHooks, Patching, LockInv, Locked
  <2>5. hookOf(t)' = hookOf(t)
    BY <2>1, <2>3, <2>4 DEF hookOf, TypeOK
  <2>6. SameHooks
    BY <2>1, <2>5, WindowHeld DEF SameHooks, hookOf, TypeOK
  <2>7. SameCalls
    BY DEF SameCalls, ranBy, TypeOK, CallInv, PinnedInv
  <2> QED
    BY <2>6, <2>7, Stutter
<1>4. CASE DisablePatch(p)
  <2> USE <1>4 DEF Goto, handler, maps, locals, cpu, DisablePatch, Release
  <2> DEFINE t == obj[cur[p]].target
  <2>1. cur[p] \in Hooks /\ t \in Targets /\ mutex = p
    BY DEF WorkInv, LockInv, Locked
  <2>2. hookOf(t) # NULL /\ hookOf(t)' = NULL
    BY <2>1 DEF hookOf, WindowInv, RestoreInv, NoInt3, TypeOK, WorkInv
  <2>3. \A u \in Targets : u # t => hookOf(u)' = hookOf(u)
    BY <2>1, WindowHeld DEF hookOf, TypeOK
  <2>4. SameCalls
    BY DEF SameCalls, ranBy, TypeOK, CallInv, PinnedInv
  <2>5. Contract!Disable(t)
    BY <2>1, <2>2, <2>3, <2>4 DEF Contract!Disable, SameCalls
  <2> QED
    BY <2>1, <2>5 DEF Contract!Next
<1>5. CASE DisableRemove(p)
  <2> USE <1>5 DEF Goto, handler, maps, locals, cpu, DisableRemove
  <2>1. SameHooks
    BY WindowHeld DEF SameHooks, hookOf, TypeOK, Objects, WorkInv, LockInv,
       Locked, UseInv
  <2>2. SameCalls
    BY DEF SameCalls, ranBy, TypeOK, CallInv, PinnedInv
  <2> QED
    BY <2>1, <2>2, Stutter
<1>6. CASE DisableRemoveFails(p)
  <2> USE <1>6 DEF Goto, handler, maps, locals, cpu, DisableRemoveFails, Return
  <2>1. SameHooks
    BY WindowHeld DEF SameHooks, hookOf, TypeOK, Objects, WorkInv, LockInv,
       Locked, UseInv
  <2>2. SameCalls
    BY DEF SameCalls, ranBy, TypeOK, CallInv, PinnedInv
  <2> QED
    BY <2>1, <2>2, Stutter
<1>7. CASE DisableClear(p)
  <2> USE <1>7 DEF Goto, handler, maps, locals, cpu, DisableClear
  <2>1. SameHooks
    BY WindowHeld DEF SameHooks, hookOf, TypeOK, Objects, WorkInv, LockInv,
       Locked, UseInv
  <2>2. SameCalls
    BY DEF SameCalls, ranBy, TypeOK, CallInv, PinnedInv
  <2> QED
    BY <2>1, <2>2, Stutter
<1>8. CASE DisableReturn(p)
  <2> USE <1>8 DEF Goto, handler, maps, locals, cpu, DisableReturn, Return,
        NoHook
  <2>1. SameHooks
    BY WindowHeld DEF SameHooks, hookOf, TypeOK, Objects, WorkInv, LockInv,
       Locked, UseInv
  <2>2. SameCalls
    BY DEF SameCalls, ranBy, TypeOK, CallInv, PinnedInv
  <2> QED
    BY <2>1, <2>2, Stutter
<1> QED
  BY <1>1, <1>2, <1>3, <1>4, <1>5, <1>6, <1>7, <1>8 DEF DisableStep

(* A call is decided by the handler or by its first own instruction.       *)
LEMMA CallStepSimulates ==
  ASSUME PinHook # NULL, NoInt3, PInv, NEW p \in Threads, CallStep(p)
  PROVE  [Contract!Next]_(Contract!vars)
<1> USE ConstantsAssumption DEF PInv, OInv, IInv, EnableLabels, DisableLabels,
      CallLabels
<1>1. CASE Trap(p)
  <2> USE <1>1 DEF Goto, handler, maps, locals, cpu, Trap, AtBreakpoint
  <2>1. SameHooks
    BY WindowHeld DEF SameHooks, hookOf, TypeOK, Objects, WorkInv, LockInv,
       Locked, UseInv
  <2>2. SameCalls
    BY DEF SameCalls, ranBy, TypeOK, CallInv, PinnedInv
  <2> QED
    BY <2>1, <2>2, Stutter
<1>2. CASE Dispatch(p)
  <2> USE <1>2 DEF Goto, handler, maps, locals, cpu, Dispatch
  <2>1. SameHooks
    BY WindowHeld DEF SameHooks, hookOf, TypeOK, Objects, WorkInv, LockInv,
       Locked, UseInv
  <2>2. SameCalls
    BY DEF SameCalls, ranBy, TypeOK, CallInv, PinnedInv
  <2> QED
    BY <2>1, <2>2, Stutter
<1>3. CASE HandlerLock(p)
  <2> USE <1>3 DEF Goto, handler, maps, locals, cpu, HandlerLock, Acquire
  <2>1. SameHooks
    BY WindowHeld DEF SameHooks, hookOf, TypeOK, Objects, WorkInv, LockInv,
       Locked, UseInv
  <2>2. SameCalls
    BY DEF SameCalls, ranBy, TypeOK, CallInv, PinnedInv
  <2> QED
    BY <2>1, <2>2, Stutter
<1>4. CASE HandlerRedirect(p)
  <2> USE <1>4 DEF Goto, handler, maps, locals, cpu, HandlerRedirect, Release
  <2> DEFINE t == ip[p]
  <2>1. t \in Targets /\ callee[p] = t /\ mutex = p
    BY DEF RaisedInv, CallInv, LockInv, Locked
  <2>2. SameHooks
    BY <2>1, WindowHeld DEF SameHooks, hookOf, TypeOK
  <2>3. ranBy(p) = NULL /\ \A q \in Threads : callee'[q] = callee[q]
    BY <2>1 DEF ranBy
  <2>4. \A q \in Threads : q # p => ranBy(q)' = ranBy(q)
    BY DEF ranBy, TypeOK
  <2>5. CASE activeHooks[t] = NULL
    <3>1. SameCalls
      BY <2>1, <2>3, <2>4, <2>5 DEF SameCalls, ranBy, TypeOK
    <3> QED
      BY <2>2, <3>1, Stutter
  <2>6. CASE activeHooks[t] # NULL
    <3>1. code[t] = Int3
      BY <2>1, <2>6 DEF CodeMatchesHooks, Patching, LockInv, Locked
    <3>2. hookOf(t) = activeHooks[t] /\ ranBy(p)' = activeHooks[t]
      BY <2>1, <2>6, <3>1 DEF hookOf, ranBy, TypeOK
    <3>3. Contract!Run(p)
      BY <2>1, <2>2, <2>3, <2>4, <2>6, <3>2 DEF Contract!Run, SameHooks
    <3> QED
      BY <3>3 DEF Contract!Next
  <2> QED
    BY <2>5, <2>6
<1>5. CASE Execute(p)
  <2> USE <1>5 DEF Goto, handler, maps, locals, cpu, Execute, AtBreakpoint
  <2>1. SameHooks
    BY DEF SameHooks, hookOf, TypeOK
  <2>2. \A q \in Threads : /\ callee'[q] = callee[q]
                           /\ q # p => ranBy(q)' = ranBy(q)
    BY DEF ranBy, TypeOK
  <2>3. CASE ip[p] \in Detours
    <3>1. SameCalls
      BY <2>2, <2>3 DEF SameCalls, ranBy, TypeOK
    <3> QED
      BY <2>1, <3>1, Stutter
  <2>4. CASE ip[p] \in Targets
    <3> DEFINE t == ip[p]
    <3>1. callee[p] = t /\ hookOf(t) = NULL
      BY <2>4 DEF CallInv, hookOf
    <3>2. ranBy(p) = NULL /\ ranBy(p)' = t
      BY <2>4 DEF ranBy, TypeOK
    <3>3. Contract!Run(p)
      BY ZenonT(60), <2>1, <2>2, <2>4, <3>1, <3>2 DEF Contract!Run, SameHooks
    <3> QED
      BY <3>3 DEF Contract!Next
  <2> QED
    BY <2>3, <2>4 DEF CallInv
<1>6. CASE SingleStep(p)
  <2> USE <1>6 DEF Goto, handler, maps, locals, cpu, SingleStep
  <2>1. SameHooks
    BY WindowHeld DEF SameHooks, hookOf, TypeOK, Objects, WorkInv, LockInv,
       Locked, UseInv
  <2>2. SameCalls
    BY DEF SameCalls, ranBy, TypeOK, CallInv, PinnedInv
  <2> QED
    BY <2>1, <2>2, Stutter
<1>7. CASE CallReturns(p)
  <2> USE <1>7 DEF Goto, handler, maps, locals, cpu, CallReturns
  <2>1. SameHooks
    BY DEF SameHooks, hookOf, TypeOK
  <2>2. ranBy(p) # NULL /\ ranBy(p)' = NULL /\ callee'[p] = NULL
    BY DEF ranBy, TypeOK, CallInv
  <2>3. \A q \in Threads : q # p => callee'[q] = callee[q] /\ ranBy(q)' = ranBy(q)
    BY DEF ranBy, TypeOK
  <2>4. Contract!Return(p)
    BY <2>1, <2>2, <2>3 DEF Contract!Return, Contract!NoCall, SameHooks
  <2> QED
    BY <2>4 DEF Contract!Next
<1> QED
  BY <1>1, <1>2, <1>3, <1>4, <1>5, <1>6, <1>7 DEF CallStep

(* The beginning of an Enable or of a Disable changes nothing in the       *)
(* contract, that of a call only the call.                                 *)
LEMMA BeginSimulates ==
  ASSUME PinHook # NULL, NoInt3, PInv, NEW p \in Threads, Begin(p)
  PROVE  [Contract!Next]_(Contract!vars)
<1> USE ConstantsAssumption DEF PInv, OInv, IInv, EnableLabels, DisableLabels,
      CallLabels
<1>1. ASSUME NEW t \in Targets, Call(p, t)
      PROVE  [Contract!Next]_(Contract!vars)
  <2> USE <1>1 DEF Goto, handler, maps, locals, cpu, Call
  <2>1. SameHooks
    BY DEF SameHooks, hookOf, TypeOK
  <2>2. callee[p] = NULL /\ ranBy(p) = NULL /\ ranBy(p)' = NULL /\ callee'[p] = t
    BY DEF ranBy, TypeOK, CallInv
  <2>3. \A q \in Threads : q # p => callee'[q] = callee[q] /\ ranBy(q)' = ranBy(q)
    BY DEF ranBy, TypeOK
  <2>4. Contract!Call(p, t)
    BY <2>1, <2>2, <2>3 DEF Contract!Call, Contract!NoCall, SameHooks
  <2> QED
    BY <2>4 DEF Contract!Next

<1>2. ASSUME NEW h \in Hooks, Disable(p, h)
      PROVE  [Contract!Next]_(Contract!vars)
  <2> USE <1>2 DEF Goto, handler, maps, locals, cpu, Disable, InUse
  <2>1. SameHooks
    BY WindowHeld DEF SameHooks, hookOf, TypeOK, Objects, WorkInv, LockInv,
       Locked, UseInv
  <2>2. SameCalls
    BY DEF SameCalls, ranBy, TypeOK, CallInv, PinnedInv
  <2> QED
    BY <2>1, <2>2, Stutter
<1>3. ASSUME NEW h \in Hooks, NEW t \in Targets, NEW d \in Detours, Enable(p, h, t, d)
      PROVE  [Contract!Next]_(Contract!vars)
  <2> USE <1>3 DEF Goto, handler, maps, locals, cpu, Enable, InUse
  <2>1. SameHooks
    BY WindowHeld DEF SameHooks, hookOf, TypeOK, Objects, WorkInv, LockInv,
       Locked, UseInv
  <2>2. SameCalls
    BY DEF SameCalls, ranBy, TypeOK, CallInv, PinnedInv
  <2> QED
    BY <2>1, <2>2, Stutter
<1> QED
  BY <1>1, <1>2, <1>3 DEF Begin

(* The initial states are initial states of the contract.                  *)
LEMMA InitSimulates == NoInt3 /\ Init => Contract!Init
<1> SUFFICES ASSUME NoInt3, Init PROVE Contract!Init
  OBVIOUS
<1> USE ConstantsAssumption
<1>1. \A t \in Targets : hookOf(t) \in Detours \cup {NULL}
  BY DEF Init, hookOf, NoInt3
<1>2. \A p \in Threads : callee[p] = NULL /\ ranBy(p) = NULL
  BY DEF Init, ranBy
<1> QED
  BY <1>1, <1>2 DEF Contract!Init, Contract!NoCall

(* For any number of threads, hooks and targets, every step is one of the  *)
(* contract or changes nothing a caller can see.                           *)
LEMMA NextSimulates ==
  PinHook # NULL /\ NoInt3 /\ PInv /\ [Next]_vars => [Contract!Next]_(Contract!vars)
<1> SUFFICES ASSUME PinHook # NULL, NoInt3, PInv, [Next]_vars
             PROVE  [Contract!Next]_(Contract!vars)
  OBVIOUS
<1>1. ASSUME NEW p \in Threads, Step(p) PROVE [Contract!Next]_(Contract!vars)
  BY <1>1, EnableStepSimulates, DisableStepSimulates, CallStepSimulates DEF Step
<1>2. ASSUME NEW p \in Threads, Begin(p) PROVE [Contract!Next]_(Contract!vars)
  BY <1>2, BeginSimulates
<1>3. ASSUME UNCHANGED vars PROVE SameHooks /\ SameCalls
  BY <1>3 DEF vars, maps, handler, cpu, locals, SameHooks, SameCalls, hookOf,
     ranBy
<1> QED
  BY <1>1, <1>2, <1>3, Stutter DEF Next

(* While one hook stays enabled, the threads see Enable, Disable and the   *)
(* decision of every call as single instants, in every interleaving.       *)
THEOREM Implementation ==
  PinHook # NULL /\ NoInt3 => (Spec => ImplementsContract)
<1>1. PinHook # NULL /\ NoInt3 => [](PinHook # NULL /\ NoInt3)
  BY DEF NoInt3
<1> QED
  BY PinnedSafe, InitSimulates, NextSimulates, <1>1, PTL
     DEF Spec, ImplementsContract, Contract!Spec

=============================================================================
