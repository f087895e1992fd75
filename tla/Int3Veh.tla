------------------------------ MODULE Int3Veh ------------------------------
(***************************************************************************)
(* The INT3 hook of src/src/int3veh.cpp, x64 internal build: a hook patches *)
(* the first byte of its target to INT 3 and a vectored exception handler   *)
(* moves the instruction pointer of the trapping thread to the detour.     *)
(*                                                                         *)
(* Admin threads run Enable and Disable one source statement group at a    *)
(* time; callers call targets, and their fetches, their exceptions and the *)
(* handler's locked section interleave with the admins' steps.  The std::mutex  *)
(* guards the two maps; the installed flag, the handle and the code bytes  *)
(* are read outside it, as in the source.                                  *)
(***************************************************************************)
EXTENDS Naturals, FiniteSets

CONSTANTS
  Admins,     \* the threads that call Enable and Disable
  Callers,    \* the threads that call targets
  Hooks,      \* Int3Veh objects
  Targets,    \* addresses of functions that may be hooked
  Detours,    \* addresses of detour functions, never hooked themselves
  Handles,    \* handles AddVectoredExceptionHandler can return
  OrigByte,   \* first byte of every target as compiled
  Int3,       \* the byte 0xCC
  NULL,
  PinHook, PinTarget, PinDetour, \* a hook enabled before the threads start and
                                 \* never disabled, or NULL
  MaxOps      \* bound on the number of Enable and Disable calls

Threads == Admins \cup Callers

ASSUME ConstantsAssumption ==
  /\ Targets \cap Detours = {}
  /\ NULL \notin Threads \cup Hooks \cup Targets \cup Detours \cup Handles
  /\ NULL \notin {OrigByte[t] : t \in Targets} /\ NULL # Int3
  /\ \/ PinHook = NULL
     \/ PinHook \in Hooks /\ PinTarget \in Targets /\ PinDetour \in Detours
  /\ PinHook # NULL => Handles # {}
  /\ MaxOps \in Nat

VARIABLES
  activeHooks,   \* g_active_veh_hooks: target -> detour, NULL when absent
  patchedBytes,  \* g_patched_bytes: target -> saved byte, NULL when absent
  hVeh,          \* g_hVeh
  installed,     \* g_veh_hook_installed
  mutex,         \* the thread that holds g_mutex, or NULL
  handlers,      \* handles registered with the system
  code,          \* first byte of every target, as a fetch sees it
  obj,           \* enabled_, target_ and detour_ of every object
  pc,            \* where every thread is
  cur,           \* the object a thread's Enable or Disable works on
  lastHook,      \* should_remove_veh, a local of Disable
  ip, tf,        \* instruction pointer and trap flag of a calling thread
  callee,        \* the target a thread called
  ops            \* Enable and Disable calls made so far

maps    == <<activeHooks, patchedBytes>>
handler == <<hVeh, installed, handlers>>
cpu     == <<ip, tf, callee>>
locals  == <<cur, lastHook>>
vars    == <<maps, handler, mutex, code, obj, pc, locals, cpu, ops>>

Objects == [enabled : BOOLEAN, target : Targets \cup {NULL},
            detour : Detours \cup {NULL}]

NoHook == [enabled |-> FALSE, target |-> NULL, detour |-> NULL]

Bytes == {Int3} \cup {OrigByte[t] : t \in Targets}

(* No object is enabled, except the pinned one: the state Enable leaves.   *)
Init ==
  LET pinned(t) == PinHook # NULL /\ t = PinTarget
      first     == IF PinHook = NULL THEN {} ELSE {CHOOSE h \in Handles : TRUE}
  IN  /\ activeHooks  = [t \in Targets |-> IF pinned(t) THEN PinDetour ELSE NULL]
      /\ patchedBytes = [t \in Targets |-> IF pinned(t) THEN OrigByte[t] ELSE NULL]
      /\ code = [t \in Targets |-> IF pinned(t) THEN Int3 ELSE OrigByte[t]]
      /\ obj  = [h \in Hooks |-> IF h = PinHook
                    THEN [enabled |-> TRUE, target |-> PinTarget, detour |-> PinDetour]
                    ELSE NoHook]
      /\ handlers  = first
      /\ hVeh      = IF PinHook = NULL THEN NULL ELSE CHOOSE h \in Handles : TRUE
      /\ installed = (PinHook # NULL)
      /\ mutex     = NULL
      /\ pc        = [p \in Threads |-> "idle"]
      /\ cur       = [p \in Threads |-> NULL]
      /\ lastHook  = [p \in Threads |-> FALSE]
      /\ ip        = [p \in Threads |-> NULL]
      /\ tf        = [p \in Threads |-> FALSE]
      /\ callee    = [p \in Threads |-> NULL]
      /\ ops       = 0

-----------------------------------------------------------------------------
(* The program counter of p moves from one label to another.               *)
Goto(p, from, to) ==
  /\ pc[p] = from
  /\ pc' = [pc EXCEPT ![p] = to]

(* A bug to compare with: the lock does not exclude.                       *)
AcquireAtOnce(p) == mutex' = p

Acquire(p) == mutex = NULL /\ mutex' = p
Release    == mutex' = NULL

(* p's call returns: its locals are dead.                                  *)
Return(p, from) ==
  /\ Goto(p, from, "idle")
  /\ cur' = [cur EXCEPT ![p] = NULL]
  /\ lastHook' = [lastHook EXCEPT ![p] = FALSE]

(* An object has one user at a time: nothing protects its fields.          *)
InUse(h) == \E p \in Threads : cur[p] = h

(* Enable(target, detour): the IsEnabled and IsExecutableAddress checks,   *)
(* which return false and change nothing, and the two private fields.      *)
Enable(p, h, t, d) ==
  /\ ops < MaxOps
  /\ ~InUse(h) /\ ~obj[h].enabled
  /\ Goto(p, "idle", "enable_lock")
  /\ obj' = [obj EXCEPT ![h] = [enabled |-> FALSE, target |-> t, detour |-> d]]
  /\ cur' = [cur EXCEPT ![p] = h]
  /\ ops' = ops + 1
  /\ UNCHANGED <<maps, handler, mutex, code, lastHook, cpu>>

EnableLock(p) ==
  /\ Goto(p, "enable_lock", "enable_find")
  /\ Acquire(p)
  /\ UNCHANGED <<maps, handler, code, obj, locals, cpu, ops>>

(* A bug to compare with: an early return that keeps the lock.             *)
EnableRefusedLocked(p) ==
  /\ Return(p, "enable_find")
  /\ activeHooks[obj[cur[p]].target] # NULL
  /\ UNCHANGED <<maps, handler, mutex, code, obj, cpu, ops>>

(* The target is hooked already: unlock and return false.                  *)
EnableRefused(p) ==
  /\ Return(p, "enable_find")
  /\ activeHooks[obj[cur[p]].target] # NULL
  /\ Release
  /\ UNCHANGED <<maps, handler, code, obj, cpu, ops>>

(* A bug to compare with: the map is not searched before the insertion.    *)
EnableInsertUnchecked(p) ==
  LET o == obj[cur[p]]
  IN  /\ Goto(p, "enable_find", "enable_patch")
      /\ activeHooks' = [activeHooks EXCEPT ![o.target] = o.detour]
      /\ UNCHANGED <<patchedBytes, handler, mutex, code, obj, locals, cpu, ops>>

EnableInsert(p) ==
  LET o == obj[cur[p]]
  IN  /\ Goto(p, "enable_find", "enable_patch")
      /\ activeHooks[o.target] = NULL
      /\ activeHooks' = [activeHooks EXCEPT ![o.target] = o.detour]
      /\ UNCHANGED <<patchedBytes, handler, mutex, code, obj, locals, cpu, ops>>

(* A bug to compare with: the byte is overwritten but not saved.           *)
EnablePatchUnsaved(p) ==
  /\ Goto(p, "enable_patch", "enable_check")
  /\ code' = [code EXCEPT ![obj[cur[p]].target] = Int3]
  /\ Release
  /\ UNCHANGED <<maps, handler, obj, locals, cpu, ops>>

(* Save the byte (insert keeps an entry that exists: Disable never erases  *)
(* one), write INT 3, unlock.                                              *)
EnablePatch(p) ==
  LET t == obj[cur[p]].target
  IN  /\ Goto(p, "enable_patch", "enable_check")
      /\ patchedBytes' = IF patchedBytes[t] # NULL THEN patchedBytes
                         ELSE [patchedBytes EXCEPT ![t] = code[t]]
      /\ code' = [code EXCEPT ![t] = Int3]
      /\ Release
      /\ UNCHANGED <<activeHooks, handler, obj, locals, cpu, ops>>

(* enabled_ = true; return true.                                           *)
EnableReturn(p, from) ==
  /\ Return(p, from)
  /\ obj' = [obj EXCEPT ![cur[p]] = [@ EXCEPT !.enabled = TRUE]]
  /\ UNCHANGED <<maps, mutex, code, cpu, ops>>

EnableInstalled(p) ==
  /\ installed
  /\ EnableReturn(p, "enable_check")
  /\ UNCHANGED handler

EnableNotInstalled(p) ==
  /\ ~installed
  /\ Goto(p, "enable_check", "enable_add")
  /\ UNCHANGED <<maps, handler, mutex, code, obj, locals, cpu, ops>>

(* g_hVeh = AddVectoredExceptionHandler(...); NULL when the system has no  *)
(* handle left, which the code does not look at.                           *)
EnableAdd(p) ==
  /\ Goto(p, "enable_add", "enable_flag")
  /\ \/ /\ Handles \subseteq handlers
        /\ hVeh' = NULL
        /\ UNCHANGED handlers
     \/ \E x \in Handles \ handlers : hVeh' = x /\ handlers' = handlers \cup {x}
  /\ UNCHANGED <<maps, installed, mutex, code, obj, locals, cpu, ops>>

EnableFlag(p) ==
  /\ EnableReturn(p, "enable_flag")
  /\ installed' = TRUE
  /\ UNCHANGED <<hVeh, handlers>>

-----------------------------------------------------------------------------
(* Disable, also the body of ~Int3Veh; on an object that is not enabled it *)
(* returns false and changes nothing.                                      *)
Disable(p, h) ==
  /\ ops < MaxOps
  /\ ~InUse(h) /\ obj[h].enabled /\ h # PinHook
  /\ Goto(p, "idle", "disable_lock")
  /\ cur' = [cur EXCEPT ![p] = h]
  /\ ops' = ops + 1
  /\ UNCHANGED <<maps, handler, mutex, code, obj, lastHook, cpu>>

DisableLock(p) ==
  /\ Goto(p, "disable_lock", "disable_find")
  /\ Acquire(p)
  /\ UNCHANGED <<maps, handler, code, obj, locals, cpu, ops>>

(* The target is not in the map: unlock, return false, still enabled.      *)
DisableRefused(p) ==
  /\ Return(p, "disable_find")
  /\ activeHooks[obj[cur[p]].target] = NULL
  /\ Release
  /\ UNCHANGED <<maps, handler, code, obj, cpu, ops>>

(* A bug to compare with: the handler goes with the last hook but one.     *)
DisableEraseEarly(p) ==
  LET t == obj[cur[p]].target
  IN  /\ Goto(p, "disable_find", "disable_patch")
      /\ activeHooks[t] # NULL
      /\ activeHooks' = [activeHooks EXCEPT ![t] = NULL]
      /\ lastHook' = [lastHook EXCEPT ![p] =
                        Cardinality({u \in Targets : activeHooks[u] # NULL}) <= 2]
      /\ UNCHANGED <<patchedBytes, handler, mutex, code, obj, cur, cpu, ops>>

DisableErase(p) ==
  LET t == obj[cur[p]].target
  IN  /\ Goto(p, "disable_find", "disable_patch")
      /\ activeHooks[t] # NULL
      /\ activeHooks' = [activeHooks EXCEPT ![t] = NULL]
      /\ lastHook' = [lastHook EXCEPT ![p] =
                        \A u \in Targets \ {t} : activeHooks[u] = NULL]
      /\ UNCHANGED <<patchedBytes, handler, mutex, code, obj, cur, cpu, ops>>

(* A bug to compare with: the saved byte is not written back.              *)
DisablePatchNothing(p) ==
  /\ Goto(p, "disable_patch",
             IF lastHook[p] THEN "disable_remove" ELSE "disable_return")
  /\ Release
  /\ UNCHANGED <<maps, handler, code, obj, locals, cpu, ops>>

(* Write the saved byte back and unlock.                                   *)
DisablePatch(p) ==
  LET t == obj[cur[p]].target
  IN  /\ Goto(p, "disable_patch",
                 IF lastHook[p] THEN "disable_remove" ELSE "disable_return")
      /\ code' = [code EXCEPT ![t] = patchedBytes[t]]
      /\ Release
      /\ UNCHANGED <<maps, handler, obj, locals, cpu, ops>>

DisableRemove(p) ==
  /\ hVeh \in handlers
  /\ Goto(p, "disable_remove", "disable_clear")
  /\ handlers' = handlers \ {hVeh}
  /\ UNCHANGED <<maps, hVeh, installed, mutex, code, obj, locals, cpu, ops>>

(* RemoveVectoredExceptionHandler fails: return false, still enabled.      *)
DisableRemoveFails(p) ==
  /\ hVeh \notin handlers
  /\ Return(p, "disable_remove")
  /\ UNCHANGED <<maps, handler, mutex, code, obj, cpu, ops>>

DisableClear(p) ==
  /\ Goto(p, "disable_clear", "disable_return")
  /\ hVeh' = NULL /\ installed' = FALSE
  /\ UNCHANGED <<maps, handlers, mutex, code, obj, locals, cpu, ops>>

DisableReturn(p) ==
  /\ Return(p, "disable_return")
  /\ obj' = [obj EXCEPT ![cur[p]] = NoHook]
  /\ UNCHANGED <<maps, handler, mutex, code, cpu, ops>>

-----------------------------------------------------------------------------
(* A thread calls a target.                                                *)
Call(p, t) ==
  /\ Goto(p, "idle", "exec")
  /\ ip' = [ip EXCEPT ![p] = t]
  /\ callee' = [callee EXCEPT ![p] = t]
  /\ UNCHANGED <<maps, handler, mutex, code, obj, locals, tf, ops>>

AtBreakpoint(p) == ip[p] \in Targets /\ code[ip[p]] = Int3

(* The fetched byte is INT 3: the processor raises EXCEPTION_BREAKPOINT    *)
(* with the instruction pointer on that byte.                              *)
Trap(p) ==
  /\ Goto(p, "exec", "bp_raised")
  /\ AtBreakpoint(p)
  /\ UNCHANGED <<maps, handler, mutex, code, obj, locals, cpu, ops>>

(* The system walks its handler list; with none the process terminates.    *)
Dispatch(p) ==
  /\ Goto(p, "bp_raised", IF handlers = {} THEN "unhandled" ELSE "handler_lock")
  /\ UNCHANGED <<maps, handler, mutex, code, obj, locals, cpu, ops>>

HandlerLock(p) ==
  /\ Goto(p, "handler_lock", "handler_find")
  /\ Acquire(p)
  /\ UNCHANGED <<maps, handler, code, obj, locals, cpu, ops>>

(* A bug to compare with: the handler leaves the instruction pointer.      *)
HandlerRedirectNowhere(p) ==
  /\ Goto(p, "handler_find", "exec")
  /\ tf' = [tf EXCEPT ![p] = TRUE]
  /\ Release
  /\ UNCHANGED <<maps, handler, code, obj, locals, ip, callee, ops>>

(* VehHandler on EXCEPTION_BREAKPOINT: redirect if the map knows ip, set   *)
(* the trap flag in any case, continue execution.                          *)
HandlerRedirect(p) ==
  /\ Goto(p, "handler_find", "exec")
  /\ ip' = IF activeHooks[ip[p]] # NULL
           THEN [ip EXCEPT ![p] = activeHooks[ip[p]]] ELSE ip
  /\ tf' = [tf EXCEPT ![p] = TRUE]
  /\ Release
  /\ UNCHANGED <<maps, handler, code, obj, locals, callee, ops>>

(* The first instruction at ip executes; with the trap flag set it is      *)
(* followed by STATUS_SINGLE_STEP.                                         *)
Execute(p) ==
  /\ Goto(p, "exec", IF tf[p] THEN "step_raised" ELSE "body")
  /\ ~AtBreakpoint(p)
  /\ UNCHANGED <<maps, handler, mutex, code, obj, locals, cpu, ops>>

(* VehHandler on STATUS_SINGLE_STEP: continue; with no handler the process *)
(* terminates.                                                             *)
SingleStep(p) ==
  /\ Goto(p, "step_raised", IF handlers = {} THEN "unhandled" ELSE "body")
  /\ tf' = [tf EXCEPT ![p] = FALSE]
  /\ UNCHANGED <<maps, handler, mutex, code, obj, locals, ip, callee, ops>>

(* The rest of the function runs and returns to the caller.                *)
CallReturns(p) ==
  /\ Goto(p, "body", "idle")
  /\ ip' = [ip EXCEPT ![p] = NULL]
  /\ callee' = [callee EXCEPT ![p] = NULL]
  /\ UNCHANGED <<maps, handler, mutex, code, obj, locals, tf, ops>>

-----------------------------------------------------------------------------
(* A thread continues the call it is in.                                   *)
EnableStep(p) ==
  \/ EnableLock(p) \/ EnableRefused(p) \/ EnableInsert(p) \/ EnablePatch(p)
  \/ EnableInstalled(p) \/ EnableNotInstalled(p) \/ EnableAdd(p) \/ EnableFlag(p)

DisableStep(p) ==
  \/ DisableLock(p) \/ DisableRefused(p) \/ DisableErase(p) \/ DisablePatch(p)
  \/ DisableRemove(p) \/ DisableRemoveFails(p) \/ DisableClear(p) \/ DisableReturn(p)

CallStep(p) ==
  \/ Trap(p) \/ Dispatch(p) \/ HandlerLock(p) \/ HandlerRedirect(p)
  \/ Execute(p) \/ SingleStep(p) \/ CallReturns(p)

(* An unhandled exception terminates the process.                          *)
Alive == \A p \in Threads : pc[p] # "unhandled"

Step(p) == Alive /\ (EnableStep(p) \/ DisableStep(p) \/ CallStep(p))

Begin(p) ==
  /\ Alive
  /\ \/ p \in Callers /\ \E t \in Targets : Call(p, t)
     \/ /\ p \in Admins
        /\ \E h \in Hooks : \/ Disable(p, h)
                            \/ \E t \in Targets, d \in Detours : Enable(p, h, t, d)

Next == \E p \in Threads : Begin(p) \/ Step(p)

Spec == Init /\ [][Next]_vars

(* The system keeps scheduling a thread that can run; nobody has to begin  *)
(* a call.                                                                 *)
FairSpec == Spec /\ \A p \in Threads : WF_vars(Step(p))

-----------------------------------------------------------------------------
Idle(t) == \A h \in Hooks : obj[h].target = t => ~obj[h].enabled /\ ~InUse(h)

(* A thread is between the change of the map and the change of the code.   *)
Patching(t) ==
  \E p \in Threads : /\ pc[p] \in {"enable_patch", "disable_patch"}
                     /\ obj[cur[p]].target = t

EnableLabels  == {"enable_lock", "enable_find", "enable_patch", "enable_check",
                  "enable_add", "enable_flag"}
DisableLabels == {"disable_lock", "disable_find", "disable_patch",
                  "disable_remove", "disable_clear", "disable_return"}
CallLabels    == {"exec", "bp_raised", "handler_lock", "handler_find",
                  "step_raised", "body", "unhandled"}

(* Every variable has its type: in particular a byte of code is always one *)
(* the compiler or the library put there.                                  *)
TypeOK ==
  /\ activeHooks \in [Targets -> Detours \cup {NULL}]
  /\ patchedBytes \in [Targets -> Bytes \cup {NULL}]
  /\ hVeh \in Handles \cup {NULL} /\ installed \in BOOLEAN
  /\ handlers \subseteq Handles
  /\ mutex \in Threads \cup {NULL}
  /\ code \in [Targets -> Bytes]
  /\ obj \in [Hooks -> Objects]
  /\ pc \in [Threads -> {"idle"} \cup EnableLabels \cup DisableLabels \cup CallLabels]
  /\ cur \in [Threads -> Hooks \cup {NULL}]
  /\ lastHook \in [Threads -> BOOLEAN]
  /\ ip \in [Threads -> Targets \cup Detours \cup {NULL}]
  /\ tf \in [Threads -> BOOLEAN]
  /\ callee \in [Threads -> Targets \cup {NULL}]
  /\ ops \in Nat

(* Whatever the interleaving of any number of admins, outside the window   *)
(* between erase or insert and Patch the code and the two maps agree: INT 3*)
(* exactly at the targets of the map, with the right byte saved for them.  *)
CodeMatchesHooks ==
  \A t \in Targets :
    /\ patchedBytes[t] \in {NULL, OrigByte[t]}
    /\ ~Patching(t) =>
         code[t] = IF activeHooks[t] # NULL THEN Int3 ELSE OrigByte[t]
    /\ ~Patching(t) /\ activeHooks[t] # NULL => patchedBytes[t] = OrigByte[t]

(* A target no object is enabled for and none is working on has its        *)
(* compiled byte back: no failed or interleaved Disable leaves a patch.    *)
CodeRestored == \A t \in Targets : Idle(t) => code[t] = OrigByte[t]

(* An enabled hook nobody is working on is in force: the map leads to its  *)
(* detour, the target traps and a handler is registered for the exception. *)
HookIntercepts ==
  \A h \in Hooks :
    obj[h].enabled /\ ~InUse(h) =>
      /\ activeHooks[obj[h].target] = obj[h].detour
      /\ code[obj[h].target] = Int3
      /\ handlers # {}

(* No call of a target meets an exception that nobody handles.             *)
NoUnhandled == Alive

(* While a hook stays enabled, a call of its target never runs the target's*)
(* own code, whatever happens to the other hooks meanwhile.                *)
CallsReachDetour ==
  PinHook # NULL =>
    \A p \in Threads : callee[p] = PinTarget =>
      /\ ip[p] \in {PinTarget, PinDetour}
      /\ ip[p] = PinTarget => pc[p] \notin {"step_raised", "body"} /\ code[PinTarget] = Int3

(* Enable and Disable return.                                              *)
OperationCompletes == \A h \in Hooks : InUse(h) ~> ~InUse(h)

-----------------------------------------------------------------------------
(* What callers see: a target is hooked from the moment INT 3 is written   *)
(* until the saved byte is, and a call is decided where the handler moves  *)
(* ip or where the target's own first instruction executes.                *)
hookOf(t) ==
  IF code[t] # Int3 THEN NULL
  ELSE IF activeHooks[t] # NULL THEN activeHooks[t]
  ELSE obj[cur[mutex]].detour     \* being disabled: erased, not yet restored

ranBy(p) == IF ip[p] \in Detours \/ pc[p] \in {"step_raised", "body"}
            THEN ip[p] ELSE NULL

Contract == INSTANCE HookContract WITH
  hooks <- [t \in Targets |-> hookOf(t)],
  calls <- [p \in Threads |-> [target |-> callee[p], ran |-> ranBy(p)]]

(* The INT3 hook implements the contract of Hook: in spite of the exception*)
(* round trip every call runs the detour or the target as if Enable,       *)
(* Disable and the decision of a call each happened at one instant.        *)
ImplementsContract == Contract!Spec

(* However often it traps, every call is decided and returns.              *)
CallsComplete == Contract!Fairness
=============================================================================
