-------------------------------- MODULE Veh --------------------------------
(***************************************************************************)
(* The page-guard hook of src/src/veh.cpp, internal build.  Enable guards  *)
(* the page of its target; the first access to a guarded page removes the  *)
(* guard and raises an exception, the handler redirects the thread to the  *)
(* detour and sets its trap flag, and the single step exception after the  *)
(* next instruction guards the pages of all hooks again.                   *)
(*                                                                         *)
(* Each section locked by g_mutex is one action: it makes one change of    *)
(* the map.  The loop of the single step reads the map without the lock    *)
(* and takes one action for each entry.                                    *)
(***************************************************************************)
EXTENDS Naturals

CONSTANTS
  Admins, Callers,  \* threads that call Enable and Disable, or targets
  Hooks,            \* Veh objects
  Targets, Detours, \* addresses of functions
  Pages, PageOf,    \* the page every function is on
  Fallible,         \* pages on which VirtualProtect may fail
  Handles,          \* handles AddVectoredExceptionHandler can return
  PinHook, PinTarget, PinDetour, \* the hook that is enabled at the start
  Careful,          \* Enable is only called on objects that are not enabled,
                    \* Disable on objects that are
  NULL, MaxOps      \* MaxOps bounds the calls of Enable and Disable

Threads   == Admins \cup Callers
Functions == Targets \cup Detours

(* RX: PAGE_EXECUTE_READ, GUARD: the same with PAGE_GUARD.                 *)
Protections == {"RX", "GUARD"}

ASSUME ConstantsAssumption ==
  /\ Targets \cap Detours = {}
  /\ NULL \notin Threads \cup Hooks \cup Functions \cup Handles \cup Protections
  /\ PageOf \in [Functions -> Pages] /\ Fallible \subseteq Pages
  /\ PinHook \in Hooks /\ PinTarget \in Targets /\ PinDetour \in Detours
  /\ Handles # {} /\ Careful \in BOOLEAN /\ MaxOps \in Nat

VARIABLES
  activeHooks,  \* g_active_veh_hooks: target -> detour, NULL when absent
  hVeh, installed, \* g_hVeh, g_veh_hook_installed
  handlers,     \* handles registered with the system
  prot,         \* protection of every page
  obj,          \* enabled_, target_, detour_ and old_protect_ of every object
  pc,           \* where every thread is
  cur,          \* the object a thread's Enable or Disable works on
  ip, tf,       \* instruction pointer and trap flag of a calling thread
  todo,         \* entries the loop of the single step has still to visit
  ops,          \* calls of Enable and Disable made so far
  pinned,       \* no thread ever disables PinHook
  raced         \* an entry was erased while another thread had it to visit, or
                \* made anew before the page had its old protection back

system  == <<activeHooks, hVeh, installed, handlers, prot>>
cpu     == <<ip, tf, todo>>
history == <<ops, pinned, raced>>
vars    == <<system, obj, pc, cur, cpu, history>>

NoHook  == [enabled |-> FALSE, target |-> NULL, detour |-> NULL, old |-> NULL]
Nowhere == [fn |-> NULL, entry |-> FALSE]

(* One hook is enabled, with the handler its Enable registered.            *)
Init ==
  /\ activeHooks = [t \in Targets |-> IF t = PinTarget THEN PinDetour ELSE NULL]
  /\ hVeh \in Handles /\ handlers = {hVeh} /\ installed = TRUE
  /\ prot = [g \in Pages |-> IF g = PageOf[PinTarget] THEN "GUARD" ELSE "RX"]
  /\ obj = [h \in Hooks |-> IF h = PinHook
              THEN [enabled |-> TRUE, target |-> PinTarget, detour |-> PinDetour, old |-> "RX"]
              ELSE NoHook]
  /\ pc   = [p \in Threads |-> "idle"]
  /\ cur  = [p \in Threads |-> NULL]
  /\ ip   = [p \in Threads |-> Nowhere]
  /\ tf   = [p \in Threads |-> FALSE]
  /\ todo = [p \in Threads |-> {}]
  /\ ops  = 0 /\ raced = FALSE
  /\ pinned \in BOOLEAN

-----------------------------------------------------------------------------
Goto(p, from, to) == pc[p] = from /\ pc' = [pc EXCEPT ![p] = to]

Return(p, from) == Goto(p, from, "idle") /\ cur' = [cur EXCEPT ![p] = NULL]

InUse(h) == \E p \in Threads : cur[p] = h

PageOfHook(h) == PageOf[obj[h].target]

EnableLabels  == {"enable_check", "enable_add", "enable_flag", "enable_protect"}
DisableLabels == {"disable_remove", "disable_flag", "disable_protect"}

(* A thread has erased the entry of t and has not protected its page yet.  *)
Unhooking(t) ==
  \E p \in Threads : pc[p] \in DisableLabels /\ obj[cur[p]].target = t

(* p calls Enable or Disable of an object nobody else is using.            *)
Start(p, h) ==
  /\ pc[p] = "idle" /\ ~InUse(h)
  /\ ops < MaxOps /\ ops' = ops + 1
  /\ UNCHANGED <<cpu, pinned>>

(* The target is in the map: false, with the fields overwritten all the same. *)
EnableRefused(p, h, t, d) ==
  /\ Start(p, h)
  /\ Careful => ~obj[h].enabled
  /\ activeHooks[t] # NULL
  /\ obj' = [obj EXCEPT ![h] = [@ EXCEPT !.target = t, !.detour = d]]
  /\ UNCHANGED <<system, pc, cur, raced>>

Enable(p, h, t, d) ==
  /\ Start(p, h)
  /\ Careful => ~obj[h].enabled
  /\ activeHooks[t] = NULL
  /\ activeHooks' = [activeHooks EXCEPT ![t] = d]
  /\ obj' = [obj EXCEPT ![h] = [@ EXCEPT !.target = t, !.detour = d]]
  /\ Goto(p, "idle", "enable_check")
  /\ cur' = [cur EXCEPT ![p] = h]
  /\ raced' = (raced \/ Unhooking(t))
  /\ UNCHANGED <<hVeh, installed, handlers, prot>>

EnableCheck(p) ==
  /\ Goto(p, "enable_check", IF installed THEN "enable_protect" ELSE "enable_add")
  /\ UNCHANGED <<system, obj, cur, cpu, history>>

(* NULL when the registration fails, which the code does not look at.      *)
EnableAdd(p) ==
  /\ Goto(p, "enable_add", "enable_flag")
  /\ \/ hVeh' = NULL /\ UNCHANGED handlers
     \/ \E x \in Handles \ handlers : hVeh' = x /\ handlers' = handlers \cup {x}
  /\ UNCHANGED <<activeHooks, installed, prot, obj, cur, cpu, history>>

EnableFlag(p) ==
  /\ Goto(p, "enable_flag", "enable_protect")
  /\ installed' = TRUE
  /\ UNCHANGED <<activeHooks, hVeh, handlers, prot, obj, cur, cpu, history>>

(* A bug to compare with: the previous protection is not kept.             *)
EnableProtectUnsaved(p) ==
  /\ Return(p, "enable_protect")
  /\ prot' = [prot EXCEPT ![PageOfHook(cur[p])] = "GUARD"]
  /\ obj' = [obj EXCEPT ![cur[p]] = [@ EXCEPT !.enabled = TRUE]]
  /\ UNCHANGED <<activeHooks, hVeh, installed, handlers, cpu, history>>

EnableProtect(p) ==
  LET g == PageOfHook(cur[p])
  IN  /\ Return(p, "enable_protect")
      /\ prot' = [prot EXCEPT ![g] = "GUARD"]
      /\ obj' = [obj EXCEPT ![cur[p]] = [@ EXCEPT !.enabled = TRUE, !.old = prot[g]]]
      /\ UNCHANGED <<activeHooks, hVeh, installed, handlers, cpu, history>>

(* VirtualProtect fails: return false, the entry stays in the map.         *)
EnableFails(p) ==
  /\ Return(p, "enable_protect")
  /\ PageOfHook(cur[p]) \in Fallible
  /\ UNCHANGED <<system, obj, cpu, history>>

(* The target is not in the map: Disable returns false.                    *)
DisableRefused(p, h) ==
  /\ Start(p, h)
  /\ obj[h].target # NULL /\ (Careful => obj[h].enabled)
  /\ activeHooks[obj[h].target] = NULL
  /\ UNCHANGED <<system, obj, pc, cur, raced>>

(* A bug to compare with: the handler goes with the last hook but one.     *)
DisableEarly(p, h) ==
  LET t == obj[h].target
  IN  /\ Start(p, h) /\ ~(pinned /\ h = PinHook)
      /\ t # NULL /\ (Careful => obj[h].enabled)
      /\ activeHooks[t] # NULL
      /\ activeHooks' = [activeHooks EXCEPT ![t] = NULL]
      /\ Goto(p, "idle", "disable_remove")
      /\ cur' = [cur EXCEPT ![p] = h]
      /\ raced' = (raced \/ \E q \in Callers : t \in todo[q])
      /\ UNCHANGED <<hVeh, installed, handlers, prot, obj>>

(* Also the body of ~Veh.                                                  *)
Disable(p, h) ==
  LET t    == obj[h].target
      last == \A u \in Targets \ {t} : activeHooks[u] = NULL
  IN  /\ Start(p, h) /\ ~(pinned /\ h = PinHook)
      /\ t # NULL /\ (Careful => obj[h].enabled)
      /\ activeHooks[t] # NULL
      /\ activeHooks' = [activeHooks EXCEPT ![t] = NULL]
      /\ Goto(p, "idle", IF last THEN "disable_remove" ELSE "disable_protect")
      /\ cur' = [cur EXCEPT ![p] = h]
      /\ raced' = (raced \/ \E q \in Callers : t \in todo[q])
      /\ UNCHANGED <<hVeh, installed, handlers, prot, obj>>

DisableRemove(p) ==
  /\ hVeh \in handlers
  /\ Goto(p, "disable_remove", "disable_flag")
  /\ handlers' = handlers \ {hVeh}
  /\ UNCHANGED <<activeHooks, hVeh, installed, prot, obj, cur, cpu, history>>

(* RemoveVectoredExceptionHandler fails: false, enabled and still guarded. *)
DisableRemoveFails(p) ==
  /\ hVeh \notin handlers
  /\ Return(p, "disable_remove")
  /\ UNCHANGED <<system, obj, cpu, history>>

DisableFlag(p) ==
  /\ Goto(p, "disable_flag", "disable_protect")
  /\ installed' = FALSE
  /\ UNCHANGED <<activeHooks, hVeh, handlers, prot, obj, cur, cpu, history>>

(* old_protect_ goes back, whatever it was; before any successful Enable   *)
(* it is uninitialised.                                                    *)
DisableProtect(p) ==
  LET h == cur[p]
  IN  /\ Return(p, "disable_protect")
      /\ \E old \in IF obj[h].old = NULL THEN Protections ELSE {obj[h].old} :
           prot' = [prot EXCEPT ![PageOfHook(h)] = old]
      /\ obj' = [obj EXCEPT ![h] = [@ EXCEPT !.enabled = FALSE]]
      /\ UNCHANGED <<activeHooks, hVeh, installed, handlers, cpu, history>>

(* VirtualProtect fails (also for an uninitialised protection): false.     *)
DisableFails(p) ==
  /\ Return(p, "disable_protect")
  /\ PageOfHook(cur[p]) \in Fallible \/ obj[cur[p]].old = NULL
  /\ UNCHANGED <<system, obj, cpu, history>>

-----------------------------------------------------------------------------
(* A thread calls a target: here a first instruction and the others.       *)
Call(p, t) ==
  /\ Goto(p, "idle", "exec")
  /\ ip' = [ip EXCEPT ![p] = [fn |-> t, entry |-> TRUE]]
  /\ UNCHANGED <<system, obj, cur, tf, todo, history>>

Guarded(p) == ip[p].fn # NULL /\ prot[PageOf[ip[p].fn]] = "GUARD"

(* A fetch from a guarded page removes the guard and raises                *)
(* STATUS_GUARD_PAGE_VIOLATION.                                            *)
Trap(p) ==
  /\ Goto(p, "exec", "guard_raised")
  /\ Guarded(p)
  /\ prot' = [prot EXCEPT ![PageOf[ip[p].fn]] = "RX"]
  /\ UNCHANGED <<activeHooks, hVeh, installed, handlers, obj, cur, cpu, history>>

(* The next instruction executes; with the trap flag set it is followed by *)
(* STATUS_SINGLE_STEP.                                                     *)
Execute(p) ==
  /\ ip[p].fn # NULL /\ ~Guarded(p)
  /\ Goto(p, "exec", IF tf[p] THEN "step_raised" ELSE "exec")
  /\ ip' = [ip EXCEPT ![p] = IF ip[p].entry THEN [@ EXCEPT !.entry = FALSE] ELSE Nowhere]
  /\ tf' = [tf EXCEPT ![p] = FALSE]
  /\ UNCHANGED <<system, obj, cur, todo, history>>

CallReturns(p) ==
  /\ ip[p].fn = NULL
  /\ Goto(p, "exec", "idle")
  /\ UNCHANGED <<system, obj, cur, cpu, history>>

(* The system found no handler: the process terminates.                    *)
Unhandled(p) ==
  /\ pc[p] \in {"guard_raised", "step_raised"} /\ handlers = {}
  /\ pc' = [pc EXCEPT ![p] = "unhandled"]
  /\ UNCHANGED <<system, obj, cur, cpu, history>>

Dispatch(p) ==
  /\ handlers # {}
  /\ Goto(p, "guard_raised", "handler")
  /\ UNCHANGED <<system, obj, cur, cpu, history>>

(* A bug to compare with: the handler leaves the instruction pointer.      *)
HandlerRedirectNowhere(p) ==
  /\ Goto(p, "handler", "exec")
  /\ tf' = [tf EXCEPT ![p] = TRUE]
  /\ UNCHANGED <<system, obj, cur, ip, todo, history>>

(* VehHandler on a guard violation: redirect a thread at a target of the   *)
(* map, set the trap flag in any case.                                     *)
HandlerRedirect(p) ==
  LET i == ip[p]
  IN  /\ Goto(p, "handler", "exec")
      /\ ip' = [ip EXCEPT ![p] =
                  IF i.entry /\ i.fn \in Targets /\ activeHooks[i.fn] # NULL
                  THEN [fn |-> activeHooks[i.fn], entry |-> TRUE] ELSE i]
      /\ tf' = [tf EXCEPT ![p] = TRUE]
      /\ UNCHANGED <<system, obj, cur, todo, history>>

(* VehHandler on the single step: the loop over the map begins.            *)
SingleStep(p) ==
  /\ handlers # {}
  /\ Goto(p, "step_raised", "rearm")
  /\ todo' = [todo EXCEPT ![p] = {t \in Targets : activeHooks[t] # NULL}]
  /\ UNCHANGED <<system, obj, cur, ip, tf, history>>

(* A bug to compare with: the guard is forgotten.                          *)
RearmPlain(p) ==
  \E t \in todo[p] :
    /\ pc[p] = "rearm"
    /\ todo' = [todo EXCEPT ![p] = @ \ {t}]
    /\ prot' = [prot EXCEPT ![PageOf[t]] = "RX"]
    /\ UNCHANGED <<activeHooks, hVeh, installed, handlers, obj, pc, cur, ip, tf, history>>

(* One entry of the loop; the result of VirtualProtect is ignored.         *)
Rearm(p) ==
  \E t \in todo[p] :
    /\ pc[p] = "rearm"
    /\ todo' = [todo EXCEPT ![p] = @ \ {t}]
    /\ \/ prot' = [prot EXCEPT ![PageOf[t]] = "GUARD"]
       \/ PageOf[t] \in Fallible /\ UNCHANGED prot
    /\ UNCHANGED <<activeHooks, hVeh, installed, handlers, obj, pc, cur, ip, tf, history>>

(* The loop ends: at its end, or anywhere, or in an access violation, when *)
(* the node it stands on was erased under it.                              *)
RearmEnds(p) ==
  /\ \/ todo[p] = {} /\ Goto(p, "rearm", "exec")
     \/ /\ \E t \in todo[p] : activeHooks[t] = NULL
        /\ \E to \in {"exec", "unhandled"} : Goto(p, "rearm", to)
  /\ todo' = [todo EXCEPT ![p] = {}]
  /\ UNCHANGED <<system, obj, cur, ip, tf, history>>

-----------------------------------------------------------------------------
Alive == \A p \in Threads : pc[p] # "unhandled"

AdminStep(p) ==
  \/ EnableCheck(p) \/ EnableAdd(p) \/ EnableFlag(p) \/ EnableProtect(p) \/ EnableFails(p)
  \/ DisableRemove(p) \/ DisableRemoveFails(p) \/ DisableFlag(p)
  \/ DisableProtect(p) \/ DisableFails(p)
  \/ \E h \in Hooks : \/ Disable(p, h) \/ DisableRefused(p, h)
                      \/ \E t \in Targets, d \in Detours :
                           Enable(p, h, t, d) \/ EnableRefused(p, h, t, d)

CallerStep(p) ==
  \/ Trap(p) \/ Execute(p) \/ CallReturns(p) \/ Unhandled(p) \/ Dispatch(p)
  \/ HandlerRedirect(p) \/ SingleStep(p) \/ Rearm(p) \/ RearmEnds(p)
  \/ \E t \in Targets : Call(p, t)

Next == /\ Alive
        /\ \/ \E p \in Admins : AdminStep(p)
           \/ \E p \in Callers : CallerStep(p)

Spec == Init /\ [][Next]_vars

-----------------------------------------------------------------------------
AdminLabels  == EnableLabels \cup DisableLabels
CallerLabels == {"exec", "guard_raised", "handler", "step_raised", "rearm", "unhandled"}

(* Every variable has its type: what VirtualProtect is given is always a   *)
(* protection that it or the compiler put there.                           *)
TypeOK ==
  /\ activeHooks \in [Targets -> Detours \cup {NULL}]
  /\ hVeh \in Handles \cup {NULL} /\ installed \in BOOLEAN /\ handlers \subseteq Handles
  /\ prot \in [Pages -> Protections]
  /\ obj \in [Hooks -> [enabled : BOOLEAN, target : Targets \cup {NULL},
                        detour : Detours \cup {NULL}, old : Protections \cup {NULL}]]
  /\ \A h \in Hooks : obj[h].enabled => obj[h].target # NULL /\ obj[h].old # NULL
  /\ pc \in [Threads -> {"idle"} \cup AdminLabels \cup CallerLabels]
  /\ cur \in [Threads -> Hooks \cup {NULL}]
  /\ ip \in [Threads -> [fn : Functions \cup {NULL}, entry : BOOLEAN]]
  /\ tf \in [Threads -> BOOLEAN] /\ todo \in [Threads -> SUBSET Targets]
  /\ ops \in Nat /\ pinned \in BOOLEAN /\ raced \in BOOLEAN

(* p took a guard away and is going to guard the page of t again.          *)
Rearming(p, t) ==
  \/ pc[p] \in {"guard_raised", "handler", "step_raised"}
  \/ pc[p] = "exec" /\ tf[p]
  \/ pc[p] = "rearm" /\ t \in todo[p]

AtRest(h) == obj[h].enabled /\ ~InUse(h)

(* With one hook that stays, and no race on the map: an enabled hook on a  *)
(* page of its own is in the map with a handler, and its page is guarded,  *)
(* or a thread that lost the guard is going to restore it.                 *)
HookStaysArmed ==
  pinned /\ ~raced =>
    \A h \in Hooks : AtRest(h) /\ PageOfHook(h) \notin Fallible =>
      /\ activeHooks[obj[h].target] = obj[h].detour
      /\ handlers # {}
      /\ \/ prot[PageOfHook(h)] = "GUARD"
         \/ \E p \in Callers : Rearming(p, obj[h].target)

(* With one hook that stays no exception goes unhandled.                   *)
NoUnhandled == pinned /\ ~raced => Alive

(* A call of the pinned target runs its own code at most while another     *)
(* thread has taken the guard away and not yet restored it.                *)
OwnCodeOnlyInWindow ==
  [][\A p \in Callers :
       /\ pinned /\ ~raced
       /\ ip[p] = [fn |-> PinTarget, entry |-> TRUE]
       /\ ip'[p] = [fn |-> PinTarget, entry |-> FALSE]
       => \E q \in Callers \ {p} : Rearming(q, PinTarget)]_vars

(* After Disable the target is as it was before Enable: a page without     *)
(* hooks, and that no thread is guarding, is not guarded.                  *)
GuardRemoved ==
  \A g \in Pages :
    /\ \A h \in Hooks : obj[h].target # NULL /\ PageOfHook(h) = g
                        => ~obj[h].enabled /\ ~InUse(h)
    /\ \A p \in Callers : pc[p] # "rearm"
    => prot[g] = "RX"
=============================================================================
