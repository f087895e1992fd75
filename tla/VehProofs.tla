----------------------------- MODULE VehProofs -----------------------------
(***************************************************************************)
(* Proofs about Veh, for any threads, objects, functions, pages, handles   *)
(* and number of calls.  Whatever the clients do, every variable has its   *)
(* type.  While one hook stays, clients are careful, targets have pages of *)
(* their own and no entry is erased at the wrong moment, hooks stay armed, *)
(* no exception goes unhandled, and the pinned target only ever runs its   *)
(* own code while another thread has its guard.                            *)
(*                                                                         *)
(* VInv is the invariant of the first part; PinInv, of the second, is about*)
(* who owns a target and who is going to guard its page again.             *)
(***************************************************************************)
EXTENDS Veh, TLAPS

(* A thread is enabling, or disabling, h.                                  *)
Enabling(h)  == \E p \in Threads : cur[p] = h /\ pc[p] \in EnableLabels
Disabling(h) == \E p \in Threads : cur[p] = h /\ pc[p] \in DisableLabels

(* The object of a call is its thread's alone and has a target.            *)
CurInv ==
  /\ \A p \in Threads : IF pc[p] \in AdminLabels
                          THEN cur[p] \in Hooks /\ obj[cur[p]].target # NULL
                          ELSE cur[p] = NULL
  /\ \A p, q \in Threads : cur[p] = cur[q] /\ cur[p] # NULL => p = q

(* A thread with its trap flag set has an instruction to step over, and so *)
(* has one that trapped.                                                   *)
CpuInv ==
  \A p \in Threads :
    /\ tf[p] => pc[p] \in {"exec", "guard_raised", "handler", "unhandled"}
    /\ tf[p] \/ pc[p] \in {"guard_raised", "handler"} => ip[p].fn # NULL

VInv == TypeOK /\ CurInv /\ CpuInv

-----------------------------------------------------------------------------
(* Targets of which no VirtualProtect fails; the pinned one needs none.    *)
Firm(t) == t = PinTarget \/ PageOf[t] \notin Fallible

(* h has t, or is about to have it.                                        *)
Owns(h, t) == obj[h].target = t /\ (obj[h].enabled \/ Enabling(h))

(* The owner of a target is one, and its entry is the target's.            *)
OwnerInv ==
  \A h \in Hooks, t \in Targets : Firm(t) /\ Owns(h, t) =>
    /\ IF Disabling(h) THEN activeHooks[t] = NULL
       ELSE activeHooks[t] = obj[h].detour /\ obj[h].detour # NULL
    /\ \A k \in Hooks : Owns(k, t) => k = h

(* Only an enabled object is being disabled, and never the pinned one.     *)
UseInv ==
  /\ \A h \in Hooks : Disabling(h) => obj[h].enabled
  /\ obj[PinHook].enabled /\ obj[PinHook].target = PinTarget /\ ~Disabling(PinHook)

(* The handler stays, so nothing that adds or removes it is under way.     *)
HandlerInv ==
  /\ installed /\ hVeh \in handlers
  /\ \A p \in Threads : pc[p] \notin {"enable_add", "enable_flag", "disable_remove",
                                      "disable_flag", "unhandled"}

(* What the single step visits is in the map.                              *)
TodoInv == \A p \in Callers : \A t \in todo[p] : activeHooks[t] # NULL

(* No thread at the first instruction of the pinned target steps over it.  *)
EntryInv == \A p \in Callers : tf[p] => ip[p] # [fn |-> PinTarget, entry |-> TRUE]

(* The page of an enabled object is guarded, or going to be.               *)
GuardInv ==
  \A h \in Hooks, t \in Targets :
    /\ obj[h].target = t /\ obj[h].enabled /\ ~Disabling(h) /\ PageOf[t] \notin Fallible
    => prot[PageOf[t]] = "GUARD" \/ \E p \in Callers : Rearming(p, t)

PinInv == OwnerInv /\ UseInv /\ HandlerInv /\ TodoInv /\ EntryInv /\ GuardInv

IInv == VInv /\ (pinned /\ ~raced => PinInv)

-----------------------------------------------------------------------------
(* The types of the variables one by one.                                  *)
Labels  == {"idle"} \cup AdminLabels \cup CallerLabels
Objects == [enabled : BOOLEAN, target : Targets \cup {NULL},
            detour : Detours \cup {NULL}, old : Protections \cup {NULL}]
Places  == [fn : Functions \cup {NULL}, entry : BOOLEAN]
Kept(o) == o.enabled => o.target # NULL /\ o.old # NULL

MapTypes ==
  /\ activeHooks \in [Targets -> Detours \cup {NULL}]
  /\ hVeh \in Handles \cup {NULL} /\ installed \in BOOLEAN /\ handlers \subseteq Handles
  /\ prot \in [Pages -> Protections]
  /\ obj \in [Hooks -> Objects] /\ \A h \in Hooks : Kept(obj[h])

RunTypes ==
  /\ pc \in [Threads -> Labels] /\ cur \in [Threads -> Hooks \cup {NULL}]
  /\ ip \in [Threads -> Places] /\ tf \in [Threads -> BOOLEAN]
  /\ todo \in [Threads -> SUBSET Targets]
  /\ ops \in Nat /\ pinned \in BOOLEAN /\ raced \in BOOLEAN

(* TypeOK in these words.                                                  *)
LEMMA TypeParts ==
  TypeOK => /\ activeHooks \in [Targets -> Detours \cup {NULL}]
            /\ hVeh \in Handles \cup {NULL} /\ installed \in BOOLEAN /\ handlers \subseteq Handles
            /\ prot \in [Pages -> Protections]
            /\ obj \in [Hooks -> Objects] /\ \A h \in Hooks : Kept(obj[h])
            /\ pc \in [Threads -> Labels] /\ cur \in [Threads -> Hooks \cup {NULL}]
            /\ ip \in [Threads -> Places] /\ tf \in [Threads -> BOOLEAN]
            /\ todo \in [Threads -> SUBSET Targets]
            /\ ops \in Nat /\ pinned \in BOOLEAN /\ raced \in BOOLEAN
BY Zenon DEF TypeOK, Labels, Objects, Places, Kept

(* And the other way.                                                      *)
LEMMA TypeWhole == MapTypes /\ RunTypes => TypeOK
BY Zenon DEF TypeOK, MapTypes, RunTypes, Labels, Objects, Places, Kept

(* The same of the next state.                                             *)
LEMMA TypeWholeNext == MapTypes' /\ RunTypes' => TypeOK'
BY Zenon DEF TypeOK, MapTypes, RunTypes, Labels, Objects, Places, Kept

(* Labels of calls, of callers, and where a call begins, are not the same. *)
LEMMA LabelFacts ==
  /\ "idle" \notin AdminLabels /\ "idle" \notin CallerLabels
  /\ AdminLabels \cap CallerLabels = {} /\ EnableLabels \cap DisableLabels = {}
  /\ {"idle"} \cup AdminLabels \cup CallerLabels = Labels
BY DEF AdminLabels, CallerLabels, EnableLabels, DisableLabels, Labels

(* An object with fields of their types is an object.                      *)
LEMMA ObjectTyped ==
  ASSUME NEW o \in Objects
  PROVE  /\ o.enabled \in BOOLEAN /\ o.target \in Targets \cup {NULL}
         /\ o.detour \in Detours \cup {NULL} /\ o.old \in Protections \cup {NULL}
BY DEF Objects

(* What an Enable sets of an object first, what it sets of it in the end,  *)
(* and what a Disable sets of it.                                          *)
Aimed(o, t, d) == [o EXCEPT !.target = t, !.detour = d]
On(o, r) == [o EXCEPT !.enabled = TRUE, !.old = r]
Off(o) == [o EXCEPT !.enabled = FALSE]

(* The first keeps whether the object is enabled.                          *)
LEMMA ObjectAimed ==
  ASSUME NEW o \in Objects, NEW t \in Targets, NEW d \in Detours, Kept(o)
  PROVE  /\ Aimed(o, t, d) \in Objects /\ Kept(Aimed(o, t, d))
         /\ Aimed(o, t, d).target = t /\ Aimed(o, t, d).detour = d
         /\ Aimed(o, t, d).enabled = o.enabled
<1>1. /\ Aimed(o, t, d) \in Objects
      /\ Aimed(o, t, d).target = t /\ Aimed(o, t, d).detour = d
      /\ Aimed(o, t, d).enabled = o.enabled /\ Aimed(o, t, d).old = o.old
  BY DEF Objects, Aimed
<1>2. t # NULL
  BY ConstantsAssumption DEF ConstantsAssumption, Functions
<1> QED
  BY <1>1, <1>2 DEF Kept

(* The second needs a target.                                              *)
LEMMA ObjectOn ==
  ASSUME NEW o \in Objects, NEW r \in Protections, o.target # NULL
  PROVE  /\ On(o, r) \in Objects /\ Kept(On(o, r))
         /\ On(o, r).target = o.target /\ On(o, r).detour = o.detour /\ On(o, r).enabled
<1>1. /\ On(o, r) \in Objects /\ On(o, r).target = o.target /\ On(o, r).detour = o.detour
      /\ On(o, r).enabled /\ On(o, r).old = r
  BY DEF Objects, On
<1>2. r # NULL
  BY ConstantsAssumption DEF ConstantsAssumption
<1> QED
  BY <1>1, <1>2 DEF Kept

(* The third needs nothing.                                                *)
LEMMA ObjectOff ==
  ASSUME NEW o \in Objects
  PROVE  /\ Off(o) \in Objects /\ Kept(Off(o))
         /\ Off(o).target = o.target /\ Off(o).detour = o.detour /\ ~Off(o).enabled
BY DEF Objects, Kept, Off

(* The first state.                                                        *)
LEMMA InitVInv == Init => VInv
<1> SUFFICES ASSUME Init PROVE VInv
  OBVIOUS
<1>a. /\ Targets \cap Detours = {} /\ NULL \notin Threads \cup Hooks \cup Functions \cup Handles
      /\ PageOf \in [Functions -> Pages]
      /\ PinHook \in Hooks /\ PinTarget \in Targets /\ PinDetour \in Detours
      /\ NULL \notin Protections
  BY ConstantsAssumption DEF ConstantsAssumption
<1>1. TypeOK
  <2>1. activeHooks \in [Targets -> Detours \cup {NULL}]
    BY <1>a DEF Init
  <2>2. hVeh \in Handles \cup {NULL} /\ installed \in BOOLEAN /\ handlers \subseteq Handles
    BY DEF Init
  <2>3. prot \in [Pages -> Protections]
    BY DEF Init, Protections
  <2>4. obj \in [Hooks -> Objects] /\ \A h \in Hooks : Kept(obj[h])
    <3> DEFINE on == [enabled |-> TRUE, target |-> PinTarget, detour |-> PinDetour, old |-> "RX"]
    <3>1. on \in Objects /\ Kept(on)
      BY <1>a DEF Objects, Kept, Functions, Protections
    <3>2. NoHook \in Objects /\ Kept(NoHook)
      BY DEF Objects, Kept, NoHook
    <3>3. obj = [h \in Hooks |-> IF h = PinHook THEN on ELSE NoHook]
      BY DEF Init
    <3> HIDE DEF on
    <3> QED
      BY <3>1, <3>2, <3>3
  <2>5. pc \in [Threads -> Labels] /\ cur \in [Threads -> Hooks \cup {NULL}]
    BY DEF Init, Labels
  <2>6. ip \in [Threads -> Places]
    BY DEF Init, Places, Nowhere
  <2>7. tf \in [Threads -> BOOLEAN] /\ todo \in [Threads -> SUBSET Targets]
    BY DEF Init
  <2>8. ops \in Nat /\ pinned \in BOOLEAN /\ raced \in BOOLEAN
    BY DEF Init
  <2> QED
    BY <2>1, <2>2, <2>3, <2>4, <2>5, <2>6, <2>7, <2>8, TypeWhole DEF MapTypes,
       RunTypes
<1>2. CurInv
  BY LabelFacts DEF Init, CurInv
<1>3. CpuInv
  BY DEF Init, CpuInv
<1> QED
  BY <1>1, <1>2, <1>3 DEF VInv

-----------------------------------------------------------------------------
(* What a step of a thread does to where the threads are.                  *)
LEMMA GotoStep ==
  ASSUME TypeOK, NEW p \in Threads, NEW from, NEW to \in Labels, Goto(p, from, to)
  PROVE  /\ pc[p] = from /\ pc'[p] = to /\ \A q \in Threads \ {p} : pc'[q] = pc[q]
         /\ pc' \in [Threads -> Labels]
<1>1. pc \in [Threads -> Labels]
  BY TypeParts
<1> QED
  BY <1>1 DEF Goto

(* The end of a call of Enable or Disable.                                 *)
LEMMA ReturnStep ==
  ASSUME TypeOK, NEW p \in Threads, NEW from, Return(p, from)
  PROVE  /\ pc[p] = from /\ pc'[p] = "idle" /\ \A q \in Threads \ {p} : pc'[q] = pc[q]
         /\ pc' \in [Threads -> Labels]
         /\ cur'[p] = NULL /\ \A q \in Threads \ {p} : cur'[q] = cur[q]
         /\ cur' \in [Threads -> Hooks \cup {NULL}]
<1>1. pc \in [Threads -> Labels] /\ cur \in [Threads -> Hooks \cup {NULL}]
  BY TypeParts
<1>2. "idle" \in Labels
  BY DEF Labels
<1> QED
  BY <1>1, <1>2 DEF Goto, Return

(* The begin of one.                                                       *)
LEMMA BeginStep ==
  ASSUME TypeOK, NEW p \in Threads, NEW h \in Hooks, NEW to \in AdminLabels,
         Start(p, h), Goto(p, "idle", to), cur' = [cur EXCEPT ![p] = h]
  PROVE  /\ pc[p] = "idle" /\ pc'[p] = to /\ \A q \in Threads \ {p} : pc'[q] = pc[q]
         /\ pc' \in [Threads -> Labels]
         /\ cur'[p] = h /\ \A q \in Threads \ {p} : cur'[q] = cur[q] /\ cur[q] # h
         /\ cur[p] # h /\ cur' \in [Threads -> Hooks \cup {NULL}]
<1>1. pc \in [Threads -> Labels] /\ cur \in [Threads -> Hooks \cup {NULL}]
  BY TypeParts
<1>2. to \in Labels
  BY LabelFacts
<1> QED
  BY <1>1, <1>2 DEF Goto, Start, InUse

(* A call leaves what the processor does alone, and changes one object at  *)
(* most; what a caller does leaves the map, the handlers and the objects.  *)
LEMMA StartFrame ==
  ASSUME NEW p, NEW h, Start(p, h)
  PROVE  /\ pc[p] = "idle" /\ UNCHANGED <<ip, tf, todo, pinned>> /\ ops' = ops + 1
BY DEF Start, cpu

(* Enable and Disable leave the processor as it is.                        *)
LEMMA AdminFrame ==
  ASSUME VInv, NEW p \in Threads, AdminStep(p)
  PROVE  /\ UNCHANGED <<ip, tf, todo, pinned>> /\ (raced => raced') /\ ops' \in Nat
         /\ raced' \in BOOLEAN
         /\ pc[p] \in {"idle"} \cup AdminLabels /\ pc'[p] \in {"idle"} \cup AdminLabels
         /\ \A q \in Threads \ {p} : pc'[q] = pc[q]
         /\ pc' \in [Threads -> Labels] /\ cur' \in [Threads -> Hooks \cup {NULL}]
<1>t. /\ TypeOK /\ ops \in Nat /\ pc \in [Threads -> Labels] /\ raced \in BOOLEAN
      /\ cur \in [Threads -> Hooks \cup {NULL}]
  BY TypeParts DEF VInv
<1>l. \A x \in {"idle"} \cup AdminLabels : x \in Labels
  BY LabelFacts
<1> DEFINE Good == /\ UNCHANGED <<ip, tf, todo, pinned>> /\ (raced => raced') /\ ops' \in Nat
                   /\ raced' \in BOOLEAN
                   /\ pc[p] \in {"idle"} \cup AdminLabels /\ pc'[p] \in {"idle"} \cup AdminLabels
                   /\ \A q \in Threads \ {p} : pc'[q] = pc[q]
                   /\ pc' \in [Threads -> Labels] /\ cur' \in [Threads -> Hooks \cup {NULL}]
<1>1. ASSUME UNCHANGED cpu, UNCHANGED history, UNCHANGED cur,
             NEW from \in AdminLabels, NEW to \in AdminLabels, Goto(p, from, to)
      PROVE  Good
  <2>1. to \in Labels
    BY <1>1, <1>l
  <2> QED
    BY <1>1, <2>1, <1>t, GotoStep DEF cpu, history
<1>2. ASSUME UNCHANGED cpu, UNCHANGED history, NEW from \in AdminLabels, Return(p, from)
      PROVE  Good
  BY <1>2, <1>t, ReturnStep DEF cpu, history
<1>3. ASSUME NEW h \in Hooks, Start(p, h), NEW to \in AdminLabels, Goto(p, "idle", to),
             cur' = [cur EXCEPT ![p] = h], raced => raced', raced' \in BOOLEAN
      PROVE  Good
  <2>1. UNCHANGED <<ip, tf, todo, pinned>> /\ ops' = ops + 1
    BY <1>3, StartFrame
  <2>2. ops' \in Nat
    BY <2>1, <1>t
  <2> QED
    BY ZenonT(60), <1>3, <2>1, <2>2, <1>t, BeginStep
<1>4. ASSUME NEW h \in Hooks, Start(p, h), UNCHANGED <<pc, cur, raced>>
      PROVE  Good
  <2>1. UNCHANGED <<ip, tf, todo, pinned>> /\ ops' = ops + 1 /\ pc[p] = "idle"
    BY <1>4, StartFrame
  <2>2. ops' \in Nat
    BY <2>1, <1>t
  <2> QED
    BY <1>4, <2>1, <2>2, <1>t
<1> SUFFICES Good
  OBVIOUS
<1> HIDE DEF Good
<1>l2. /\ {"enable_check", "enable_add", "enable_flag", "enable_protect"} \subseteq AdminLabels
       /\ {"disable_remove", "disable_flag", "disable_protect"} \subseteq AdminLabels
  BY DEF AdminLabels, EnableLabels, DisableLabels
<1>a. CASE EnableCheck(p)
  BY <1>a, <1>1, <1>l2 DEF EnableCheck
<1>b. CASE EnableAdd(p)
  BY <1>b, <1>1, <1>l2 DEF EnableAdd
<1>c. CASE EnableFlag(p)
  BY <1>c, <1>1, <1>l2 DEF EnableFlag
<1>d. CASE EnableProtect(p) \/ EnableFails(p)
  BY <1>d, <1>2, <1>l2 DEF EnableProtect, EnableFails
<1>e. CASE DisableRemove(p)
  BY <1>e, <1>1, <1>l2 DEF DisableRemove
<1>f. CASE DisableRemoveFails(p)
  BY <1>f, <1>2, <1>l2 DEF DisableRemoveFails
<1>g. CASE DisableFlag(p)
  BY <1>g, <1>1, <1>l2 DEF DisableFlag
<1>h. CASE DisableProtect(p) \/ DisableFails(p)
  BY <1>h, <1>2, <1>l2 DEF DisableProtect, DisableFails
<1>i. ASSUME NEW h \in Hooks, Disable(p, h) PROVE Good
  <2>1. PICK to \in {"disable_remove", "disable_protect"} : Goto(p, "idle", to)
    BY <1>i DEF Disable
  <2>2. Start(p, h) /\ cur' = [cur EXCEPT ![p] = h]
    BY <1>i DEF Disable
  <2>3. raced' = (raced \/ \E q \in Callers : obj[h].target \in todo[q])
    BY <1>i DEF Disable
  <2>4. (raced => raced') /\ raced' \in BOOLEAN
    BY <2>3
  <2>5. to \in AdminLabels
    BY <1>l2
  <2> QED
    BY <2>1, <2>2, <2>4, <2>5, <1>3
<1>j. ASSUME NEW h \in Hooks, DisableRefused(p, h) PROVE Good
  BY <1>j, <1>4 DEF DisableRefused
<1>k. ASSUME NEW h \in Hooks, NEW t \in Targets, NEW d \in Detours, Enable(p, h, t, d)
      PROVE  Good
  <2>1. Start(p, h) /\ Goto(p, "idle", "enable_check") /\ cur' = [cur EXCEPT ![p] = h]
    BY <1>k DEF Enable
  <2>2. raced' = (raced \/ Unhooking(t))
    BY <1>k DEF Enable
  <2>3. (raced => raced') /\ raced' \in BOOLEAN
    BY <2>2 DEF Unhooking
  <2> QED
    BY <2>1, <2>3, <1>l2, <1>3
<1>m. ASSUME NEW h \in Hooks, NEW t \in Targets, NEW d \in Detours, EnableRefused(p, h, t, d)
      PROVE  Good
  BY <1>m, <1>4 DEF EnableRefused
<1> QED
  BY <1>a, <1>b, <1>c, <1>d, <1>e, <1>f, <1>g, <1>h, <1>i, <1>j, <1>k,
     <1>m DEF AdminStep

(* What a caller does leaves the map, the handlers and the objects.        *)
LEMMA CallerFrame ==
  ASSUME VInv, NEW p \in Threads, CallerStep(p)
  PROVE  /\ UNCHANGED <<activeHooks, hVeh, installed, handlers, obj, cur>>
         /\ UNCHANGED <<ops, pinned, raced>>
         /\ pc[p] \in {"idle"} \cup CallerLabels /\ pc'[p] \in {"idle"} \cup CallerLabels
         /\ \A q \in Threads \ {p} : pc'[q] = pc[q]
         /\ pc' \in [Threads -> Labels]
<1>t. TypeOK /\ pc \in [Threads -> Labels]
  BY TypeParts DEF VInv
<1> DEFINE Good == /\ UNCHANGED <<activeHooks, hVeh, installed, handlers, obj, cur>>
                   /\ UNCHANGED <<ops, pinned, raced>>
                   /\ pc[p] \in {"idle"} \cup CallerLabels /\ pc'[p] \in {"idle"} \cup CallerLabels
                   /\ \A q \in Threads \ {p} : pc'[q] = pc[q]
                   /\ pc' \in [Threads -> Labels]
<1>1. ASSUME UNCHANGED <<activeHooks, hVeh, installed, handlers, obj, cur>>, UNCHANGED history,
             NEW from \in {"idle"} \cup CallerLabels, NEW to \in {"idle"} \cup CallerLabels,
             Goto(p, from, to)
      PROVE  Good
  <2>1. to \in Labels
    BY <1>1, LabelFacts
  <2> QED
    BY <1>1, <2>1, <1>t, GotoStep DEF history
<1>l. /\ {"exec", "guard_raised", "handler"} \subseteq CallerLabels
      /\ {"step_raised", "rearm", "unhandled"} \subseteq CallerLabels
  BY DEF CallerLabels
<1> SUFFICES Good
  OBVIOUS
<1> HIDE DEF Good
<1>a. CASE Trap(p)
  BY <1>a, <1>1, <1>l DEF Trap
<1>b. CASE Execute(p)
  <2>1. PICK to \in {"step_raised", "exec"} : Goto(p, "exec", to)
    BY <1>b DEF Execute
  <2>2. to \in CallerLabels
    BY <1>l
  <2> QED
    BY <1>b, <2>1, <2>2, <1>1, <1>l DEF Execute, system
<1>c. CASE CallReturns(p)
  BY <1>c, <1>1, <1>l DEF CallReturns, system
<1>d. CASE Unhandled(p)
  <2>1. PICK from \in {"guard_raised", "step_raised"} : Goto(p, from, "unhandled")
    BY <1>d DEF Unhandled, Goto
  <2>2. from \in CallerLabels
    BY <1>l
  <2> QED
    BY <1>d, <2>1, <2>2, <1>1, <1>l DEF Unhandled, system
<1>e. CASE Dispatch(p)
  BY <1>e, <1>1, <1>l DEF Dispatch, system
<1>f. CASE HandlerRedirect(p)
  BY <1>f, <1>1, <1>l DEF HandlerRedirect, system
<1>g. CASE SingleStep(p)
  BY <1>g, <1>1, <1>l DEF SingleStep, system
<1>h. CASE Rearm(p)
  <2>1. pc[p] = "rearm" /\ pc' = pc
    BY <1>h DEF Rearm
  <2>2. Goto(p, "rearm", "rearm")
    BY <2>1, <1>t DEF Goto
  <2> QED
    BY <1>h, <2>2, <1>1, <1>l DEF Rearm
<1>i. CASE RearmEnds(p)
  <2>1. PICK to \in {"exec", "unhandled"} : Goto(p, "rearm", to)
    BY <1>i DEF RearmEnds
  <2>2. to \in CallerLabels
    BY <1>l
  <2> QED
    BY <1>i, <2>1, <2>2, <1>1, <1>l DEF RearmEnds, system
<1>j. ASSUME NEW t \in Targets, Call(p, t) PROVE Good
  BY <1>j, <1>1, <1>l DEF Call, system
<1> QED
  BY <1>a, <1>b, <1>c, <1>d, <1>e, <1>f, <1>g, <1>h, <1>i, <1>j DEF CallerStep

-----------------------------------------------------------------------------
(* What the actions of a call do to the map, the handlers, the pages and   *)
(* the object: the facts the invariants below are proved from.             *)
LEMMA EnableRefusedEffect ==
  ASSUME VInv, NEW p \in Threads, NEW h \in Hooks, NEW t \in Targets, NEW d \in Detours,
         EnableRefused(p, h, t, d)
  PROVE  /\ pc[p] = "idle" /\ (\A q \in Threads : cur[q] # h)
         /\ (Careful => ~obj[h].enabled) /\ activeHooks[t] # NULL
         /\ UNCHANGED <<activeHooks, hVeh, installed, handlers, prot, pc, cur, raced>>
         /\ obj'[h] \in Objects /\ Kept(obj'[h])
         /\ obj'[h].target = t /\ obj'[h].detour = d /\ obj'[h].enabled = obj[h].enabled
         /\ obj' \in [Hooks -> Objects] /\ \A k \in Hooks \ {h} : obj'[k] = obj[k]
<1>1. obj \in [Hooks -> Objects] /\ Kept(obj[h])
  BY TypeParts DEF VInv
<1>p. PICK a : a = Aimed(obj[h], t, d)
  OBVIOUS
<1>2. obj' = [obj EXCEPT ![h] = a]
  BY <1>p DEF Aimed, EnableRefused
<1>3. /\ a \in Objects /\ Kept(a) /\ a.target = t /\ a.detour = d
      /\ a.enabled = obj[h].enabled
  <2>1. obj[h] \in Objects
    BY <1>1
  <2> QED
    BY <2>1, <1>1, <1>p, ObjectAimed
<1>4. pc[p] = "idle" /\ (\A q \in Threads : cur[q] # h)
  BY DEF EnableRefused, Start, InUse
<1> QED
  BY <1>1, <1>2, <1>3, <1>4 DEF EnableRefused, system

(* The entry is made.                                                      *)
LEMMA EnableEffect ==
  ASSUME VInv, NEW p \in Threads, NEW h \in Hooks, NEW t \in Targets, NEW d \in Detours,
         Enable(p, h, t, d)
  PROVE  /\ pc[p] = "idle" /\ (\A q \in Threads : cur[q] # h)
         /\ (Careful => ~obj[h].enabled) /\ activeHooks[t] = NULL
         /\ UNCHANGED <<hVeh, installed, handlers, prot>>
         /\ activeHooks'[t] = d /\ (\A u \in Targets \ {t} : activeHooks'[u] = activeHooks[u])
         /\ activeHooks' \in [Targets -> Detours \cup {NULL}]
         /\ obj'[h] \in Objects /\ Kept(obj'[h])
         /\ obj'[h].target = t /\ obj'[h].detour = d /\ obj'[h].enabled = obj[h].enabled
         /\ obj' \in [Hooks -> Objects] /\ (\A k \in Hooks \ {h} : obj'[k] = obj[k])
         /\ pc'[p] = "enable_check" /\ cur'[p] = h
         /\ \A q \in Threads \ {p} : cur'[q] = cur[q] /\ pc'[q] = pc[q]
<1>1. /\ obj \in [Hooks -> Objects] /\ Kept(obj[h]) /\ TypeOK
      /\ activeHooks \in [Targets -> Detours \cup {NULL}]
  BY TypeParts DEF VInv
<1>p. PICK a : a = Aimed(obj[h], t, d)
  OBVIOUS
<1>2. obj' = [obj EXCEPT ![h] = a]
  BY <1>p DEF Aimed, Enable
<1>3. /\ a \in Objects /\ Kept(a) /\ a.target = t /\ a.detour = d
      /\ a.enabled = obj[h].enabled
  <2>1. obj[h] \in Objects
    BY <1>1
  <2> QED
    BY <2>1, <1>1, <1>p, ObjectAimed
<1>4. pc[p] = "idle" /\ (\A q \in Threads : cur[q] # h)
  BY DEF Enable, Start, InUse
<1>5. /\ obj'[h] \in Objects /\ Kept(obj'[h])
      /\ obj'[h].target = t /\ obj'[h].detour = d /\ obj'[h].enabled = obj[h].enabled
      /\ obj' \in [Hooks -> Objects] /\ (\A k \in Hooks \ {h} : obj'[k] = obj[k])
  BY <1>1, <1>2, <1>3
<1>6. activeHooks' = [activeHooks EXCEPT ![t] = d]
  BY DEF Enable
<1>7. /\ activeHooks'[t] = d /\ (\A u \in Targets \ {t} : activeHooks'[u] = activeHooks[u])
      /\ activeHooks' \in [Targets -> Detours \cup {NULL}]
  BY <1>1, <1>6
<1>8. /\ pc'[p] = "enable_check" /\ cur'[p] = h
      /\ \A q \in Threads \ {p} : cur'[q] = cur[q] /\ pc'[q] = pc[q]
  <2>1. Start(p, h) /\ Goto(p, "idle", "enable_check") /\ cur' = [cur EXCEPT ![p] = h]
    BY DEF Enable
  <2>2. "enable_check" \in AdminLabels
    BY DEF AdminLabels, EnableLabels
  <2> QED
    BY <2>1, <2>2, <1>1, BeginStep
<1> QED
  BY <1>4, <1>5, <1>7, <1>8 DEF Enable

(* The page is guarded and the call over.                                  *)
LEMMA EnableProtectEffect ==
  ASSUME VInv, NEW p \in Threads, EnableProtect(p), NEW h, h = cur[p]
  PROVE  /\ h \in Hooks /\ obj[h].target \in Targets /\ PageOfHook(h) \in Pages
         /\ pc[p] = "enable_protect" /\ pc'[p] = "idle" /\ cur'[p] = NULL
         /\ (\A q \in Threads \ {p} : cur'[q] = cur[q] /\ pc'[q] = pc[q])
         /\ UNCHANGED <<activeHooks, hVeh, installed, handlers, raced>>
         /\ prot'[PageOfHook(h)] = "GUARD" /\ prot' \in [Pages -> Protections]
         /\ (\A g \in Pages \ {PageOfHook(h)} : prot'[g] = prot[g])
         /\ obj'[h] \in Objects /\ Kept(obj'[h]) /\ obj'[h].target = obj[h].target
         /\ obj'[h].detour = obj[h].detour /\ obj'[h].enabled
         /\ obj' \in [Hooks -> Objects] /\ \A k \in Hooks \ {h} : obj'[k] = obj[k]
<1>1. /\ obj \in [Hooks -> Objects] /\ TypeOK /\ prot \in [Pages -> Protections]
      /\ pc[p] = "enable_protect"
  BY TypeParts DEF VInv, EnableProtect, Return, Goto
<1>2. h \in Hooks /\ obj[h].target # NULL
  <2>1. pc[p] \in AdminLabels
    BY <1>1 DEF AdminLabels, EnableLabels
  <2> QED
    BY <2>1 DEF VInv, CurInv
<1>3. obj[h].target \in Targets
  BY <1>1, <1>2, ObjectTyped
<1>4. PageOfHook(h) \in Pages
  BY <1>3, ConstantsAssumption DEF ConstantsAssumption, PageOfHook, Functions
<1>5. PICK g \in Pages : g = PageOfHook(h)
  BY <1>4
<1>p. PICK a : a = On(obj[h], prot[g])
  OBVIOUS
<1>6. obj' = [obj EXCEPT ![h] = a] /\ prot' = [prot EXCEPT ![g] = "GUARD"]
  BY <1>5, <1>p DEF EnableProtect, On
<1>7. /\ a \in Objects /\ Kept(a) /\ a.target = obj[h].target /\ a.detour = obj[h].detour
      /\ a.enabled
  <2>1. obj[h] \in Objects /\ prot[g] \in Protections
    BY <1>1, <1>2
  <2> QED
    BY <2>1, <1>2, <1>p, ObjectOn
<1>8. /\ obj'[h] \in Objects /\ Kept(obj'[h]) /\ obj'[h].target = obj[h].target
      /\ obj'[h].detour = obj[h].detour /\ obj'[h].enabled
      /\ obj' \in [Hooks -> Objects] /\ \A k \in Hooks \ {h} : obj'[k] = obj[k]
  BY <1>1, <1>2, <1>6, <1>7
<1>9. /\ prot'[g] = "GUARD" /\ prot' \in [Pages -> Protections]
      /\ \A x \in Pages \ {g} : prot'[x] = prot[x]
  BY <1>1, <1>6 DEF Protections
<1>10. /\ pc'[p] = "idle" /\ cur'[p] = NULL
       /\ \A q \in Threads \ {p} : cur'[q] = cur[q] /\ pc'[q] = pc[q]
  BY <1>1, ReturnStep DEF EnableProtect
<1>11. UNCHANGED <<activeHooks, hVeh, installed, handlers, raced>>
  BY DEF EnableProtect, history
<1> QED
  BY <1>1, <1>2, <1>3, <1>4, <1>5, <1>8, <1>9, <1>10, <1>11

(* The entry is erased.                                                    *)
LEMMA DisableEffect ==
  ASSUME VInv, NEW p \in Threads, NEW h \in Hooks, Disable(p, h), NEW t, t = obj[h].target
  PROVE  /\ t \in Targets /\ pc[p] = "idle" /\ (\A q \in Threads : cur[q] # h)
         /\ ~(pinned /\ h = PinHook) /\ (Careful => obj[h].enabled)
         /\ activeHooks[t] # NULL
         /\ UNCHANGED <<hVeh, installed, handlers, prot, obj>>
         /\ activeHooks'[t] = NULL /\ (\A u \in Targets \ {t} : activeHooks'[u] = activeHooks[u])
         /\ activeHooks' \in [Targets -> Detours \cup {NULL}]
         /\ pc'[p] \in {"disable_remove", "disable_protect"} /\ cur'[p] = h
         /\ (pc'[p] = "disable_remove" => \A u \in Targets \ {t} : activeHooks[u] = NULL)
         /\ \A q \in Threads \ {p} : cur'[q] = cur[q] /\ pc'[q] = pc[q]
<1>1. /\ obj \in [Hooks -> Objects] /\ TypeOK /\ activeHooks \in [Targets -> Detours \cup {NULL}]
  BY TypeParts DEF VInv
<1>2. t \in Targets
  BY <1>1, ObjectTyped DEF Disable
<1>3. pc[p] = "idle" /\ (\A q \in Threads : cur[q] # h)
  BY DEF Disable, Start, InUse
<1>4. activeHooks' = [activeHooks EXCEPT ![t] = NULL]
  BY DEF Disable
<1>5. /\ activeHooks'[t] = NULL /\ (\A u \in Targets \ {t} : activeHooks'[u] = activeHooks[u])
      /\ activeHooks' \in [Targets -> Detours \cup {NULL}]
  BY <1>1, <1>2, <1>4
<1>6. PICK to \in {"disable_remove", "disable_protect"} :
        /\ Goto(p, "idle", to)
        /\ to = "disable_remove" => \A u \in Targets \ {t} : activeHooks[u] = NULL
  BY DEF Disable
<1>7. /\ pc'[p] = to /\ cur'[p] = h
      /\ \A q \in Threads \ {p} : cur'[q] = cur[q] /\ pc'[q] = pc[q]
  <2>1. Start(p, h) /\ cur' = [cur EXCEPT ![p] = h]
    BY DEF Disable
  <2>2. to \in AdminLabels
    BY DEF AdminLabels, DisableLabels
  <2> QED
    BY <2>1, <2>2, <1>1, <1>6, BeginStep
<1> QED
  BY <1>2, <1>3, <1>5, <1>6, <1>7 DEF Disable

(* The page has its old protection back, and the call is over.             *)
LEMMA DisableProtectEffect ==
  ASSUME VInv, NEW p \in Threads, DisableProtect(p), NEW h, h = cur[p]
  PROVE  /\ h \in Hooks /\ obj[h].target \in Targets /\ PageOfHook(h) \in Pages
         /\ pc[p] = "disable_protect" /\ pc'[p] = "idle" /\ cur'[p] = NULL
         /\ (\A q \in Threads \ {p} : cur'[q] = cur[q] /\ pc'[q] = pc[q])
         /\ UNCHANGED <<activeHooks, hVeh, installed, handlers, raced>>
         /\ prot' \in [Pages -> Protections]
         /\ (\A g \in Pages \ {PageOfHook(h)} : prot'[g] = prot[g])
         /\ obj'[h] \in Objects /\ Kept(obj'[h]) /\ obj'[h].target = obj[h].target
         /\ obj'[h].detour = obj[h].detour /\ ~obj'[h].enabled
         /\ obj' \in [Hooks -> Objects] /\ \A k \in Hooks \ {h} : obj'[k] = obj[k]
<1>1. /\ obj \in [Hooks -> Objects] /\ TypeOK /\ prot \in [Pages -> Protections]
      /\ pc[p] = "disable_protect"
  BY TypeParts DEF VInv, DisableProtect, Return, Goto
<1>2. h \in Hooks /\ obj[h].target # NULL
  <2>1. pc[p] \in AdminLabels
    BY <1>1 DEF AdminLabels, DisableLabels
  <2> QED
    BY <2>1 DEF VInv, CurInv
<1>3. obj[h].target \in Targets
  BY <1>1, <1>2, ObjectTyped
<1>4. PageOfHook(h) \in Pages
  BY <1>3, ConstantsAssumption DEF ConstantsAssumption, PageOfHook, Functions
<1>5. PICK g \in Pages : g = PageOfHook(h)
  BY <1>4
<1>o. PICK a : a = Off(obj[h])
  OBVIOUS
<1>6. obj' = [obj EXCEPT ![h] = a]
  BY <1>o DEF DisableProtect, Off
<1>p. PICK old \in Protections : prot' = [prot EXCEPT ![g] = old]
  <2>1. obj[h].old \in Protections \cup {NULL}
    BY <1>1, <1>2, ObjectTyped
  <2> QED
    BY <2>1, <1>5 DEF DisableProtect
<1>7. /\ a \in Objects /\ Kept(a) /\ a.target = obj[h].target /\ a.detour = obj[h].detour
      /\ ~a.enabled
  BY <1>1, <1>2, <1>o, ObjectOff
<1>8. /\ obj'[h] \in Objects /\ Kept(obj'[h]) /\ obj'[h].target = obj[h].target
      /\ obj'[h].detour = obj[h].detour /\ ~obj'[h].enabled
      /\ obj' \in [Hooks -> Objects] /\ \A k \in Hooks \ {h} : obj'[k] = obj[k]
  BY <1>1, <1>2, <1>6, <1>7
<1>9. prot' \in [Pages -> Protections] /\ \A x \in Pages \ {g} : prot'[x] = prot[x]
  BY <1>1, <1>p
<1>10. /\ pc'[p] = "idle" /\ cur'[p] = NULL
       /\ \A q \in Threads \ {p} : cur'[q] = cur[q] /\ pc'[q] = pc[q]
  BY <1>1, ReturnStep DEF DisableProtect
<1>11. UNCHANGED <<activeHooks, hVeh, installed, handlers, raced>>
  BY DEF DisableProtect, history
<1> QED
  BY <1>1, <1>2, <1>3, <1>4, <1>5, <1>8, <1>9, <1>10, <1>11

(* The other steps of a call leave the map, the pages and the objects.     *)
Between(p) ==
  \/ EnableCheck(p) \/ EnableAdd(p) \/ EnableFlag(p) \/ EnableFails(p)
  \/ DisableRemove(p) \/ DisableRemoveFails(p) \/ DisableFlag(p) \/ DisableFails(p)
  \/ \E h \in Hooks : DisableRefused(p, h)

(* What those steps may do: go on within Enable or Disable, or return.     *)
LEMMA BetweenEffect ==
  ASSUME VInv, NEW p \in Threads, Between(p)
  PROVE  /\ UNCHANGED <<activeHooks, prot, obj, raced>>
         /\ (\A q \in Threads \ {p} : cur'[q] = cur[q] /\ pc'[q] = pc[q])
         /\ \/ pc'[p] = pc[p] /\ cur'[p] = cur[p]
            \/ pc[p] \in EnableLabels /\ pc'[p] \in EnableLabels /\ cur'[p] = cur[p]
            \/ pc[p] \in DisableLabels /\ pc'[p] \in DisableLabels /\ cur'[p] = cur[p]
            \/ /\ pc'[p] = "idle" /\ cur'[p] = NULL
               /\ \/ EnableFails(p) \/ DisableRemoveFails(p) \/ DisableFails(p)
         /\ hVeh' \in Handles \cup {NULL} /\ installed' \in BOOLEAN /\ handlers' \subseteq Handles
<1>t. /\ TypeOK /\ hVeh \in Handles \cup {NULL} /\ installed \in BOOLEAN
      /\ handlers \subseteq Handles
  BY TypeParts DEF VInv
<1> DEFINE Good ==
         /\ UNCHANGED <<activeHooks, prot, obj, raced>>
         /\ (\A q \in Threads \ {p} : cur'[q] = cur[q] /\ pc'[q] = pc[q])
         /\ \/ pc'[p] = pc[p] /\ cur'[p] = cur[p]
            \/ pc[p] \in EnableLabels /\ pc'[p] \in EnableLabels /\ cur'[p] = cur[p]
            \/ pc[p] \in DisableLabels /\ pc'[p] \in DisableLabels /\ cur'[p] = cur[p]
            \/ /\ pc'[p] = "idle" /\ cur'[p] = NULL
               /\ \/ EnableFails(p) \/ DisableRemoveFails(p) \/ DisableFails(p)
         /\ hVeh' \in Handles \cup {NULL} /\ installed' \in BOOLEAN /\ handlers' \subseteq Handles
<1> SUFFICES Good
  OBVIOUS
<1>l. /\ \A x \in {"enable_check", "enable_add", "enable_flag", "enable_protect"} :
           x \in EnableLabels /\ x \in Labels
      /\ \A x \in {"disable_remove", "disable_flag", "disable_protect"} :
           x \in DisableLabels /\ x \in Labels
  BY DEF Labels, AdminLabels, EnableLabels, DisableLabels
<1>1. ASSUME UNCHANGED <<activeHooks, prot, obj, cur>>, UNCHANGED history,
             hVeh' \in Handles \cup {NULL}, installed' \in BOOLEAN, handlers' \subseteq Handles,
             NEW from, NEW to,
             (from \in EnableLabels /\ to \in EnableLabels)
               \/ (from \in DisableLabels /\ to \in DisableLabels),
             to \in Labels, Goto(p, from, to)
      PROVE  Good
  BY <1>1, <1>t, GotoStep DEF history
<1>2. ASSUME UNCHANGED system, UNCHANGED obj, UNCHANGED history, NEW from, Return(p, from),
             EnableFails(p) \/ DisableRemoveFails(p) \/ DisableFails(p)
      PROVE  Good
  BY <1>2, <1>t, ReturnStep DEF history, system
<1> HIDE DEF Good
<1>a. CASE EnableCheck(p)
  <2>1. PICK to \in {"enable_protect", "enable_add"} : Goto(p, "enable_check", to)
    BY <1>a DEF EnableCheck
  <2> QED
    BY <1>a, <2>1, <1>1, <1>l, <1>t DEF EnableCheck, system
<1>b. CASE EnableAdd(p)
  BY <1>b, <1>1, <1>l, <1>t DEF EnableAdd
<1>c. CASE EnableFlag(p)
  BY <1>c, <1>1, <1>l, <1>t DEF EnableFlag
<1>d. CASE EnableFails(p)
  BY <1>d, <1>2 DEF EnableFails
<1>e. CASE DisableRemove(p)
  BY <1>e, <1>1, <1>l, <1>t DEF DisableRemove
<1>f. CASE DisableRemoveFails(p)
  BY <1>f, <1>2 DEF DisableRemoveFails
<1>g. CASE DisableFlag(p)
  BY <1>g, <1>1, <1>l, <1>t DEF DisableFlag
<1>h. CASE DisableFails(p)
  BY <1>h, <1>2 DEF DisableFails
<1>i. ASSUME NEW h \in Hooks, DisableRefused(p, h) PROVE Good
  BY <1>i, <1>t DEF DisableRefused, Good, system
<1> QED
  BY <1>a, <1>b, <1>c, <1>d, <1>e, <1>f, <1>g, <1>h, <1>i DEF Between

(* Every step of a call is one of these.                                   *)
LEMMA AdminCases ==
  ASSUME NEW p, AdminStep(p)
  PROVE  \/ Between(p) \/ EnableProtect(p) \/ DisableProtect(p)
         \/ \E h \in Hooks : \/ Disable(p, h)
                             \/ \E t \in Targets, d \in Detours :
                                  Enable(p, h, t, d) \/ EnableRefused(p, h, t, d)
BY Zenon DEF AdminStep, Between

-----------------------------------------------------------------------------
(* A place of its type, and the place HandlerRedirect sends a thread to.   *)
LEMMA PlaceFacts ==
  /\ \A i \in Places : i.fn \in Functions \cup {NULL} /\ i.entry \in BOOLEAN
  /\ \A f \in Functions \cup {NULL}, e \in BOOLEAN :
       /\ [fn |-> f, entry |-> e] \in Places
       /\ [fn |-> f, entry |-> e].fn = f /\ [fn |-> f, entry |-> e].entry = e
  /\ \A i \in Places : /\ [i EXCEPT !.entry = FALSE] \in Places
                       /\ [i EXCEPT !.entry = FALSE].fn = i.fn
                       /\ ~[i EXCEPT !.entry = FALSE].entry
  /\ Nowhere \in Places /\ Nowhere.fn = NULL /\ ~Nowhere.entry
BY DEF Places, Nowhere

(* The page every function is on is one.                                   *)
LEMMA PageFacts == \A f \in Functions : PageOf[f] \in Pages
BY ConstantsAssumption DEF ConstantsAssumption

(* The caller's steps: where it is, what it does to the pages, and to its  *)
(* processor.                                                              *)
LEMMA TrapEffect ==
  ASSUME VInv, NEW p \in Threads, Trap(p)
  PROVE  /\ pc[p] = "exec" /\ pc'[p] = "guard_raised" /\ ip[p].fn \in Functions
         /\ prot' \in [Pages -> Protections] /\ UNCHANGED <<ip, tf, todo>>
<1>1. /\ TypeOK /\ prot \in [Pages -> Protections] /\ ip[p] \in Places
  BY TypeParts DEF VInv
<1>2. ip[p].fn \in Functions
  BY <1>1, PlaceFacts DEF Trap, Guarded
<1>3. prot' \in [Pages -> Protections]
  BY <1>1 DEF Trap, Protections
<1>4. "guard_raised" \in Labels
  BY DEF Labels, CallerLabels
<1> QED
  BY <1>1, <1>2, <1>3, <1>4, GotoStep DEF Trap, cpu

(* An instruction: the flag is cleared, and the thread leaves the entry.   *)
LEMMA ExecuteEffect ==
  ASSUME VInv, NEW p \in Threads, Execute(p)
  PROVE  /\ pc[p] = "exec" /\ pc'[p] = IF tf[p] THEN "step_raised" ELSE "exec"
         /\ ip[p].fn \in Functions /\ prot[PageOf[ip[p].fn]] # "GUARD"
         /\ UNCHANGED <<prot, todo>>
         /\ ip' \in [Threads -> Places] /\ tf' \in [Threads -> BOOLEAN]
         /\ ~tf'[p] /\ \A q \in Threads \ {p} : tf'[q] = tf[q] /\ ip'[q] = ip[q]
<1>1. /\ TypeOK /\ ip \in [Threads -> Places] /\ tf \in [Threads -> BOOLEAN]
  BY TypeParts DEF VInv
<1>2. ip[p].fn \in Functions
  BY <1>1, PlaceFacts DEF Execute
<1>3. PICK i \in Places : ip' = [ip EXCEPT ![p] = i]
  BY <1>1, PlaceFacts DEF Execute
<1>4. tf' = [tf EXCEPT ![p] = FALSE]
  BY DEF Execute
<1>5. PICK to \in {"step_raised", "exec"} : to = IF tf[p] THEN "step_raised" ELSE "exec"
  OBVIOUS
<1>6. to \in Labels
  BY DEF Labels, CallerLabels
<1>7. pc[p] = "exec" /\ pc'[p] = to
  BY <1>1, <1>5, <1>6, GotoStep DEF Execute
<1>8. /\ ip' \in [Threads -> Places] /\ tf' \in [Threads -> BOOLEAN]
      /\ ~tf'[p] /\ \A q \in Threads \ {p} : tf'[q] = tf[q] /\ ip'[q] = ip[q]
  BY <1>1, <1>3, <1>4
<1>9. prot[PageOf[ip[p].fn]] # "GUARD"
  BY DEF Execute, Guarded
<1> QED
  BY <1>2, <1>5, <1>7, <1>8, <1>9 DEF Execute, system

(* The handler: the flag is set, and the thread is redirected if it is at  *)
(* a target of the map.                                                    *)
LEMMA RedirectEffect ==
  ASSUME VInv, NEW p \in Threads, HandlerRedirect(p)
  PROVE  /\ pc[p] = "handler" /\ pc'[p] = "exec" /\ UNCHANGED <<prot, todo>>
         /\ ip' \in [Threads -> Places] /\ tf' \in [Threads -> BOOLEAN]
         /\ tf'[p] /\ (\A q \in Threads \ {p} : tf'[q] = tf[q] /\ ip'[q] = ip[q])
         /\ \/ ip'[p] = ip[p] /\ ~(/\ ip[p].entry /\ ip[p].fn \in Targets
                                   /\ activeHooks[ip[p].fn] # NULL)
            \/ ip'[p].fn \in Detours
<1>1. /\ TypeOK /\ ip \in [Threads -> Places] /\ tf \in [Threads -> BOOLEAN]
      /\ activeHooks \in [Targets -> Detours \cup {NULL}]
  BY TypeParts DEF VInv
<1> DEFINE At == ip[p].entry /\ ip[p].fn \in Targets /\ activeHooks[ip[p].fn] # NULL
<1>2. PICK i \in Places : /\ ip' = [ip EXCEPT ![p] = i]
                          /\ (i = ip[p] /\ ~At) \/ i.fn \in Detours
  <2>1. CASE At
    <3>1. activeHooks[ip[p].fn] \in Detours
      BY <1>1, <2>1
    <3>2. PICK d \in Detours : d = activeHooks[ip[p].fn]
      BY <3>1
    <3>3. PICK i : i = [fn |-> d, entry |-> TRUE]
      OBVIOUS
    <3>4. i \in Places /\ i.fn = d
      BY <3>3, PlaceFacts DEF Functions
    <3>5. ip' = [ip EXCEPT ![p] = i]
      BY <2>1, <3>2, <3>3 DEF HandlerRedirect
    <3> QED
      BY <3>4, <3>5
  <2>2. CASE ~At
    <3>1. ip' = [ip EXCEPT ![p] = ip[p]]
      BY <2>2 DEF HandlerRedirect
    <3>2. ip[p] \in Places
      BY <1>1
    <3> QED
      BY <2>2, <3>1, <3>2
  <2> QED
    BY <2>1, <2>2
<1> HIDE DEF At
<1>3. /\ ip' \in [Threads -> Places] /\ ip'[p] = i
      /\ \A q \in Threads \ {p} : ip'[q] = ip[q]
  BY <1>1, <1>2
<1>4. tf' = [tf EXCEPT ![p] = TRUE]
  BY DEF HandlerRedirect
<1>5. tf' \in [Threads -> BOOLEAN] /\ tf'[p] /\ \A q \in Threads \ {p} : tf'[q] = tf[q]
  BY <1>1, <1>4
<1>6. pc[p] = "handler" /\ pc'[p] = "exec"
  <2>1. "exec" \in Labels
    BY DEF Labels, CallerLabels
  <2> QED
    BY <2>1, <1>1, GotoStep DEF HandlerRedirect
<1> QED
  BY <1>2, <1>3, <1>5, <1>6 DEF HandlerRedirect, system, At

(* The single step: everything in the map is to be visited.                *)
LEMMA SingleStepEffect ==
  ASSUME VInv, NEW p \in Threads, SingleStep(p)
  PROVE  /\ pc[p] = "step_raised" /\ pc'[p] = "rearm" /\ UNCHANGED <<prot, ip, tf>>
         /\ todo' \in [Threads -> SUBSET Targets]
         /\ todo'[p] = {t \in Targets : activeHooks[t] # NULL}
         /\ \A q \in Threads \ {p} : todo'[q] = todo[q]
<1>1. TypeOK /\ todo \in [Threads -> SUBSET Targets]
  BY TypeParts DEF VInv
<1>2. todo' = [todo EXCEPT ![p] = {t \in Targets : activeHooks[t] # NULL}]
  BY DEF SingleStep
<1>3. /\ todo' \in [Threads -> SUBSET Targets]
      /\ todo'[p] = {t \in Targets : activeHooks[t] # NULL}
      /\ \A q \in Threads \ {p} : todo'[q] = todo[q]
  BY <1>1, <1>2
<1>4. "rearm" \in Labels
  BY DEF Labels, CallerLabels
<1> QED
  BY <1>1, <1>3, <1>4, GotoStep DEF SingleStep, system

(* One entry is visited: its page is guarded, unless VirtualProtect fails. *)
LEMMA RearmEffect ==
  ASSUME VInv, NEW p \in Threads, Rearm(p)
  PROVE  \E t \in todo[p] :
           /\ t \in Targets /\ PageOf[t] \in Pages
           /\ pc[p] = "rearm" /\ pc' = pc /\ UNCHANGED <<ip, tf>>
           /\ todo' \in [Threads -> SUBSET Targets] /\ todo'[p] = todo[p] \ {t}
           /\ (\A q \in Threads \ {p} : todo'[q] = todo[q])
           /\ prot' \in [Pages -> Protections]
           /\ (\A g \in Pages \ {PageOf[t]} : prot'[g] = prot[g])
           /\ prot'[PageOf[t]] = "GUARD" \/ (PageOf[t] \in Fallible /\ prot' = prot)
<1>1. /\ TypeOK /\ todo \in [Threads -> SUBSET Targets] /\ prot \in [Pages -> Protections]
  BY TypeParts DEF VInv
<1>2. PICK t \in todo[p] :
        /\ pc[p] = "rearm" /\ pc' = pc /\ UNCHANGED <<ip, tf>>
        /\ todo' = [todo EXCEPT ![p] = @ \ {t}]
        /\ \/ prot' = [prot EXCEPT ![PageOf[t]] = "GUARD"]
           \/ PageOf[t] \in Fallible /\ UNCHANGED prot
  BY DEF Rearm
<1>3. t \in Targets
  BY <1>1
<1>4. PageOf[t] \in Pages
  BY <1>3, PageFacts DEF Functions
<1>5. /\ todo' \in [Threads -> SUBSET Targets] /\ todo'[p] = todo[p] \ {t}
      /\ (\A q \in Threads \ {p} : todo'[q] = todo[q])
  BY <1>1, <1>2
<1>6. /\ prot' \in [Pages -> Protections]
      /\ (\A g \in Pages \ {PageOf[t]} : prot'[g] = prot[g])
      /\ prot'[PageOf[t]] = "GUARD" \/ (PageOf[t] \in Fallible /\ prot' = prot)
  BY <1>1, <1>2, <1>4 DEF Protections
<1> QED
  BY <1>2, <1>3, <1>4, <1>5, <1>6

(* The end of the loop.                                                    *)
LEMMA RearmEndsEffect ==
  ASSUME VInv, NEW p \in Threads, RearmEnds(p)
  PROVE  /\ pc[p] = "rearm" /\ pc'[p] \in {"exec", "unhandled"} /\ UNCHANGED <<prot, ip, tf>>
         /\ todo' \in [Threads -> SUBSET Targets] /\ todo'[p] = {}
         /\ (\A q \in Threads \ {p} : todo'[q] = todo[q])
         /\ \/ todo[p] = {} /\ pc'[p] = "exec"
            \/ \E t \in todo[p] : activeHooks[t] = NULL
<1>1. TypeOK /\ todo \in [Threads -> SUBSET Targets]
  BY TypeParts DEF VInv
<1>2. todo' = [todo EXCEPT ![p] = {}]
  BY DEF RearmEnds
<1>3. /\ todo' \in [Threads -> SUBSET Targets] /\ todo'[p] = {}
      /\ \A q \in Threads \ {p} : todo'[q] = todo[q]
  BY <1>1, <1>2
<1>4. PICK to \in {"exec", "unhandled"} :
        /\ Goto(p, "rearm", to)
        /\ (todo[p] = {} /\ to = "exec") \/ \E t \in todo[p] : activeHooks[t] = NULL
  BY DEF RearmEnds
<1>5. to \in Labels
  BY DEF Labels, CallerLabels
<1>6. pc[p] = "rearm" /\ pc'[p] = to
  BY <1>1, <1>4, <1>5, GotoStep
<1> QED
  BY <1>3, <1>4, <1>6 DEF RearmEnds, system

(* A call begins.                                                          *)
LEMMA CallEffect ==
  ASSUME VInv, NEW p \in Threads, NEW t \in Targets, Call(p, t)
  PROVE  /\ pc[p] = "idle" /\ pc'[p] = "exec" /\ UNCHANGED <<prot, tf, todo>>
         /\ ip' \in [Threads -> Places] /\ ip'[p].fn = t /\ ip'[p].entry
         /\ \A q \in Threads \ {p} : ip'[q] = ip[q]
<1>1. TypeOK /\ ip \in [Threads -> Places]
  BY TypeParts DEF VInv
<1>2. PICK i : i = [fn |-> t, entry |-> TRUE]
  OBVIOUS
<1>3. i \in Places /\ i.fn = t /\ i.entry
  BY <1>2, PlaceFacts DEF Functions
<1>4. ip' = [ip EXCEPT ![p] = i]
  BY <1>2 DEF Call
<1>5. /\ ip' \in [Threads -> Places] /\ ip'[p].fn = t /\ ip'[p].entry
      /\ \A q \in Threads \ {p} : ip'[q] = ip[q]
  BY <1>1, <1>3, <1>4
<1>6. "exec" \in Labels
  BY DEF Labels, CallerLabels
<1> QED
  BY <1>1, <1>5, <1>6, GotoStep DEF Call, system

(* The other steps.                                                        *)
Passing(p) == CallReturns(p) \/ Unhandled(p) \/ Dispatch(p)

(* They only change where the caller is.                                   *)
LEMMA PassingEffect ==
  ASSUME VInv, NEW p \in Threads, Passing(p)
  PROVE  /\ UNCHANGED <<prot, ip, tf, todo>>
         /\ \/ pc[p] = "exec" /\ pc'[p] = "idle" /\ ip[p].fn = NULL
            \/ /\ pc[p] \in {"guard_raised", "step_raised"} /\ pc'[p] = "unhandled"
               /\ handlers = {}
            \/ pc[p] = "guard_raised" /\ pc'[p] = "handler"
<1>1. TypeOK /\ pc \in [Threads -> Labels]
  BY TypeParts DEF VInv
<1>2. "idle" \in Labels /\ "handler" \in Labels
  BY DEF Labels, CallerLabels
<1>3. CASE CallReturns(p)
  BY <1>1, <1>2, <1>3, GotoStep DEF CallReturns, system, cpu
<1>4. CASE Unhandled(p)
  BY <1>1, <1>4 DEF Unhandled, system, cpu
<1>5. CASE Dispatch(p)
  BY <1>1, <1>2, <1>5, GotoStep DEF Dispatch, system, cpu
<1> QED
  BY <1>3, <1>4, <1>5 DEF Passing

(* Every step of a caller is one of these.                                 *)
LEMMA CallerCases ==
  ASSUME NEW p, CallerStep(p)
  PROVE  \/ Passing(p) \/ Trap(p) \/ Execute(p) \/ HandlerRedirect(p) \/ SingleStep(p)
         \/ Rearm(p) \/ RearmEnds(p) \/ \E t \in Targets : Call(p, t)
BY Zenon DEF CallerStep, Passing

-----------------------------------------------------------------------------
(* A step of Enable or Disable keeps the types.                            *)
LEMMA AdminTypes ==
  ASSUME VInv, NEW p \in Threads, AdminStep(p)
  PROVE  TypeOK'
<1>t. /\ TypeOK
      /\ activeHooks \in [Targets -> Detours \cup {NULL}]
      /\ hVeh \in Handles \cup {NULL} /\ installed \in BOOLEAN /\ handlers \subseteq Handles
      /\ prot \in [Pages -> Protections]
      /\ obj \in [Hooks -> Objects] /\ \A h \in Hooks : Kept(obj[h])
      /\ ip \in [Threads -> Places] /\ tf \in [Threads -> BOOLEAN]
      /\ todo \in [Threads -> SUBSET Targets] /\ pinned \in BOOLEAN
  BY TypeParts DEF VInv
<1>f. /\ UNCHANGED <<ip, tf, todo, pinned>> /\ ops' \in Nat /\ raced' \in BOOLEAN
      /\ pc' \in [Threads -> Labels] /\ cur' \in [Threads -> Hooks \cup {NULL}]
  BY AdminFrame
<1>p. SUFFICES MapTypes'
  BY <1>t, <1>f, TypeWholeNext DEF RunTypes
<1>1. CASE Between(p)
  BY <1>1, <1>t, BetweenEffect DEF MapTypes
<1>2. CASE EnableProtect(p)
  <2>1. PICK h : h = cur[p]
    OBVIOUS
  <2> QED
    BY <1>2, <2>1, <1>t, EnableProtectEffect DEF MapTypes
<1>3. CASE DisableProtect(p)
  <2>1. PICK h : h = cur[p]
    OBVIOUS
  <2> QED
    BY <1>3, <2>1, <1>t, DisableProtectEffect DEF MapTypes
<1>4. ASSUME NEW h \in Hooks, Disable(p, h) PROVE MapTypes'
  <2>1. PICK t : t = obj[h].target
    OBVIOUS
  <2> QED
    BY <1>4, <2>1, <1>t, DisableEffect DEF MapTypes
<1>5. ASSUME NEW h \in Hooks, NEW t \in Targets, NEW d \in Detours, Enable(p, h, t, d)
      PROVE  MapTypes'
  BY <1>5, <1>t, EnableEffect DEF MapTypes
<1>6. ASSUME NEW h \in Hooks, NEW t \in Targets, NEW d \in Detours, EnableRefused(p, h, t, d)
      PROVE  MapTypes'
  BY <1>6, <1>t, EnableRefusedEffect DEF MapTypes
<1> QED
  BY <1>1, <1>2, <1>3, <1>4, <1>5, <1>6, AdminCases

(* A step of a caller keeps the types.                                     *)
LEMMA CallerTypes ==
  ASSUME VInv, NEW p \in Threads, CallerStep(p)
  PROVE  TypeOK'
<1>t. /\ TypeOK
      /\ activeHooks \in [Targets -> Detours \cup {NULL}]
      /\ hVeh \in Handles \cup {NULL} /\ installed \in BOOLEAN /\ handlers \subseteq Handles
      /\ prot \in [Pages -> Protections]
      /\ obj \in [Hooks -> Objects] /\ \A h \in Hooks : Kept(obj[h])
      /\ cur \in [Threads -> Hooks \cup {NULL}]
      /\ ip \in [Threads -> Places] /\ tf \in [Threads -> BOOLEAN]
      /\ todo \in [Threads -> SUBSET Targets] /\ pinned \in BOOLEAN
      /\ ops \in Nat /\ raced \in BOOLEAN
  BY TypeParts DEF VInv
<1>f. /\ UNCHANGED <<activeHooks, hVeh, installed, handlers, obj, cur>>
      /\ UNCHANGED <<ops, pinned, raced>> /\ pc' \in [Threads -> Labels]
  BY CallerFrame
<1>p. SUFFICES /\ prot' \in [Pages -> Protections] /\ ip' \in [Threads -> Places]
               /\ tf' \in [Threads -> BOOLEAN] /\ todo' \in [Threads -> SUBSET Targets]
  <2>1. MapTypes'
    BY <1>t, <1>f DEF MapTypes
  <2>2. RunTypes'
    BY <1>t, <1>f DEF RunTypes
  <2> QED
    BY <2>1, <2>2, TypeWholeNext
<1>1. CASE Passing(p) \/ Trap(p)
  BY <1>1, <1>t, PassingEffect, TrapEffect
<1>2. CASE Execute(p)
  BY <1>2, <1>t, ExecuteEffect
<1>3. CASE HandlerRedirect(p)
  BY <1>3, <1>t, RedirectEffect
<1>4. CASE SingleStep(p)
  BY <1>4, <1>t, SingleStepEffect
<1>5. CASE Rearm(p)
  BY <1>5, <1>t, RearmEffect
<1>6. CASE RearmEnds(p)
  BY <1>6, <1>t, RearmEndsEffect
<1>7. ASSUME NEW t \in Targets, Call(p, t)
      PROVE  /\ prot' \in [Pages -> Protections] /\ ip' \in [Threads -> Places]
             /\ tf' \in [Threads -> BOOLEAN] /\ todo' \in [Threads -> SUBSET Targets]
  BY <1>7, <1>t, CallEffect
<1> QED
  BY <1>1, <1>2, <1>3, <1>4, <1>5, <1>6, <1>7, CallerCases

(* A step of Enable or Disable keeps its object to itself.                 *)
LEMMA AdminCur ==
  ASSUME VInv, NEW p \in Threads, AdminStep(p)
  PROVE  CurInv'
<1>t. NULL \notin Hooks /\ NULL \notin Targets
  BY ConstantsAssumption DEF ConstantsAssumption, Functions
<1>c. /\ \A q \in Threads : IF pc[q] \in AdminLabels
                              THEN cur[q] \in Hooks /\ obj[cur[q]].target # NULL
                              ELSE cur[q] = NULL
      /\ \A q, r \in Threads : cur[q] = cur[r] /\ cur[q] # NULL => q = r
  BY DEF VInv, CurInv
<1>l. /\ EnableLabels \cup DisableLabels = AdminLabels /\ "idle" \notin AdminLabels
      /\ "enable_check" \in AdminLabels
      /\ "disable_remove" \in AdminLabels /\ "disable_protect" \in AdminLabels
      /\ "enable_protect" \in AdminLabels
  BY DEF AdminLabels, EnableLabels, DisableLabels
(* The objects of the other calls keep their targets, and p's is its own.  *)
<1>s. SUFFICES ASSUME \/ /\ pc'[p] \in AdminLabels /\ cur'[p] \in Hooks
                         /\ obj'[cur'[p]].target # NULL
                         /\ \A q \in Threads \ {p} : cur[q] # cur'[p]
                      \/ pc'[p] \notin AdminLabels /\ cur'[p] = NULL,
                      \A q \in Threads \ {p} : cur'[q] = cur[q] /\ pc'[q] = pc[q],
                      \A q \in Threads \ {p} : cur[q] \in Hooks =>
                        obj'[cur[q]].target = obj[cur[q]].target
               PROVE  CurInv'
  <2> DEFINE Ends == pc'[p] \notin AdminLabels /\ cur'[p] = NULL
             Goes == /\ pc'[p] \in AdminLabels /\ cur'[p] \in Hooks
                     /\ obj'[cur'[p]].target # NULL
                     /\ \A q \in Threads \ {p} : cur[q] # cur'[p]
             Rest == \A q \in Threads \ {p} : cur'[q] = cur[q] /\ pc'[q] = pc[q]
             Same == \A q \in Threads \ {p} : cur[q] \in Hooks =>
                        obj'[cur[q]].target = obj[cur[q]].target
  <2> SUFFICES (Goes \/ Ends) /\ Rest /\ Same
    OBVIOUS
  <2>1. CASE Between(p)
    <3>1. UNCHANGED obj /\ Rest /\ Same
      BY <2>1, BetweenEffect
    <3>2. CASE pc'[p] = pc[p] /\ cur'[p] = cur[p]
      <4>1. CASE pc[p] \in AdminLabels
        BY <3>1, <3>2, <4>1, <1>c, <1>t
      <4>2. CASE pc[p] \notin AdminLabels
        BY <3>1, <3>2, <4>2, <1>c
      <4> QED
        BY <4>1, <4>2
    <3>3. CASE pc[p] \in AdminLabels /\ pc'[p] \in AdminLabels /\ cur'[p] = cur[p]
      BY <3>1, <3>3, <1>c, <1>t
    <3>4. CASE pc'[p] = "idle" /\ cur'[p] = NULL
      BY <3>1, <3>4, <1>l
    <3> QED
      BY <2>1, <3>2, <3>3, <3>4, <1>l, BetweenEffect
  <2>2. CASE EnableProtect(p) \/ DisableProtect(p)
    <3>1. PICK h : h = cur[p]
      OBVIOUS
    <3>2. /\ pc'[p] = "idle" /\ cur'[p] = NULL /\ Rest /\ h \in Hooks
          /\ obj'[h].target = obj[h].target /\ \A k \in Hooks \ {h} : obj'[k] = obj[k]
      BY <2>2, <3>1, EnableProtectEffect, DisableProtectEffect
    <3>3. Same
      BY <3>2
    <3> QED
      BY <3>2, <3>3, <1>l
  <2>3. ASSUME NEW h \in Hooks, Disable(p, h) PROVE (Goes \/ Ends) /\ Rest /\ Same
    <3>1. PICK t : t = obj[h].target
      OBVIOUS
    <3>2. /\ t \in Targets /\ UNCHANGED obj /\ Rest /\ cur'[p] = h
          /\ pc'[p] \in {"disable_remove", "disable_protect"}
          /\ \A q \in Threads : cur[q] # h
      BY <2>3, <3>1, DisableEffect
    <3> QED
      BY <3>1, <3>2, <1>l, <1>t
  <2>4. ASSUME NEW h \in Hooks, NEW t \in Targets, NEW d \in Detours, Enable(p, h, t, d)
        PROVE  (Goes \/ Ends) /\ Rest /\ Same
    <3>1. /\ Rest /\ cur'[p] = h /\ pc'[p] = "enable_check" /\ obj'[h].target = t
          /\ (\A q \in Threads : cur[q] # h) /\ \A k \in Hooks \ {h} : obj'[k] = obj[k]
      BY <2>4, EnableEffect
    <3>2. Same
      BY <3>1
    <3> QED
      BY <3>1, <3>2, <1>l, <1>t
  <2>5. ASSUME NEW h \in Hooks, NEW t \in Targets, NEW d \in Detours, EnableRefused(p, h, t, d)
        PROVE  (Goes \/ Ends) /\ Rest /\ Same
    <3>1. /\ Rest /\ pc'[p] = "idle" /\ cur'[p] = cur[p] /\ pc[p] = "idle"
          /\ (\A q \in Threads : cur[q] # h) /\ \A k \in Hooks \ {h} : obj'[k] = obj[k]
      BY <2>5, EnableRefusedEffect
    <3>2. Same
      BY <3>1
    <3> QED
      BY <3>1, <3>2, <1>l, <1>c
  <2> QED
    BY <2>1, <2>2, <2>3, <2>4, <2>5, AdminCases
<1>1. \A q \in Threads : IF pc'[q] \in AdminLabels
                           THEN cur'[q] \in Hooks /\ obj'[cur'[q]].target # NULL
                           ELSE cur'[q] = NULL
  <2> SUFFICES ASSUME NEW q \in Threads
               PROVE  IF pc'[q] \in AdminLabels
                        THEN cur'[q] \in Hooks /\ obj'[cur'[q]].target # NULL
                        ELSE cur'[q] = NULL
    OBVIOUS
  <2>1. CASE q = p
    BY <2>1, <1>s
  <2>2. CASE q # p
    BY <2>2, <1>s, <1>c
  <2> QED
    BY <2>1, <2>2
<1>2. \A q, r \in Threads : cur'[q] = cur'[r] /\ cur'[q] # NULL => q = r
  BY <1>s, <1>c
<1> QED
  BY <1>1, <1>2 DEF CurInv

(* A step of a caller has no object.                                       *)
LEMMA CallerCur ==
  ASSUME VInv, NEW p \in Threads, CallerStep(p)
  PROVE  CurInv'
<1>1. /\ obj' = obj /\ cur' = cur /\ pc[p] \notin AdminLabels /\ pc'[p] \notin AdminLabels
      /\ \A q \in Threads \ {p} : pc'[q] = pc[q]
  BY CallerFrame, LabelFacts
<1>2. \A q \in Threads : pc'[q] \in AdminLabels <=> pc[q] \in AdminLabels
  BY <1>1
<1> QED
  BY <1>1, <1>2 DEF VInv, CurInv

(* Enable and Disable are no caller's steps.                               *)
LEMMA AdminCpu ==
  ASSUME VInv, NEW p \in Threads, AdminStep(p)
  PROVE  CpuInv'
<1>1. /\ ip' = ip /\ tf' = tf /\ pc[p] \in {"idle"} \cup AdminLabels
      /\ pc'[p] \in {"idle"} \cup AdminLabels /\ \A q \in Threads \ {p} : pc'[q] = pc[q]
  BY AdminFrame
<1>2. \A x \in {"idle"} \cup AdminLabels : x \notin {"exec", "guard_raised", "handler", "unhandled"}
  BY DEF AdminLabels, EnableLabels, DisableLabels
<1>3. ~tf[p] /\ ~tf'[p]
  BY <1>1, <1>2 DEF VInv, CpuInv
<1> SUFFICES ASSUME NEW q \in Threads
             PROVE  /\ tf'[q] => pc'[q] \in {"exec", "guard_raised", "handler", "unhandled"}
                    /\ tf'[q] \/ pc'[q] \in {"guard_raised", "handler"} => ip'[q].fn # NULL
  BY DEF CpuInv
<1>4. CASE q = p
  BY <1>1, <1>2, <1>3, <1>4
<1>5. CASE q # p
  BY <1>1, <1>5 DEF VInv, CpuInv
<1> QED
  BY <1>4, <1>5

(* A caller that steps over an instruction has one.                        *)
LEMMA CallerCpu ==
  ASSUME VInv, NEW p \in Threads, CallerStep(p)
  PROVE  CpuInv'
<1>t. NULL \notin Targets /\ NULL \notin Detours /\ NULL \notin Functions
  BY ConstantsAssumption DEF ConstantsAssumption, Functions
<1>c. \A q \in Threads :
        /\ tf[q] => pc[q] \in {"exec", "guard_raised", "handler", "unhandled"}
        /\ tf[q] \/ pc[q] \in {"guard_raised", "handler"} => ip[q].fn # NULL
  BY DEF VInv, CpuInv
<1>f. \A q \in Threads \ {p} : pc'[q] = pc[q]
  BY CallerFrame
<1> DEFINE Here == /\ tf'[p] => pc'[p] \in {"exec", "guard_raised", "handler", "unhandled"}
                   /\ tf'[p] \/ pc'[p] \in {"guard_raised", "handler"} => ip'[p].fn # NULL
           Rest == \A q \in Threads \ {p} : tf'[q] = tf[q] /\ ip'[q] = ip[q]
<1>s. SUFFICES Here /\ Rest
  <2> SUFFICES ASSUME Here, Rest, NEW q \in Threads
               PROVE  /\ tf'[q] => pc'[q] \in {"exec", "guard_raised", "handler", "unhandled"}
                      /\ tf'[q] \/ pc'[q] \in {"guard_raised", "handler"} => ip'[q].fn # NULL
    BY DEF CpuInv
  <2>1. CASE q = p
    BY <2>1
  <2>2. CASE q # p
    BY <2>2, <1>c, <1>f
  <2> QED
    BY <2>1, <2>2
<1>1. CASE Passing(p)
  BY <1>1, <1>c, PassingEffect
<1>2. CASE Trap(p)
  BY <1>2, <1>c, <1>t, TrapEffect
<1>3. CASE Execute(p)
  BY <1>3, ExecuteEffect
<1>4. CASE HandlerRedirect(p)
  BY <1>4, <1>c, <1>t, RedirectEffect
<1>5. CASE SingleStep(p)
  BY <1>5, <1>c, SingleStepEffect
<1>6. CASE Rearm(p)
  BY <1>6, <1>c, RearmEffect
<1>7. CASE RearmEnds(p)
  BY <1>7, <1>c, RearmEndsEffect
<1>8. ASSUME NEW t \in Targets, Call(p, t) PROVE Here /\ Rest
  BY <1>8, <1>c, <1>t, CallEffect
<1> QED
  BY <1>1, <1>2, <1>3, <1>4, <1>5, <1>6, <1>7, <1>8, CallerCases

(* The first part of the invariant holds of every behaviour.               *)
LEMMA VInvStep == VInv /\ [Next]_vars => VInv'
<1> SUFFICES ASSUME VInv, [Next]_vars PROVE VInv'
  OBVIOUS
<1>1. ASSUME NEW p \in Admins, AdminStep(p) PROVE VInv'
  <2>1. p \in Threads
    BY DEF Threads
  <2> QED
    BY <2>1, <1>1, AdminTypes, AdminCur, AdminCpu DEF VInv
<1>2. ASSUME NEW p \in Callers, CallerStep(p) PROVE VInv'
  <2>1. p \in Threads
    BY DEF Threads
  <2> QED
    BY <2>1, <1>2, CallerTypes, CallerCur, CallerCpu DEF VInv
<1>3. CASE UNCHANGED vars
  <2>1. /\ UNCHANGED <<activeHooks, hVeh, installed, handlers, prot, obj, pc, cur>>
        /\ UNCHANGED <<ip, tf, todo, ops, pinned, raced>>
    BY <1>3 DEF vars, system, cpu, history
  <2>2. TypeOK'
    BY <2>1 DEF VInv, TypeOK
  <2>3. CurInv' /\ CpuInv'
    BY <2>1 DEF VInv, CurInv, CpuInv
  <2> QED
    BY <2>2, <2>3 DEF VInv
<1> QED
  BY <1>1, <1>2, <1>3 DEF Next

(* Every variable has its type: VirtualProtect only ever gets protections  *)
(* that it, or the compiler, put there, whatever the clients do.           *)
THEOREM TypeCorrect == Spec => []TypeOK
<1>1. VInv => TypeOK
  BY DEF VInv
<1> QED
  BY <1>1, InitVInv, VInvStep, PTL DEF Spec

-----------------------------------------------------------------------------
(* Targets have pages of their own.                                        *)
OwnPages == \A t, u \in Targets : PageOf[t] = PageOf[u] => t = u

(* Who is enabling and disabling what, before and after a step of p.       *)
LEMMA Roles ==
  ASSUME VInv, VInv', NEW p \in Threads,
         \A q \in Threads \ {p} : cur'[q] = cur[q] /\ pc'[q] = pc[q]
  PROVE  \A k \in Hooks :
           /\ k # cur[p] /\ k # cur'[p] =>
                (Enabling(k)' <=> Enabling(k)) /\ (Disabling(k)' <=> Disabling(k))
           /\ k = cur[p] => /\ Enabling(k) <=> pc[p] \in EnableLabels
                            /\ Disabling(k) <=> pc[p] \in DisableLabels
           /\ k = cur'[p] => /\ Enabling(k)' <=> pc'[p] \in EnableLabels
                             /\ Disabling(k)' <=> pc'[p] \in DisableLabels
           /\ k = cur[p] /\ k # cur'[p] => ~Enabling(k)' /\ ~Disabling(k)'
           /\ k # cur[p] /\ k = cur'[p] => ~Enabling(k) /\ ~Disabling(k)
<1>t. NULL \notin Hooks
  BY ConstantsAssumption DEF ConstantsAssumption
<1>1. \A q, r \in Threads : cur[q] = cur[r] /\ cur[q] # NULL => q = r
  BY DEF VInv, CurInv
<1>2. \A q, r \in Threads : cur'[q] = cur'[r] /\ cur'[q] # NULL => q = r
  BY DEF VInv, CurInv
<1> SUFFICES ASSUME NEW k \in Hooks
             PROVE
           /\ k # cur[p] /\ k # cur'[p] =>
                (Enabling(k)' <=> Enabling(k)) /\ (Disabling(k)' <=> Disabling(k))
           /\ k = cur[p] => /\ Enabling(k) <=> pc[p] \in EnableLabels
                            /\ Disabling(k) <=> pc[p] \in DisableLabels
           /\ k = cur'[p] => /\ Enabling(k)' <=> pc'[p] \in EnableLabels
                             /\ Disabling(k)' <=> pc'[p] \in DisableLabels
           /\ k = cur[p] /\ k # cur'[p] => ~Enabling(k)' /\ ~Disabling(k)'
           /\ k # cur[p] /\ k = cur'[p] => ~Enabling(k) /\ ~Disabling(k)
  OBVIOUS
<1>3. k = cur[p] => /\ Enabling(k) <=> pc[p] \in EnableLabels
                    /\ Disabling(k) <=> pc[p] \in DisableLabels
  BY <1>1, <1>t DEF Enabling, Disabling
<1>4. k = cur'[p] => /\ Enabling(k)' <=> pc'[p] \in EnableLabels
                     /\ Disabling(k)' <=> pc'[p] \in DisableLabels
  BY <1>2, <1>t DEF Enabling, Disabling
<1>5. k # cur[p] /\ k # cur'[p] =>
        (Enabling(k)' <=> Enabling(k)) /\ (Disabling(k)' <=> Disabling(k))
  BY DEF Enabling, Disabling
<1>6. k = cur[p] /\ k # cur'[p] => ~Enabling(k)' /\ ~Disabling(k)'
  BY <1>1, <1>t DEF Enabling, Disabling
<1>7. k # cur[p] /\ k = cur'[p] => ~Enabling(k) /\ ~Disabling(k)
  BY <1>2, <1>t DEF Enabling, Disabling
<1> QED
  BY <1>3, <1>4, <1>5, <1>6, <1>7

(* The pinned hook's entry is there.                                       *)
LEMMA PinActive ==
  ASSUME VInv, PinInv
  PROVE  /\ PinHook \in Hooks /\ PinTarget \in Targets /\ Owns(PinHook, PinTarget)
         /\ activeHooks[PinTarget] # NULL
<1>1. PinHook \in Hooks /\ PinTarget \in Targets
  BY ConstantsAssumption DEF ConstantsAssumption
<1>2. Owns(PinHook, PinTarget) /\ ~Disabling(PinHook)
  BY DEF PinInv, UseInv, Owns
<1> QED
  BY <1>1, <1>2 DEF PinInv, OwnerInv, Firm

(* An object that is enabled has a target, and owns it.                    *)
LEMMA EnabledOwns ==
  ASSUME VInv, NEW h \in Hooks, obj[h].enabled
  PROVE  obj[h].target \in Targets /\ obj[h].old # NULL /\ Owns(h, obj[h].target)
<1>1. obj \in [Hooks -> Objects] /\ Kept(obj[h])
  BY TypeParts DEF VInv
<1>2. obj[h].target \in Targets \cup {NULL}
  BY <1>1, ObjectTyped
<1> QED
  BY <1>1, <1>2 DEF Kept, Owns

(* Two enabled objects do not share a page on which VirtualProtect works.  *)
LEMMA PageOwner ==
  ASSUME VInv, OwnerInv, OwnPages, NEW h \in Hooks, NEW k \in Hooks,
         obj[h].enabled, obj[k].enabled, PageOfHook(h) = PageOfHook(k),
         PageOfHook(h) \notin Fallible
  PROVE  h = k
<1>1. /\ obj[h].target \in Targets /\ Owns(h, obj[h].target)
      /\ obj[k].target \in Targets /\ Owns(k, obj[k].target)
  BY EnabledOwns
<1>2. obj[h].target = obj[k].target
  BY <1>1 DEF OwnPages, PageOfHook
<1>3. Firm(obj[h].target)
  BY DEF Firm, PageOfHook
<1> QED
  BY <1>1, <1>2, <1>3 DEF OwnerInv

(* Nobody but the pinned hook's owner erases its entry, and he does not.   *)
LEMMA PinStays ==
  ASSUME VInv, PinInv, Careful, pinned, NEW p \in Threads, NEW h \in Hooks, Disable(p, h)
  PROVE  obj[h].target # PinTarget
<1>1. PICK t : t = obj[h].target
  OBVIOUS
<1>2. obj[h].enabled /\ h # PinHook
  BY <1>1, DisableEffect
<1>3. Owns(h, obj[h].target)
  BY <1>2, EnabledOwns
<1>4. Firm(PinTarget)
  BY DEF Firm
<1> QED
  BY <1>2, <1>3, <1>4, PinActive DEF PinInv, OwnerInv

(* The call that fails to restore a page is on one where that may happen.  *)
LEMMA FailsOn ==
  ASSUME VInv, PinInv, NEW p \in Threads, DisableFails(p) \/ DisableRemoveFails(p)
  PROVE  cur[p] \in Hooks /\ Disabling(cur[p]) /\ PageOfHook(cur[p]) \in Fallible
<1>1. DisableFails(p) /\ pc[p] = "disable_protect"
  BY DEF DisableFails, DisableRemoveFails, Return, Goto, PinInv, HandlerInv
<1>2. pc[p] \in DisableLabels /\ pc[p] \in AdminLabels
  BY <1>1 DEF DisableLabels, AdminLabels
<1>3. cur[p] \in Hooks
  BY <1>2 DEF VInv, CurInv
<1>4. Disabling(cur[p])
  BY <1>2 DEF Disabling
<1>5. obj[cur[p]].enabled
  BY <1>3, <1>4 DEF PinInv, UseInv
<1>6. obj[cur[p]].old # NULL
  BY <1>3, <1>5, EnabledOwns
<1> QED
  BY <1>1, <1>3, <1>4, <1>6 DEF DisableFails

-----------------------------------------------------------------------------
(* A step of Enable or Disable, seen from the objects: which one it works  *)
(* on, and that the others stay as they are.                               *)
LEMMA AdminUse ==
  ASSUME VInv, VInv', PinInv, Careful, pinned, NEW p \in Threads, AdminStep(p)
  PROVE  UseInv'
<1>u. /\ \A h \in Hooks : Disabling(h) => obj[h].enabled
      /\ obj[PinHook].enabled /\ obj[PinHook].target = PinTarget /\ ~Disabling(PinHook)
      /\ PinHook \in Hooks
  BY PinActive DEF PinInv, UseInv
<1>f. \A q \in Threads \ {p} : pc'[q] = pc[q]
  BY AdminFrame
<1>l. /\ EnableLabels \cap DisableLabels = {} /\ "idle" \notin DisableLabels
      /\ "enable_check" \notin DisableLabels /\ "enable_protect" \notin DisableLabels
  BY LabelFacts DEF AdminLabels, EnableLabels, DisableLabels
<1>1. CASE Between(p)
  <2>1. obj' = obj /\ \A q \in Threads \ {p} : cur'[q] = cur[q]
    BY <1>1, BetweenEffect
  <2>2. \A k \in Hooks : Disabling(k)' => Disabling(k)
    <3> SUFFICES ASSUME NEW k \in Hooks, Disabling(k)' PROVE Disabling(k)
      OBVIOUS
    <3>1. CASE k # cur'[p]
      BY <3>1, <2>1, <1>f, Roles
    <3>2. CASE k = cur'[p]
      <4>1. pc'[p] \in DisableLabels
        BY <3>2, <2>1, <1>f, Roles
      <4>2. k = cur[p] /\ pc[p] \in DisableLabels
        BY <4>1, <3>2, <1>1, <1>l, BetweenEffect
      <4> QED
        BY <4>2, <2>1, <1>f, Roles
    <3> QED
      BY <3>1, <3>2
  <2> QED
    BY <2>1, <2>2, <1>u DEF UseInv
<1>2. CASE EnableProtect(p)
  <2>1. PICK h : h = cur[p]
    OBVIOUS
  <2>2. /\ h \in Hooks /\ cur'[p] = NULL /\ obj'[h].enabled /\ obj'[h].target = obj[h].target
        /\ (\A k \in Hooks \ {h} : obj'[k] = obj[k]) /\ pc[p] = "enable_protect"
        /\ \A q \in Threads \ {p} : cur'[q] = cur[q]
    BY <1>2, <2>1, EnableProtectEffect
  <2>3. \A k \in Hooks : Disabling(k)' => Disabling(k)
    <3>1. NULL \notin Hooks
      BY ConstantsAssumption DEF ConstantsAssumption
    <3> QED
      BY <3>1, <2>1, <2>2, <1>f, Roles
  <2> QED
    BY <2>2, <2>3, <1>u DEF UseInv
<1>3. CASE DisableProtect(p)
  <2>1. PICK h : h = cur[p]
    OBVIOUS
  <2>2. /\ h \in Hooks /\ cur'[p] = NULL /\ pc[p] = "disable_protect"
        /\ (\A k \in Hooks \ {h} : obj'[k] = obj[k])
        /\ \A q \in Threads \ {p} : cur'[q] = cur[q]
    BY <1>3, <2>1, DisableProtectEffect
  <2>3. Disabling(h) /\ ~Disabling(h)' /\ \A k \in Hooks : Disabling(k)' => Disabling(k)
    <3>1. NULL \notin Hooks /\ "disable_protect" \in DisableLabels
      BY ConstantsAssumption DEF ConstantsAssumption, DisableLabels
    <3> QED
      BY <3>1, <2>1, <2>2, <1>f, Roles
  <2> QED
    BY <2>2, <2>3, <1>u DEF UseInv
<1>4. ASSUME NEW h \in Hooks, Disable(p, h) PROVE UseInv'
  <2>1. PICK t : t = obj[h].target
    OBVIOUS
  <2>2. /\ obj' = obj /\ obj[h].enabled /\ h # PinHook /\ cur'[p] = h
        /\ (\A q \in Threads : cur[q] # h) /\ pc[p] = "idle"
        /\ \A q \in Threads \ {p} : cur'[q] = cur[q]
    BY <1>4, <2>1, DisableEffect
  <2>3. \A k \in Hooks \ {h} : Disabling(k)' => Disabling(k)
    <3>1. NULL \notin Hooks /\ cur[p] = NULL
      BY <2>2, LabelFacts, ConstantsAssumption DEF ConstantsAssumption, VInv,
         CurInv
    <3> QED
      BY <3>1, <2>2, <1>f, Roles
  <2> QED
    BY <2>2, <2>3, <1>u DEF UseInv
<1>5. ASSUME NEW h \in Hooks, NEW t \in Targets, NEW d \in Detours, Enable(p, h, t, d)
      PROVE  UseInv'
  <2>1. /\ ~obj[h].enabled /\ cur'[p] = h /\ pc'[p] = "enable_check" /\ pc[p] = "idle"
        /\ (\A k \in Hooks \ {h} : obj'[k] = obj[k])
        /\ \A q \in Threads \ {p} : cur'[q] = cur[q]
    BY <1>5, EnableEffect
  <2>2. ~Disabling(h)' /\ \A k \in Hooks : Disabling(k)' => Disabling(k)
    <3>1. NULL \notin Hooks /\ cur[p] = NULL
      BY <2>1, LabelFacts, ConstantsAssumption DEF ConstantsAssumption, VInv,
         CurInv
    <3> QED
      BY <3>1, <2>1, <1>f, <1>l, Roles
  <2>3. h # PinHook
    BY <2>1, <1>u
  <2> QED
    BY <2>1, <2>2, <2>3, <1>u DEF UseInv
<1>6. ASSUME NEW h \in Hooks, NEW t \in Targets, NEW d \in Detours, EnableRefused(p, h, t, d)
      PROVE  UseInv'
  <2>1. /\ ~obj[h].enabled /\ UNCHANGED <<cur, pc>> /\ (\A q \in Threads : cur[q] # h)
        /\ (\A k \in Hooks \ {h} : obj'[k] = obj[k])
    BY <1>6, EnableRefusedEffect
  <2>2. ~Disabling(h)' /\ \A k \in Hooks : Disabling(k)' => Disabling(k)
    BY <2>1 DEF Disabling
  <2>3. h # PinHook
    BY <2>1, <1>u
  <2> QED
    BY <2>1, <2>2, <2>3, <1>u DEF UseInv
<1> QED
  BY <1>1, <1>2, <1>3, <1>4, <1>5, <1>6, AdminCases

(* Nothing a caller does changes who owns what.                            *)
LEMMA CallerOwner ==
  ASSUME VInv, PinInv, NEW p \in Threads, CallerStep(p)
  PROVE  /\ \A k \in Hooks : Enabling(k)' <=> Enabling(k)
         /\ \A k \in Hooks : Disabling(k)' <=> Disabling(k)
         /\ UseInv' /\ OwnerInv'
<1>1. /\ UNCHANGED <<activeHooks, obj, cur>>
      /\ pc[p] \notin AdminLabels /\ pc'[p] \notin AdminLabels
      /\ \A q \in Threads \ {p} : pc'[q] = pc[q]
  BY CallerFrame, LabelFacts
<1>2. \A q \in Threads : /\ pc'[q] \in EnableLabels <=> pc[q] \in EnableLabels
                         /\ pc'[q] \in DisableLabels <=> pc[q] \in DisableLabels
  BY <1>1 DEF AdminLabels
<1>3. /\ \A k \in Hooks : Enabling(k)' <=> Enabling(k)
      /\ \A k \in Hooks : Disabling(k)' <=> Disabling(k)
  BY <1>1, <1>2 DEF Enabling, Disabling
<1>4. \A k \in Hooks, t \in Targets : Owns(k, t)' <=> Owns(k, t)
  BY <1>1, <1>3 DEF Owns
<1>5. UseInv'
  BY <1>1, <1>3, PinActive DEF PinInv, UseInv
<1>6. OwnerInv'
  BY <1>1, <1>3, <1>4 DEF PinInv, OwnerInv, Firm
<1> QED
  BY <1>3, <1>5, <1>6

(* A step that changes no entry, makes no new owner, and begins or ends no *)
(* Disable of an owner keeps the entries and their owners together.        *)
LEMMA OwnerKept ==
  ASSUME OwnerInv, activeHooks' = activeHooks,
         \A k \in Hooks, t \in Targets : Firm(t) /\ Owns(k, t)' =>
           /\ Owns(k, t) /\ obj'[k].detour = obj[k].detour
           /\ Disabling(k)' <=> Disabling(k)
  PROVE  OwnerInv'
BY DEF OwnerInv, Firm

(* The owner of a target stays one, and the map's entry its.               *)
LEMMA AdminOwner ==
  ASSUME VInv, VInv', PinInv, Careful, pinned, ~raced', NEW p \in Threads, AdminStep(p)
  PROVE  OwnerInv'
<1>f. \A q \in Threads \ {p} : pc'[q] = pc[q]
  BY AdminFrame
<1>o. OwnerInv
  BY DEF PinInv
<1>t. NULL \notin Hooks /\ NULL \notin Targets /\ NULL \notin Detours
  BY ConstantsAssumption DEF ConstantsAssumption, Functions
<1>l. /\ EnableLabels \cap DisableLabels = {} /\ "idle" \notin AdminLabels
      /\ EnableLabels \cup DisableLabels = AdminLabels
      /\ "enable_check" \in EnableLabels /\ "enable_protect" \in EnableLabels
      /\ "disable_remove" \in DisableLabels /\ "disable_protect" \in DisableLabels
  BY LabelFacts DEF AdminLabels, EnableLabels, DisableLabels
<1>1. CASE Between(p)
  <2>1. UNCHANGED <<activeHooks, obj>> /\ \A q \in Threads \ {p} : cur'[q] = cur[q]
    BY <1>1, BetweenEffect
  <2>2. ASSUME NEW k \in Hooks, NEW t \in Targets, Firm(t), Owns(k, t)'
        PROVE  Owns(k, t) /\ (Disabling(k)' <=> Disabling(k))
    <3>1. CASE k # cur[p] /\ k # cur'[p]
      BY <3>1, <2>1, <2>2, <1>f, Roles DEF Owns
    <3>2. CASE cur'[p] = cur[p] /\ k = cur[p]
      <4>1. /\ pc'[p] \in EnableLabels <=> pc[p] \in EnableLabels
            /\ pc'[p] \in DisableLabels <=> pc[p] \in DisableLabels
        BY <3>2, <1>1, <1>l, <1>t, BetweenEffect
      <4> QED
        BY <4>1, <3>2, <2>1, <2>2, <1>f, Roles DEF Owns
    <3>3. CASE cur'[p] = NULL /\ k = cur[p] /\ EnableFails(p)
      <4>1. pc[p] = "enable_protect"
        BY <3>3 DEF EnableFails, Return, Goto
      <4>2. ~Enabling(k)' /\ ~Disabling(k)' /\ ~Disabling(k)
        BY <4>1, <3>3, <2>1, <1>f, <1>l, <1>t, Roles
      <4> QED
        BY <4>2, <2>1, <2>2 DEF Owns
    <3>4. CASE cur'[p] = NULL /\ k = cur[p] /\ (DisableFails(p) \/ DisableRemoveFails(p))
      <4>1. Disabling(k) /\ PageOfHook(k) \in Fallible
        BY <3>4, FailsOn
      <4>2. obj[k].enabled /\ k # PinHook
        BY <4>1 DEF PinInv, UseInv
      <4>3. obj[k].target = t
        BY <2>1, <2>2 DEF Owns
      <4>4. t = PinTarget
        BY <4>1, <4>3, <2>2 DEF Firm, PageOfHook
      <4>5. Owns(k, PinTarget)
        BY <4>2, <4>3, <4>4 DEF Owns
      <4>6. Firm(PinTarget)
        BY DEF Firm
      <4> QED
        BY <4>2, <4>5, <4>6, <1>o, PinActive DEF OwnerInv
    <3> QED
      BY <3>1, <3>2, <3>3, <3>4, <1>1, <1>t, BetweenEffect
  <2> QED
    BY <2>1, <2>2, <1>o, OwnerKept
<1>2. CASE EnableProtect(p)
  <2>1. PICK h : h = cur[p]
    OBVIOUS
  <2>2. /\ h \in Hooks /\ cur'[p] = NULL /\ obj'[h].enabled /\ obj'[h].target = obj[h].target
        /\ (\A k \in Hooks \ {h} : obj'[k] = obj[k]) /\ pc[p] = "enable_protect"
        /\ (\A q \in Threads \ {p} : cur'[q] = cur[q]) /\ activeHooks' = activeHooks
        /\ obj'[h].detour = obj[h].detour
    BY <1>2, <2>1, EnableProtectEffect
  <2>3. /\ Enabling(h) /\ ~Disabling(h) /\ ~Disabling(h)'
        /\ \A k \in Hooks \ {h} : /\ Enabling(k)' <=> Enabling(k)
                                  /\ Disabling(k)' <=> Disabling(k)
    BY <2>1, <2>2, <1>f, <1>l, <1>t, Roles
  <2>4. ASSUME NEW k \in Hooks, NEW t \in Targets, Owns(k, t)'
        PROVE  /\ Owns(k, t) /\ obj'[k].detour = obj[k].detour
               /\ Disabling(k)' <=> Disabling(k)
    BY <2>2, <2>3, <2>4 DEF Owns
  <2> QED
    BY <2>2, <2>4, <1>o, OwnerKept
<1>3. CASE DisableProtect(p)
  <2>1. PICK h : h = cur[p]
    OBVIOUS
  <2>2. /\ h \in Hooks /\ cur'[p] = NULL /\ ~obj'[h].enabled
        /\ (\A k \in Hooks \ {h} : obj'[k] = obj[k]) /\ pc[p] = "disable_protect"
        /\ (\A q \in Threads \ {p} : cur'[q] = cur[q]) /\ activeHooks' = activeHooks
    BY <1>3, <2>1, DisableProtectEffect
  <2>3. /\ ~Enabling(h)'
        /\ \A k \in Hooks \ {h} : /\ Enabling(k)' <=> Enabling(k)
                                  /\ Disabling(k)' <=> Disabling(k)
    BY <2>1, <2>2, <1>f, <1>l, <1>t, Roles
  <2>4. ASSUME NEW k \in Hooks, NEW t \in Targets, Owns(k, t)'
        PROVE  /\ Owns(k, t) /\ obj'[k].detour = obj[k].detour
               /\ Disabling(k)' <=> Disabling(k)
    BY <2>2, <2>3, <2>4 DEF Owns
  <2> QED
    BY <2>2, <2>4, <1>o, OwnerKept
<1>4. ASSUME NEW h \in Hooks, Disable(p, h) PROVE OwnerInv'
  <2>1. PICK t : t = obj[h].target
    OBVIOUS
  <2>2. /\ obj' = obj /\ obj[h].enabled /\ t \in Targets /\ cur'[p] = h
        /\ (\A q \in Threads : cur[q] # h) /\ pc[p] = "idle" /\ pc'[p] \in DisableLabels
        /\ (\A q \in Threads \ {p} : cur'[q] = cur[q]) /\ activeHooks'[t] = NULL
        /\ \A u \in Targets \ {t} : activeHooks'[u] = activeHooks[u]
    BY <1>4, <2>1, <1>l, DisableEffect
  <2>p. cur[p] = NULL
    BY <2>2, <1>l DEF VInv, CurInv
  <2>3. /\ Disabling(h)' /\ ~Enabling(h)' /\ ~Enabling(h)
        /\ \A k \in Hooks \ {h} : /\ Enabling(k)' <=> Enabling(k)
                                  /\ Disabling(k)' <=> Disabling(k)
    BY <2>2, <2>p, <1>f, <1>l, <1>t, Roles
  <2>4. \A k \in Hooks, u \in Targets : Owns(k, u)' <=> Owns(k, u)
    BY <2>2, <2>3 DEF Owns
  <2>5. Owns(h, t)
    BY <2>1, <2>2 DEF Owns
  <2> SUFFICES ASSUME NEW k \in Hooks, NEW u \in Targets, Firm(u), Owns(k, u)
               PROVE  /\ IF Disabling(k)' THEN activeHooks'[u] = NULL
                         ELSE activeHooks'[u] = obj[k].detour /\ obj[k].detour # NULL
                      /\ \A j \in Hooks : Owns(j, u) => j = k
    BY <2>2, <2>4 DEF OwnerInv, Firm
  <2>6. /\ IF Disabling(k) THEN activeHooks[u] = NULL
           ELSE activeHooks[u] = obj[k].detour /\ obj[k].detour # NULL
        /\ \A j \in Hooks : Owns(j, u) => j = k
    BY <1>o DEF OwnerInv
  <2>7. CASE k = h
    <3>1. u = t
      BY <2>1, <2>7 DEF Owns
    <3> QED
      BY <3>1, <2>7, <2>2, <2>3, <2>6
  <2>8. CASE k # h
    <3>1. u # t
      BY <2>5, <2>6, <2>8
    <3> QED
      BY <3>1, <2>8, <2>2, <2>3, <2>6
  <2> QED
    BY <2>7, <2>8
<1>5. ASSUME NEW h \in Hooks, NEW t \in Targets, NEW d \in Detours, Enable(p, h, t, d)
      PROVE  OwnerInv'
  <2>2. /\ ~obj[h].enabled /\ ~obj'[h].enabled /\ cur'[p] = h /\ pc'[p] = "enable_check"
        /\ (\A q \in Threads : cur[q] # h) /\ pc[p] = "idle"
        /\ (\A k \in Hooks \ {h} : obj'[k] = obj[k])
        /\ (\A q \in Threads \ {p} : cur'[q] = cur[q])
        /\ activeHooks[t] = NULL /\ activeHooks'[t] = d
        /\ (\A u \in Targets \ {t} : activeHooks'[u] = activeHooks[u])
        /\ obj'[h].target = t /\ obj'[h].detour = d
    BY <1>5, EnableEffect
  <2>p. cur[p] = NULL
    BY <2>2, <1>l DEF VInv, CurInv
  <2>3. /\ ~Disabling(h)'
        /\ \A k \in Hooks \ {h} : /\ Enabling(k)' <=> Enabling(k)
                                  /\ Disabling(k)' <=> Disabling(k)
    BY <2>2, <2>p, <1>f, <1>l, <1>t, Roles
  <2>4. \A k \in Hooks \ {h}, u \in Targets : Owns(k, u)' <=> Owns(k, u)
    BY <2>2, <2>3 DEF Owns
  <2>5. \A u \in Targets : Owns(h, u)' => u = t
    BY <2>2 DEF Owns
(* Nobody else has t: it would have an entry, or be losing it.             *)
  <2>6. ASSUME NEW k \in Hooks \ {h}, Firm(t), Owns(k, t)
        PROVE  FALSE
    <3>1. Disabling(k)
      BY <2>2, <2>6, <1>o DEF OwnerInv
    <3>2. obj[k].target = t
      BY <2>6 DEF Owns
    <3>3. Unhooking(t)
      BY <3>1, <3>2 DEF Disabling, Unhooking
    <3> QED
      BY <3>3, <1>5 DEF Enable
  <2> SUFFICES ASSUME NEW k \in Hooks, NEW u \in Targets, Firm(u), Owns(k, u)'
               PROVE  /\ IF Disabling(k)' THEN activeHooks'[u] = NULL
                         ELSE activeHooks'[u] = obj'[k].detour /\ obj'[k].detour # NULL
                      /\ \A j \in Hooks : Owns(j, u)' => j = k
    BY DEF OwnerInv, Firm
  <2>7. CASE k = h
    <3>1. u = t
      BY <2>5, <2>7
    <3>2. \A j \in Hooks \ {h} : ~Owns(j, u)'
      BY <3>1, <2>4, <2>6
    <3>3. ~Disabling(k)' /\ activeHooks'[u] = obj'[k].detour /\ obj'[k].detour # NULL
      BY <3>1, <2>7, <2>2, <2>3, <1>t
    <3> QED
      BY <3>2, <3>3, <2>7
  <2>8. CASE k # h
    <3>1. Owns(k, u)
      BY <2>4, <2>8
    <3>2. u # t
      BY <2>6, <2>8, <3>1
    <3>3. /\ IF Disabling(k) THEN activeHooks[u] = NULL
             ELSE activeHooks[u] = obj[k].detour /\ obj[k].detour # NULL
          /\ \A j \in Hooks : Owns(j, u) => j = k
      BY <3>1, <1>o DEF OwnerInv
    <3>4. ~Owns(h, u)'
      BY <2>5, <3>2
    <3>5. IF Disabling(k)' THEN activeHooks'[u] = NULL
          ELSE activeHooks'[u] = obj'[k].detour /\ obj'[k].detour # NULL
      BY <2>2, <2>3, <2>8, <3>2, <3>3
    <3> QED
      BY <3>3, <3>4, <3>5, <2>4
  <2> QED
    BY <2>7, <2>8
<1>6. ASSUME NEW h \in Hooks, NEW t \in Targets, NEW d \in Detours, EnableRefused(p, h, t, d)
      PROVE  OwnerInv'
  <2>1. /\ ~obj[h].enabled /\ ~obj'[h].enabled /\ UNCHANGED <<cur, pc, activeHooks>>
        /\ (\A q \in Threads : cur[q] # h) /\ (\A k \in Hooks \ {h} : obj'[k] = obj[k])
    BY <1>6, EnableRefusedEffect
  <2>2. /\ ~Enabling(h)'
        /\ \A k \in Hooks \ {h} : /\ Enabling(k)' <=> Enabling(k)
                                  /\ Disabling(k)' <=> Disabling(k)
    BY <2>1 DEF Enabling, Disabling
  <2>3. ASSUME NEW k \in Hooks, NEW u \in Targets, Owns(k, u)'
        PROVE  /\ Owns(k, u) /\ obj'[k].detour = obj[k].detour
               /\ Disabling(k)' <=> Disabling(k)
    BY <2>1, <2>2, <2>3 DEF Owns
  <2> QED
    BY <2>1, <2>3, <1>o, OwnerKept
<1> QED
  BY <1>1, <1>2, <1>3, <1>4, <1>5, <1>6, AdminCases

-----------------------------------------------------------------------------
(* A step of Enable or Disable leaves the handler where it is, what the    *)
(* single steps visit in the map, and the processor alone.                 *)
LEMMA AdminHandler ==
  ASSUME VInv, PinInv, Careful, pinned, ~raced', NEW p \in Threads, AdminStep(p)
  PROVE  HandlerInv' /\ TodoInv' /\ EntryInv'
<1>f. /\ UNCHANGED <<ip, tf, todo>> /\ \A q \in Threads \ {p} : pc'[q] = pc[q]
  BY AdminFrame
<1>h. /\ installed /\ hVeh \in handlers
      /\ \A q \in Threads : pc[q] \notin {"enable_add", "enable_flag", "disable_remove",
                                          "disable_flag", "unhandled"}
      /\ \A q \in Callers : \A t \in todo[q] : activeHooks[t] # NULL
  BY DEF PinInv, HandlerInv, TodoInv
<1>e. EntryInv'
  BY <1>f DEF PinInv, EntryInv
<1> DEFINE
  Stays  == installed' /\ hVeh' \in handlers'
  Away   == pc'[p] \notin {"enable_add", "enable_flag", "disable_remove", "disable_flag",
                           "unhandled"}
  Listed == \A q \in Callers : \A t \in todo[q] : activeHooks'[t] # NULL
<1>s. SUFFICES Stays /\ Away /\ Listed
  BY <1>e, <1>f, <1>h DEF HandlerInv, TodoInv
<1>k. activeHooks' = activeHooks => Listed
  BY <1>h
<1>j. UNCHANGED <<hVeh, installed, handlers>> => Stays
  BY <1>h
<1>t. TypeOK /\ \A q \in Callers : todo[q] \subseteq Targets
  BY TypeParts DEF VInv, Threads
<1> HIDE DEF Stays, Listed
<1>1. CASE Between(p)
  <2>1. ~EnableAdd(p) /\ ~EnableFlag(p) /\ ~DisableRemove(p) /\ ~DisableFlag(p)
        /\ ~DisableRemoveFails(p)
    BY <1>h DEF EnableAdd, EnableFlag, DisableRemove, DisableFlag,
       DisableRemoveFails, Return, Goto
  <2>2. activeHooks' = activeHooks
    BY <1>1, BetweenEffect
  <2>3. UNCHANGED <<hVeh, installed, handlers>>
    BY <1>1, <2>1 DEF Between, EnableCheck, EnableFails, DisableFails,
       DisableRefused, system
  <2>4. Away
    <3>1. CASE EnableCheck(p)
      <4>1. "enable_protect" \in Labels
        BY DEF Labels, AdminLabels, EnableLabels
      <4>2. Goto(p, "enable_check", "enable_protect")
        BY <3>1, <1>h DEF EnableCheck
      <4> QED
        BY <4>1, <4>2, <1>t, GotoStep
    <3>2. CASE EnableFails(p)
      BY <3>2, <1>t, ReturnStep DEF EnableFails
    <3>3. CASE DisableFails(p)
      BY <3>3, <1>t, ReturnStep DEF DisableFails
    <3>4. CASE \E h \in Hooks : DisableRefused(p, h)
      BY <3>4, <1>h DEF DisableRefused
    <3> QED
      BY <1>1, <2>1, <3>1, <3>2, <3>3, <3>4 DEF Between
  <2> QED
    BY <2>2, <2>3, <2>4, <1>j, <1>k
<1>2. CASE EnableProtect(p)
  <2>1. PICK h : h = cur[p]
    OBVIOUS
  <2> QED
    BY <1>2, <2>1, <1>j, <1>k, EnableProtectEffect
<1>3. CASE DisableProtect(p)
  <2>1. PICK h : h = cur[p]
    OBVIOUS
  <2> QED
    BY <1>3, <2>1, <1>j, <1>k, DisableProtectEffect
<1>4. ASSUME NEW h \in Hooks, Disable(p, h)
      PROVE  Stays /\ Away /\ Listed
  <2>1. PICK t : t = obj[h].target
    OBVIOUS
  <2>2. /\ UNCHANGED <<hVeh, installed, handlers>>
        /\ pc'[p] \in {"disable_remove", "disable_protect"}
        /\ (pc'[p] = "disable_remove" => \A u \in Targets \ {t} : activeHooks[u] = NULL)
        /\ \A u \in Targets \ {t} : activeHooks'[u] = activeHooks[u]
    BY <1>4, <2>1, DisableEffect
  <2>3. pc'[p] = "disable_protect"
    BY <2>1, <2>2, <1>4, PinStays, PinActive
  <2>4. \A q \in Callers : t \notin todo[q]
    BY <2>1, <1>4 DEF Disable
  <2>5. Listed
    BY <2>2, <2>4, <1>t, <1>h DEF Listed
  <2> QED
    BY <2>2, <2>3, <2>5, <1>j
<1>5. ASSUME NEW h \in Hooks, NEW t \in Targets, NEW d \in Detours, Enable(p, h, t, d)
      PROVE  Stays /\ Away /\ Listed
  <2>1. d # NULL
    BY ConstantsAssumption DEF ConstantsAssumption, Functions
  <2>2. /\ UNCHANGED <<hVeh, installed, handlers>> /\ pc'[p] = "enable_check"
        /\ activeHooks'[t] = d /\ (\A u \in Targets \ {t} : activeHooks'[u] = activeHooks[u])
    BY <1>5, EnableEffect
  <2>3. Listed
    BY <2>1, <2>2, <1>t, <1>h DEF Listed
  <2> QED
    BY <2>2, <2>3, <1>j
<1>6. ASSUME NEW h \in Hooks, NEW t \in Targets, NEW d \in Detours, EnableRefused(p, h, t, d)
      PROVE  Stays /\ Away /\ Listed
  BY <1>6, <1>h, <1>j, <1>k, EnableRefusedEffect
<1> QED
  BY <1>1, <1>2, <1>3, <1>4, <1>5, <1>6, AdminCases

(* Nor does a caller: its loop only visits what is in the map, and it is   *)
(* redirected from the entry of the pinned target.                         *)
LEMMA CallerHandler ==
  ASSUME VInv, PinInv, NEW p \in Callers, CallerStep(p)
  PROVE  HandlerInv' /\ TodoInv' /\ EntryInv'
<1>c. p \in Threads
  BY DEF Threads
<1>f. /\ UNCHANGED <<activeHooks, hVeh, installed, handlers>>
      /\ \A q \in Threads \ {p} : pc'[q] = pc[q]
  BY <1>c, CallerFrame
<1>h. /\ installed /\ hVeh \in handlers
      /\ \A q \in Threads : pc[q] \notin {"enable_add", "enable_flag", "disable_remove",
                                          "disable_flag", "unhandled"}
      /\ \A q \in Callers : \A t \in todo[q] : activeHooks[t] # NULL
      /\ \A q \in Callers : tf[q] => ip[q] # [fn |-> PinTarget, entry |-> TRUE]
  BY DEF PinInv, HandlerInv, TodoInv, EntryInv
<1>v. tf[p] => pc[p] \in {"exec", "guard_raised", "handler", "unhandled"}
  BY <1>c DEF VInv, CpuInv
<1>d. /\ PinTarget \notin Detours /\ activeHooks[PinTarget] # NULL /\ PinTarget \in Targets
  BY PinActive, ConstantsAssumption DEF ConstantsAssumption
<1> DEFINE
  Good == /\ pc'[p] \notin {"enable_add", "enable_flag", "disable_remove", "disable_flag",
                            "unhandled"}
          /\ \A q \in Callers \ {p} : todo'[q] = todo[q] /\ tf'[q] = tf[q] /\ ip'[q] = ip[q]
          /\ \A t \in todo'[p] : activeHooks[t] # NULL
          /\ tf'[p] => ip'[p] # [fn |-> PinTarget, entry |-> TRUE]
<1>s. SUFFICES Good
  <2> SUFFICES ASSUME Good PROVE HandlerInv' /\ TodoInv' /\ EntryInv'
    OBVIOUS
  <2>1. HandlerInv'
    BY <1>f, <1>h DEF HandlerInv
  <2>2. TodoInv'
    BY <1>f, <1>h DEF TodoInv
  <2>3. EntryInv'
    BY <1>f, <1>h DEF EntryInv
  <2> QED
    BY <2>1, <2>2, <2>3
<1>q. \A q \in Callers : q \in Threads
  BY DEF Threads
<1>1. CASE Passing(p)
  BY <1>1, <1>c, <1>h, PassingEffect
<1>2. CASE Trap(p)
  BY <1>2, <1>c, <1>h, TrapEffect
<1>3. CASE Execute(p)
  <2>1. pc'[p] \in {"step_raised", "exec"}
    BY <1>3, <1>c, ExecuteEffect
  <2> QED
    BY <2>1, <1>3, <1>c, <1>q, <1>h, ExecuteEffect
<1>4. CASE HandlerRedirect(p)
  <2>1. \/ ip'[p] = ip[p] /\ ~(/\ ip[p].entry /\ ip[p].fn \in Targets
                               /\ activeHooks[ip[p].fn] # NULL)
        \/ ip'[p].fn \in Detours
    BY <1>4, <1>c, RedirectEffect
  <2>2. ip'[p] # [fn |-> PinTarget, entry |-> TRUE]
    BY <2>1, <1>d
  <2>3. pc'[p] = "exec" /\ todo' = todo /\ \A q \in Threads \ {p} : tf'[q] = tf[q] /\ ip'[q] = ip[q]
    BY <1>4, <1>c, RedirectEffect
  <2> QED
    BY <2>2, <2>3, <1>q, <1>h
<1>5. CASE SingleStep(p)
  BY <1>5, <1>c, <1>q, <1>h, SingleStepEffect
<1>6. CASE Rearm(p)
  BY <1>6, <1>c, <1>q, <1>h, RearmEffect
<1>7. CASE RearmEnds(p)
  <2>1. pc'[p] = "exec"
    BY <1>7, <1>c, <1>h, RearmEndsEffect
  <2>2. todo'[p] = {} /\ UNCHANGED <<ip, tf>> /\ \A q \in Threads \ {p} : todo'[q] = todo[q]
    BY <1>7, <1>c, RearmEndsEffect
  <2> QED
    BY <2>1, <2>2, <1>q, <1>h
<1>8. ASSUME NEW t \in Targets, Call(p, t) PROVE Good
  BY <1>8, <1>c, <1>q, <1>h, <1>v, CallEffect
<1> QED
  BY <1>1, <1>2, <1>3, <1>4, <1>5, <1>6, <1>7, <1>8, <1>c, CallerCases

(* A step of Enable or Disable guards its own page only.                   *)
LEMMA AdminGuard ==
  ASSUME VInv, VInv', PinInv, UseInv', Careful, OwnPages, pinned, NEW p \in Threads, AdminStep(p)
  PROVE  GuardInv'
<1>f. /\ UNCHANGED <<ip, tf, todo>> /\ (\A q \in Threads \ {p} : pc'[q] = pc[q])
      /\ pc[p] \in {"idle"} \cup AdminLabels
  BY AdminFrame
<1>t. NULL \notin Hooks
  BY ConstantsAssumption DEF ConstantsAssumption
<1>l. /\ EnableLabels \cap DisableLabels = {} /\ "idle" \notin AdminLabels
      /\ EnableLabels \cup DisableLabels = AdminLabels
      /\ "enable_protect" \in EnableLabels /\ "disable_protect" \in DisableLabels
  BY LabelFacts DEF AdminLabels, EnableLabels, DisableLabels
<1>r. \A t : \A q \in Callers : Rearming(q, t) => Rearming(q, t)'
  <2>1. ~(\E t : Rearming(p, t))
    BY <1>f, <1>l DEF Rearming, AdminLabels, EnableLabels, DisableLabels
  <2>2. \A q \in Callers : q \in Threads
    BY DEF Threads
  <2> QED
    BY <2>1, <2>2, <1>f DEF Rearming
<1> SUFFICES ASSUME NEW h \in Hooks, NEW t \in Targets, obj'[h].target = t, obj'[h].enabled,
                    ~Disabling(h)', PageOf[t] \notin Fallible
             PROVE  prot'[PageOf[t]] = "GUARD" \/ \E q \in Callers : Rearming(q, t)'
  BY DEF GuardInv
<1> DEFINE Armed == prot'[PageOf[t]] = "GUARD" \/ \E q \in Callers : Rearming(q, t)'
<1> SUFFICES Armed
  OBVIOUS
<1>g. PageOf[t] \in Pages
  BY PageFacts DEF Functions
(* An object that was enabled and not being disabled, on a page no step of *)
(* p protects, is as it was.                                               *)
<1>k. ASSUME obj'[h] = obj[h], ~Disabling(h), prot'[PageOf[t]] = prot[PageOf[t]]
      PROVE  Armed
  <2>1. prot[PageOf[t]] = "GUARD" \/ \E q \in Callers : Rearming(q, t)
    BY <1>k DEF PinInv, GuardInv
  <2>2. (\E q \in Callers : Rearming(q, t)) => \E q \in Callers : Rearming(q, t)'
    BY <1>r
  <2> QED
    BY <2>1, <2>2, <1>k
<1> HIDE DEF Armed
<1>1. CASE Between(p)
  <2>1. UNCHANGED <<obj, prot>> /\ \A q \in Threads \ {p} : cur'[q] = cur[q]
    BY <1>1, BetweenEffect
  <2>2. ~Disabling(h)
    <3>1. CASE h # cur[p]
      <4>1. CASE h # cur'[p]
        BY <3>1, <4>1, <2>1, <1>f, Roles
      <4>2. CASE h = cur'[p]
        BY <3>1, <4>2, <2>1, <1>f, Roles
      <4> QED
        BY <4>1, <4>2
    <3>2. CASE h = cur[p] /\ cur'[p] = cur[p]
      <4>1. pc'[p] \notin DisableLabels
        BY <3>2, <2>1, <1>f, Roles
      <4>2. pc[p] \notin DisableLabels
        BY <4>1, <3>2, <1>1, <1>l, <1>t, BetweenEffect
      <4> QED
        BY <4>2, <3>2, <2>1, <1>f, Roles
    <3>3. CASE h = cur[p] /\ EnableFails(p)
      <4>1. pc[p] = "enable_protect"
        BY <3>3 DEF EnableFails, Return, Goto
      <4> QED
        BY <4>1, <3>3, <1>l, <2>1, <1>f, Roles
    <3>4. CASE h = cur[p] /\ (DisableFails(p) \/ DisableRemoveFails(p))
      <4>1. PageOfHook(h) \in Fallible
        BY <3>4, FailsOn
      <4>2. PageOfHook(h) = PageOf[t]
        BY <2>1 DEF PageOfHook
      <4> QED
        BY <4>1, <4>2
    <3> QED
      BY <3>1, <3>2, <3>3, <3>4, <1>1, BetweenEffect
  <2> QED
    BY <2>1, <2>2, <1>k
<1>2. CASE EnableProtect(p)
  <2>1. PICK h0 : h0 = cur[p]
    OBVIOUS
  <2>2. /\ h0 \in Hooks /\ cur'[p] = NULL /\ PageOfHook(h0) \in Pages
        /\ obj'[h0].target = obj[h0].target /\ prot'[PageOfHook(h0)] = "GUARD"
        /\ (\A k \in Hooks \ {h0} : obj'[k] = obj[k]) /\ pc[p] = "enable_protect"
        /\ (\A q \in Threads \ {p} : cur'[q] = cur[q])
        /\ (\A g \in Pages \ {PageOfHook(h0)} : prot'[g] = prot[g])
    BY <1>2, <2>1, EnableProtectEffect
  <2>3. CASE PageOf[t] = PageOfHook(h0)
    BY <2>2, <2>3 DEF Armed
  <2>4. CASE PageOf[t] # PageOfHook(h0)
    <3>1. h # h0
      BY <2>2, <2>4 DEF PageOfHook
    <3>2. obj'[h] = obj[h]
      BY <3>1, <2>2
    <3>3. ~Disabling(h)
      BY <3>1, <2>1, <2>2, <1>f, <1>t, Roles
    <3> QED
      BY <3>2, <3>3, <2>2, <2>4, <1>g, <1>k
  <2> QED
    BY <2>3, <2>4
<1>3. CASE DisableProtect(p)
  <2>1. PICK h0 : h0 = cur[p]
    OBVIOUS
  <2>2. /\ h0 \in Hooks /\ cur'[p] = NULL /\ ~obj'[h0].enabled
        /\ (\A k \in Hooks \ {h0} : obj'[k] = obj[k]) /\ pc[p] = "disable_protect"
        /\ (\A q \in Threads \ {p} : cur'[q] = cur[q])
        /\ (\A g \in Pages \ {PageOfHook(h0)} : prot'[g] = prot[g])
    BY <1>3, <2>1, DisableProtectEffect
  <2>3. h # h0 /\ obj'[h] = obj[h] /\ PageOfHook(h) = PageOf[t]
    BY <2>2 DEF PageOfHook
  <2>4. Disabling(h0) /\ ~Disabling(h)
    BY <2>1, <2>2, <2>3, <1>f, <1>l, <1>t, Roles
  <2>5. obj[h0].enabled
    BY <2>2, <2>4 DEF PinInv, UseInv
  <2>6. PageOf[t] # PageOfHook(h0)
    BY <2>2, <2>3, <2>5, PageOwner DEF PinInv
  <2> QED
    BY <2>2, <2>3, <2>4, <2>6, <1>g, <1>k
<1>4. ASSUME NEW h0 \in Hooks, Disable(p, h0)
      PROVE  Armed
  <2>1. PICK u : u = obj[h0].target
    OBVIOUS
  <2>2. /\ UNCHANGED <<obj, prot>> /\ cur'[p] = h0 /\ (\A q \in Threads : cur[q] # h0)
        /\ pc'[p] \in {"disable_remove", "disable_protect"} /\ pc[p] = "idle"
        /\ \A q \in Threads \ {p} : cur'[q] = cur[q]
    BY <1>4, <2>1, DisableEffect
  <2>3. cur[p] = NULL /\ pc'[p] \in DisableLabels
    BY <2>2, <1>l DEF VInv, CurInv, DisableLabels
  <2>4. h # h0
    BY <2>2, <2>3, <1>f, Roles
  <2>5. ~Disabling(h)
    BY <2>2, <2>3, <2>4, <1>f, <1>t, Roles
  <2> QED
    BY <2>2, <2>5, <1>k
<1>5. ASSUME NEW h0 \in Hooks, NEW u \in Targets, NEW d \in Detours, Enable(p, h0, u, d)
      PROVE  Armed
  <2>1. /\ ~obj'[h0].enabled /\ prot' = prot /\ cur'[p] = h0 /\ pc[p] = "idle"
        /\ (\A k \in Hooks \ {h0} : obj'[k] = obj[k])
        /\ \A q \in Threads \ {p} : cur'[q] = cur[q]
    BY <1>5, EnableEffect
  <2>2. h # h0 /\ obj'[h] = obj[h] /\ cur[p] = NULL
    BY <2>1, <1>l DEF VInv, CurInv
  <2>3. ~Disabling(h)
    BY <2>1, <2>2, <1>f, <1>t, Roles
  <2> QED
    BY <2>1, <2>2, <2>3, <1>k
<1>6. ASSUME NEW h0 \in Hooks, NEW u \in Targets, NEW d \in Detours, EnableRefused(p, h0, u, d)
      PROVE  Armed
  <2>1. /\ ~obj'[h0].enabled /\ UNCHANGED <<prot, cur, pc>>
        /\ \A k \in Hooks \ {h0} : obj'[k] = obj[k]
    BY <1>6, EnableRefusedEffect
  <2>2. h # h0 /\ obj'[h] = obj[h]
    BY <2>1
  <2>3. ~Disabling(h)
    BY <2>1 DEF Disabling
  <2> QED
    BY <2>1, <2>2, <2>3, <1>k
<1> QED
  BY <1>1, <1>2, <1>3, <1>4, <1>5, <1>6, AdminCases

(* A caller that takes a guard away is going to restore it, and gives up   *)
(* nothing it has not restored.                                            *)
LEMMA CallerGuard ==
  ASSUME VInv, PinInv, OwnPages, NEW p \in Callers, CallerStep(p)
  PROVE  GuardInv'
<1>c. p \in Threads /\ \A q \in Callers : q \in Threads
  BY DEF Threads
<1>f. /\ UNCHANGED <<activeHooks, handlers, obj>> /\ \A q \in Threads \ {p} : pc'[q] = pc[q]
  BY <1>c, CallerFrame
<1>v. /\ tf[p] => pc[p] \in {"exec", "guard_raised", "handler", "unhandled"}
      /\ tf[p] => ip[p].fn # NULL
  BY <1>c DEF VInv, CpuInv
<1> SUFFICES ASSUME NEW h \in Hooks, NEW t \in Targets, obj[h].target = t, obj[h].enabled,
                    ~Disabling(h)', PageOf[t] \notin Fallible
             PROVE  prot'[PageOf[t]] = "GUARD" \/ \E q \in Callers : Rearming(q, t)'
  BY <1>f DEF GuardInv
<1>p. PICK g : g = PageOf[t]
  OBVIOUS
<1>n. ~Disabling(h)
  BY <1>c, CallerOwner
<1>e. Owns(h, t) /\ Firm(t) /\ activeHooks[t] # NULL
  <2>1. Owns(h, t) /\ Firm(t)
    BY EnabledOwns DEF Firm
  <2> QED
    BY <2>1, <1>n DEF PinInv, OwnerInv
<1>d. g \in Pages
  BY <1>p, PageFacts DEF Functions
<1>o. prot[g] = "GUARD" \/ \E q \in Callers : Rearming(q, t)
  BY <1>p, <1>n DEF PinInv, GuardInv
<1>s. SUFFICES prot'[g] = "GUARD" \/ \E q \in Callers : Rearming(q, t)'
  BY <1>p
(* The other threads go on as before.                                      *)
<1>k. ASSUME \A q \in Callers \ {p} : todo'[q] = todo[q] /\ tf'[q] = tf[q],
             prot'[g] = prot[g], Rearming(p, t) => Rearming(p, t)'
      PROVE  prot'[g] = "GUARD" \/ \E q \in Callers : Rearming(q, t)'
  <2>1. \A q \in Callers \ {p} : Rearming(q, t) => Rearming(q, t)'
    BY <1>k, <1>c, <1>f DEF Rearming
  <2> QED
    BY <2>1, <1>k, <1>o
<1>1. CASE Passing(p)
  <2>1. Rearming(p, t) => Rearming(p, t)'
    <3>1. handlers # {}
      BY DEF PinInv, HandlerInv
    <3> QED
      BY <3>1, <1>1, <1>c, <1>v, PassingEffect DEF Rearming
  <2> QED
    BY <2>1, <1>1, <1>c, <1>k, PassingEffect
<1>2. CASE Trap(p)
  <2>1. Rearming(p, t)'
    BY <1>2, <1>c, TrapEffect DEF Rearming
  <2> QED
    BY <2>1
<1>3. CASE Execute(p)
  <2>1. Rearming(p, t) => Rearming(p, t)'
    BY <1>3, <1>c, ExecuteEffect DEF Rearming
  <2>2. prot' = prot /\ \A q \in Callers \ {p} : todo'[q] = todo[q] /\ tf'[q] = tf[q]
    BY <1>3, <1>c, ExecuteEffect
  <2> QED
    BY <2>1, <2>2, <1>k
<1>4. CASE HandlerRedirect(p)
  <2>1. Rearming(p, t)'
    BY <1>4, <1>c, RedirectEffect DEF Rearming
  <2> QED
    BY <2>1
<1>5. CASE SingleStep(p)
  <2>1. Rearming(p, t)'
    BY <1>5, <1>c, <1>e, SingleStepEffect DEF Rearming
  <2> QED
    BY <2>1
<1>6. CASE Rearm(p)
  <2>1. PICK u \in todo[p] :
          /\ u \in Targets /\ pc[p] = "rearm" /\ pc' = pc /\ UNCHANGED <<ip, tf>>
          /\ todo'[p] = todo[p] \ {u} /\ (\A q \in Threads \ {p} : todo'[q] = todo[q])
          /\ (\A x \in Pages \ {PageOf[u]} : prot'[x] = prot[x])
          /\ prot'[PageOf[u]] = "GUARD" \/ (PageOf[u] \in Fallible /\ prot' = prot)
    BY <1>6, <1>c, RearmEffect
  <2>2. CASE u = t
    BY <2>1, <2>2, <1>p
  <2>3. CASE u # t
    <3>1. PageOf[u] # g
      BY <2>1, <2>3, <1>p DEF OwnPages
    <3>2. prot'[g] = prot[g]
      BY <3>1, <2>1, <1>d
    <3>3. Rearming(p, t) => Rearming(p, t)'
      BY <2>1, <2>3 DEF Rearming
    <3> QED
      BY <3>2, <3>3, <2>1, <1>c, <1>k
  <2> QED
    BY <2>2, <2>3
<1>7. CASE RearmEnds(p)
  <2>1. /\ pc[p] = "rearm" /\ prot' = prot /\ tf' = tf /\ todo[p] = {}
        /\ \A q \in Threads \ {p} : todo'[q] = todo[q]
    BY <1>7, <1>c, RearmEndsEffect DEF PinInv, TodoInv
  <2>2. ~Rearming(p, t)
    BY <2>1 DEF Rearming
  <2> QED
    BY <2>1, <2>2, <1>c, <1>k
<1>8. ASSUME NEW u \in Targets, Call(p, u)
      PROVE  prot'[g] = "GUARD" \/ \E q \in Callers : Rearming(q, t)'
  <2>1. pc[p] = "idle" /\ UNCHANGED <<prot, tf, todo>>
    BY <1>8, <1>c, CallEffect
  <2>2. ~Rearming(p, t)
    BY <2>1 DEF Rearming
  <2> QED
    BY <2>1, <2>2, <1>k
<1> QED
  BY <1>1, <1>2, <1>3, <1>4, <1>5, <1>6, <1>7, <1>8, <1>c, CallerCases

-----------------------------------------------------------------------------
(* The first state: one hook, enabled, and no call.                        *)
LEMMA InitPin == Init => PinInv
<1> SUFFICES ASSUME Init PROVE PinInv
  OBVIOUS
<1>c. /\ NULL \notin Detours /\ NULL \notin Targets /\ PinHook \in Hooks /\ PinTarget \in Targets
      /\ PinDetour \in Detours
  BY ConstantsAssumption DEF ConstantsAssumption, Functions
<1>1. /\ \A p \in Threads : pc[p] = "idle" /\ todo[p] = {} /\ ~tf[p]
      /\ installed /\ hVeh \in handlers
      /\ \A t \in Targets : activeHooks[t] = IF t = PinTarget THEN PinDetour ELSE NULL
  BY DEF Init
<1>2. /\ \A h \in Hooks \ {PinHook} : ~obj[h].enabled
      /\ obj[PinHook].enabled /\ obj[PinHook].target = PinTarget
      /\ obj[PinHook].detour = PinDetour
  BY <1>c DEF Init, NoHook
<1>3. prot[PageOf[PinTarget]] = "GUARD"
  BY <1>c, PageFacts DEF Init, Functions
<1>4. \A h \in Hooks : ~Enabling(h) /\ ~Disabling(h)
  BY <1>1 DEF Enabling, Disabling, EnableLabels, DisableLabels
<1>5. OwnerInv
  BY <1>1, <1>2, <1>4, <1>c DEF OwnerInv, Owns
<1>6. UseInv
  BY <1>2, <1>4, <1>c DEF UseInv
<1>7. HandlerInv /\ TodoInv /\ EntryInv
  BY <1>1 DEF HandlerInv, TodoInv, EntryInv, Threads
<1>8. GuardInv
  BY <1>2, <1>3 DEF GuardInv
<1> QED
  BY <1>5, <1>6, <1>7, <1>8 DEF PinInv

(* It stays, while clients are careful and targets have their own pages.   *)
LEMMA IInvStep ==
  ASSUME Careful, OwnPages, IInv, [Next]_vars
  PROVE  IInv'
<1>v. VInv /\ VInv'
  BY VInvStep DEF IInv
<1>1. CASE UNCHANGED vars
  <2>1. UNCHANGED <<activeHooks, hVeh, installed, handlers, prot, obj, pc, cur, ip, tf, todo,
                    pinned, raced>>
    BY <1>1 DEF vars, system, cpu, history
  <2>2. OwnerInv' = OwnerInv /\ UseInv' = UseInv
    BY <2>1 DEF OwnerInv, UseInv, Owns, Enabling, Disabling, Firm
  <2>3. HandlerInv' = HandlerInv /\ TodoInv' = TodoInv /\ EntryInv' = EntryInv
    BY <2>1 DEF HandlerInv, TodoInv, EntryInv
  <2>4. GuardInv' = GuardInv
    BY <2>1 DEF GuardInv, Disabling, Rearming
  <2> QED
    BY <1>v, <2>1, <2>2, <2>3, <2>4 DEF IInv, PinInv
<1>2. ASSUME NEW p \in Admins, AdminStep(p), pinned', ~raced' PROVE PinInv'
  <2>1. p \in Threads
    BY DEF Threads
  <2>2. pinned /\ ~raced
    BY <1>2, <1>v, <2>1, AdminFrame
  <2>3. PinInv
    BY <2>2 DEF IInv
  <2>4. UseInv' /\ OwnerInv'
    BY <1>2, <1>v, <2>1, <2>2, <2>3, AdminUse, AdminOwner
  <2>5. HandlerInv' /\ TodoInv' /\ EntryInv'
    BY <1>2, <1>v, <2>1, <2>2, <2>3, AdminHandler
  <2>6. GuardInv'
    BY <1>2, <1>v, <2>1, <2>2, <2>3, <2>4, AdminGuard
  <2> QED
    BY <2>4, <2>5, <2>6 DEF PinInv
<1>3. ASSUME NEW p \in Callers, CallerStep(p), pinned', ~raced' PROVE PinInv'
  <2>1. p \in Threads
    BY DEF Threads
  <2>2. pinned /\ ~raced
    BY <1>3, <1>v, <2>1, CallerFrame
  <2>3. PinInv
    BY <2>2 DEF IInv
  <2>4. UseInv' /\ OwnerInv'
    BY <1>3, <1>v, <2>1, <2>3, CallerOwner
  <2>5. HandlerInv' /\ TodoInv' /\ EntryInv'
    BY <1>3, <1>v, <2>3, CallerHandler
  <2>6. GuardInv'
    BY <1>3, <1>v, <2>3, CallerGuard
  <2> QED
    BY <2>4, <2>5, <2>6 DEF PinInv
<1>4. CASE Next
  BY <1>4, <1>2, <1>3, <1>v DEF IInv, Next
<1> QED
  BY <1>1, <1>4

(* What the invariant says of every state.                                 *)
LEMMA Invariant ==
  ASSUME Careful, OwnPages
  PROVE  Spec => []IInv
<1>1. Init => IInv
  BY InitVInv, InitPin DEF IInv
<1>2. IInv /\ [Next]_vars => IInv'
  BY IInvStep
<1> QED
  BY <1>1, <1>2, PTL DEF Spec

(* With one hook that stays, careful clients, targets on pages of their    *)
(* own and no race on the map, every enabled hook that is not in use is in *)
(* the map with a handler registered, and its page is guarded or going to  *)
(* be again: what Enable and the single step of VehHandler are for.        *)
THEOREM ArmedHooks ==
  ASSUME Careful, OwnPages
  PROVE  Spec => []HookStaysArmed
<1>1. ASSUME IInv PROVE HookStaysArmed
  <2> SUFFICES ASSUME pinned, ~raced, NEW h \in Hooks, AtRest(h), PageOfHook(h) \notin Fallible
               PROVE  /\ activeHooks[obj[h].target] = obj[h].detour
                      /\ handlers # {}
                      /\ \/ prot[PageOfHook(h)] = "GUARD"
                         \/ \E p \in Callers : Rearming(p, obj[h].target)
    BY DEF HookStaysArmed
  <2>1. VInv /\ PinInv
    BY <1>1 DEF IInv
  <2>2. PICK t : t = obj[h].target
    OBVIOUS
  <2>3. obj[h].enabled /\ ~Disabling(h) /\ PageOfHook(h) = PageOf[t]
    BY <2>2 DEF AtRest, InUse, Disabling, PageOfHook
  <2>4. t \in Targets /\ Owns(h, t) /\ Firm(t)
    BY <2>1, <2>2, <2>3, EnabledOwns DEF Firm
  <2>5. activeHooks[t] = obj[h].detour
    BY <2>1, <2>3, <2>4 DEF PinInv, OwnerInv
  <2>6. handlers # {}
    BY <2>1 DEF PinInv, HandlerInv
  <2>7. prot[PageOf[t]] = "GUARD" \/ \E p \in Callers : Rearming(p, t)
    BY <2>1, <2>2, <2>3, <2>4 DEF PinInv, GuardInv
  <2> QED
    BY <2>2, <2>3, <2>5, <2>6, <2>7
<1> QED
  BY <1>1, Invariant, PTL

(* Under the same hypotheses the system finds a handler for every guard    *)
(* violation and single step, and the loop of the single step stands on no *)
(* node that is erased.                                                    *)
THEOREM Handled ==
  ASSUME Careful, OwnPages
  PROVE  Spec => []NoUnhandled
<1>1. IInv => NoUnhandled
  BY DEF IInv, PinInv, HandlerInv, NoUnhandled, Alive
<1> QED
  BY <1>1, Invariant, PTL

(* Under the same hypotheses, and when VirtualProtect does not fail on its *)
(* page, a call of the pinned target runs the target's own code only while *)
(* another thread that took the guard away is going to restore it.         *)
THEOREM Window ==
  ASSUME Careful, OwnPages, PageOf[PinTarget] \notin Fallible
  PROVE  Spec => OwnCodeOnlyInWindow
<1> DEFINE
  OwnCode(p) == /\ pinned /\ ~raced
                /\ ip[p] = [fn |-> PinTarget, entry |-> TRUE]
                /\ ip'[p] = [fn |-> PinTarget, entry |-> FALSE]
  Covered(p) == \E q \in Callers \ {p} : Rearming(q, PinTarget)
<1>1. ASSUME IInv, [Next]_vars, NEW p \in Callers, OwnCode(p) PROVE Covered(p)
  <2>1. VInv /\ PinInv /\ p \in Threads
    BY <1>1 DEF IInv, Threads
  <2>2. ip[p].entry /\ ip'[p] # ip[p] /\ ~ip'[p].entry /\ ip'[p].fn = PinTarget
        /\ ip[p].fn = PinTarget
    BY <1>1
  <2>3. ip' # ip
    BY <2>2
  <2>4. PICK r \in Callers : CallerStep(r)
    <3>1. Next
      BY <1>1, <2>3 DEF vars, cpu
    <3>2. ASSUME NEW r \in Admins, AdminStep(r) PROVE FALSE
      BY <3>2, <2>1, <2>3, AdminFrame DEF Threads
    <3> QED
      BY <3>1, <3>2 DEF Next
  <2>5. r \in Threads
    BY DEF Threads
  <2>6. r = p /\ Execute(p)
    <3>1. ~Passing(r) /\ ~Trap(r) /\ ~SingleStep(r) /\ ~Rearm(r) /\ ~RearmEnds(r)
      BY <2>1, <2>3, <2>5, PassingEffect, TrapEffect, SingleStepEffect,
         RearmEffect,
         RearmEndsEffect
    <3>2. ~HandlerRedirect(r)
      BY <2>1, <2>2, <2>5, RedirectEffect,
         ConstantsAssumption DEF ConstantsAssumption
    <3>3. \A t \in Targets : ~Call(r, t)
      BY <2>1, <2>2, <2>5, CallEffect
    <3>4. Execute(r)
      BY <2>4, <3>1, <3>2, <3>3, CallerCases
    <3>5. r = p
      BY <3>4, <2>1, <2>2, <2>5, ExecuteEffect
    <3> QED
      BY <3>4, <3>5
  <2>7. pc[p] = "exec" /\ prot[PageOf[PinTarget]] # "GUARD"
    BY <2>6, <2>1, <2>2, ExecuteEffect
  <2>8. ~tf[p]
    BY <1>1, <2>1 DEF PinInv, EntryInv
  <2>9. PICK q \in Callers : Rearming(q, PinTarget)
    BY <2>1, <2>7, ConstantsAssumption DEF PinInv, UseInv, GuardInv,
       ConstantsAssumption
  <2>10. q # p
    BY <2>7, <2>8, <2>9 DEF Rearming
  <2> QED
    BY <2>9, <2>10
<1>2. ASSUME IInv, [Next]_vars PROVE [\A p \in Callers : OwnCode(p) => Covered(p)]_vars
  BY <1>1, <1>2
<1>3. [][\A p \in Callers : OwnCode(p) => Covered(p)]_vars => OwnCodeOnlyInWindow
  BY DEF OwnCodeOnlyInWindow
<1> QED
  BY <1>2, <1>3, Invariant, PTL DEF Spec
=============================================================================
