------------------------------ MODULE VehChain ------------------------------
(***************************************************************************)
(* Page-guard hooks (src/src/veh.cpp) and INT 3 hooks (src/src/int3veh.cpp)*)
(* in one process, internal build.  Each kind has one handler, and the     *)
(* system offers an exception to the one registered last first: a guard    *)
(* violation or a breakpoint is passed on to the handler it is for, but a  *)
(* single step is taken by whichever comes first, and only veh.cpp sets the*)
(* guards again.  The kinds also meet on pages: INT 3 is written and the   *)
(* byte before it read on a page that may be guarded.                      *)
(*                                                                         *)
(* Veh and Int3Veh have every statement and several threads that enable    *)
(* hooks.  Here one thread does, on objects it uses alternately, and calls *)
(* into the system succeed; todo holds the statements its call has still to*)
(* execute.  Both the loop over the guards and the walk along the handlers *)
(* are a step.                                                             *)
(***************************************************************************)
EXTENDS Naturals, Sequences

CONSTANTS
  Callers,  \* threads that call targets
  Targets,
  PageOf,   \* the page every target is on; detours are on other pages
  NULL

Kinds == {"veh", "int3"}
Calls == [kind : Kinds, target : Targets]
Pages == {PageOf[t] : t \in Targets}

ASSUME PagesAssumption == DOMAIN PageOf = Targets /\ NULL \notin Targets \cup Pages \cup Calls

VARIABLES
  hooked,   \* g_active_veh_hooks of both files, as sets of targets
  chain,    \* the handlers registered with the system, first one first
  patched,  \* targets that begin with INT 3
  prot,     \* protection of every page
  old,      \* old_protect_ of the Veh object of every target
  job,      \* the object being enabled or disabled, as one of Calls
  todo,     \* statements of that call still to execute
  saved,    \* oldProtect, a local of Patch
  at,       \* where every caller is
  pc,       \* "run", or an exception and how far it got
  tf,       \* trap flag of every caller
  dead,     \* an exception nobody handles: the process ends
  ordered,  \* history: hooks of both kinds were enabled as Ordered says
  quiet     \* history: hooks were changed as Quiet says

maps    == <<hooked, chain>>
memory  == <<patched, prot>>
admin   == <<old, job, todo, saved>>
cpu     == <<at, pc, tf>>
vars    == <<maps, memory, admin, cpu, dead, ordered, quiet>>

Nowhere == [in |-> "caller", of |-> NULL]

Init == /\ hooked = [k \in Kinds |-> {}] /\ chain = <<>>
        /\ patched = {} /\ prot = [g \in Pages |-> "RX"]
        /\ old = [t \in Targets |-> "RX"]
        /\ job = NULL /\ todo = <<>> /\ saved = NULL
        /\ at = [p \in Callers |-> Nowhere] /\ pc = [p \in Callers |-> "run"]
        /\ tf = [p \in Callers |-> FALSE] /\ dead = FALSE
        /\ ordered = TRUE /\ quiet = TRUE

-----------------------------------------------------------------------------
Registered(k) == \E i \in DOMAIN chain : chain[i] = k
Pending(statement) == \E i \in DOMAIN todo : todo[i] = statement

(* Enable or Disable takes or drops the entry of t under the lock, which   *)
(* int3veh.cpp holds until the byte is written as well.                    *)
Begin(k, t, targets, statements) ==
  /\ job = NULL /\ job' = [kind |-> k, target |-> t]
  /\ hooked' = [hooked EXCEPT ![k] = targets]
  /\ todo' = statements
  /\ UNCHANGED <<chain, memory, old, saved, dead>>

(* A bug to compare with: every Enable registers the handler.              *)
EnableVehAdds(t) ==
  /\ t \notin hooked["veh"]
  /\ Begin("veh", t, hooked["veh"] \cup {t}, <<"add", "guard">>)

EnableVeh(t) ==
  /\ t \notin hooked["veh"]
  /\ Begin("veh", t, hooked["veh"] \cup {t},
           IF Registered("veh") THEN <<"guard">> ELSE <<"add", "guard">>)

(* A bug to compare with: the handler goes with any hook.                  *)
DisableVehAny(t) ==
  /\ t \in hooked["veh"]
  /\ Begin("veh", t, hooked["veh"] \ {t}, <<"remove", "unguard">>)

DisableVeh(t) ==
  /\ t \in hooked["veh"]
  /\ Begin("veh", t, hooked["veh"] \ {t},
           IF hooked["veh"] = {t} THEN <<"remove", "unguard">> ELSE <<"unguard">>)

EnableInt3(t) ==
  /\ t \notin hooked["int3"]
  /\ Begin("int3", t, hooked["int3"] \cup {t},
           IF Registered("int3") THEN <<"read", "protect", "write", "restore">>
                                 ELSE <<"read", "protect", "write", "restore", "add">>)

DisableInt3(t) ==
  /\ t \in hooked["int3"]
  /\ Begin("int3", t, hooked["int3"] \ {t},
           IF hooked["int3"] = {t} THEN <<"protect", "write", "restore", "remove">>
                                   ELSE <<"protect", "write", "restore">>)

(* The next statement; with the last one the call returns.                 *)
At(statement) ==
  /\ todo # <<>> /\ Head(todo) = statement /\ todo' = Tail(todo)
  /\ job' = IF Tail(todo) = <<>> THEN NULL ELSE job

(* A bug to compare with: the new handler comes last.                      *)
AddLast ==
  /\ At("add")
  /\ chain' = Append(chain, job.kind)
  /\ UNCHANGED <<hooked, memory, old, saved, dead>>

(* AddVectoredExceptionHandler(true, ...): the new handler comes first.    *)
Add ==
  /\ At("add")
  /\ chain' = <<job.kind>> \o chain
  /\ UNCHANGED <<hooked, memory, old, saved, dead>>

(* RemoveVectoredExceptionHandler(g_hVeh): the rest closes up.              *)
Remove ==
  /\ At("remove")
  /\ \E i \in DOMAIN chain :
       /\ chain[i] = job.kind
       /\ chain' = [j \in 1 .. Len(chain) - 1 |-> chain[IF j < i THEN j ELSE j + 1]]
  /\ UNCHANGED <<hooked, memory, old, saved, dead>>

Page == PageOf[job.target]

Guard ==
  /\ At("guard")
  /\ old' = [old EXCEPT ![job.target] = prot[Page]]
  /\ prot' = [prot EXCEPT ![Page] = "GUARD"]
  /\ UNCHANGED <<maps, patched, saved, dead>>

Unguard ==
  /\ At("unguard")
  /\ prot' = [prot EXCEPT ![Page] = old[job.target]]
  /\ UNCHANGED <<maps, patched, old, saved, dead>>

(* What the loop of the single step in veh.cpp makes of the pages.         *)
Rearmed == [g \in Pages |-> IF \E t \in hooked["veh"] : PageOf[t] = g
                            THEN "GUARD" ELSE prot[g]]

(* patched = *target: on a guarded page this thread traps as others do, and*)
(* is back after a single step.                                            *)
Read ==
  \/ /\ At("read") /\ prot[Page] # "GUARD"
     /\ UNCHANGED <<maps, memory, old, saved, dead>>
  \/ /\ todo # <<>> /\ Head(todo) = "read" /\ prot[Page] = "GUARD"
     /\ todo' = [todo EXCEPT ![1] = "step"]
     /\ prot' = [prot EXCEPT ![Page] = "RX"]
     /\ dead' = ~Registered("veh")
     /\ UNCHANGED <<maps, patched, old, job, saved>>

ReadStep ==
  /\ At("step")
  /\ prot' = IF chain # <<>> /\ Head(chain) = "veh" THEN Rearmed ELSE prot
  /\ dead' = (chain = <<>>)
  /\ UNCHANGED <<maps, patched, old, saved>>

(* Memory::Patch.  The page may have been guarded again since VirtualProtect*)
(* made it writable: then the write faults for good.                       *)
Protect ==
  /\ At("protect")
  /\ saved' = prot[Page] /\ prot' = [prot EXCEPT ![Page] = "RWX"]
  /\ UNCHANGED <<maps, patched, old, dead>>

Write ==
  /\ At("write")
  /\ patched' = IF job.target \in hooked["int3"] THEN patched \cup {job.target}
                                                 ELSE patched \ {job.target}
  /\ dead' = (prot[Page] # "RWX")
  /\ UNCHANGED <<maps, prot, old, saved>>

Restore ==
  /\ At("restore")
  /\ prot' = [prot EXCEPT ![Page] = saved] /\ saved' = NULL
  /\ UNCHANGED <<maps, patched, old, dead>>

-----------------------------------------------------------------------------
Goto(p, from, to) == pc[p] = from /\ pc' = [pc EXCEPT ![p] = to]
MovesTo(p, in, of) == at' = [at EXCEPT ![p] = [in |-> in, of |-> of]]

Call(p, t) ==
  /\ at[p] = Nowhere /\ pc[p] = "run" /\ MovesTo(p, "entry", t)
  /\ UNCHANGED <<maps, memory, pc, tf, dead>>

OnGuard(p) == at[p].in \in {"entry", "body"} /\ prot[PageOf[at[p].of]] = "GUARD"
OnInt3(p)  == at[p].in = "entry" /\ at[p].of \in patched

(* A fetch from a guarded page removes the guard and raises.               *)
TrapGuard(p) ==
  /\ OnGuard(p) /\ Goto(p, "run", "guard")
  /\ prot' = [prot EXCEPT ![PageOf[at[p].of]] = "RX"]
  /\ UNCHANGED <<maps, patched, at, tf, dead>>

TrapInt3(p) ==
  /\ ~OnGuard(p) /\ OnInt3(p) /\ Goto(p, "run", "break")
  /\ UNCHANGED <<maps, memory, at, tf, dead>>

(* An instruction of a target, in two, or of a detour, in one.             *)
Execute(p) ==
  /\ at[p] # Nowhere /\ ~OnGuard(p) /\ ~OnInt3(p)
  /\ Goto(p, "run", IF tf[p] THEN "step" ELSE "run")
  /\ tf' = [tf EXCEPT ![p] = FALSE]
  /\ IF at[p].in = "entry" THEN MovesTo(p, "body", at[p].of) ELSE MovesTo(p, "caller", NULL)
  /\ UNCHANGED <<maps, memory, dead>>

(* What the first handler that does not pass the exception on makes of it; *)
(* without one it stays what it is and the process ends.                   *)
Taken(exception) ==
  CASE exception = "guard" /\ Registered("veh")  -> "veh"
    [] exception = "break" /\ Registered("int3") -> "int3"
    [] exception = "step" /\ chain # <<>> -> IF Head(chain) = "veh" THEN "rearm" ELSE "run"
    [] OTHER -> exception

Dispatch(p) ==
  /\ pc[p] \in {"guard", "break", "step"}
  /\ pc' = [pc EXCEPT ![p] = Taken(@)]
  /\ dead' = (Taken(pc[p]) = pc[p])
  /\ UNCHANGED <<maps, memory, at, tf>>

(* The handler of kind k redirects a thread at a target of its map and sets*)
(* the trap flag of any thread; that of int3veh.cpp waits for the lock.    *)
Redirect(p, k) ==
  /\ Goto(p, k, "run") /\ (k = "int3" => ~Pending("restore"))
  /\ tf' = [tf EXCEPT ![p] = TRUE]
  /\ IF at[p].in = "entry" /\ at[p].of \in hooked[k]
     THEN MovesTo(p, "detour", at[p].of) ELSE UNCHANGED at
  /\ UNCHANGED <<maps, memory, dead>>

Rearm(p) ==
  /\ Goto(p, "rearm", "run")
  /\ prot' = Rearmed
  /\ UNCHANGED <<maps, patched, at, tf, dead>>

-----------------------------------------------------------------------------
InFlight(p) == pc[p] # "run" \/ tf[p]

(* The first INT 3 hook is enabled before the first page-guard hook, or    *)
(* after the last: the handler that sets the guards is then put first.     *)
Ordered == ~(Registered("veh") /\ Pending("add") /\ job.kind = "int3")

(* The first INT 3 hook is enabled, or the last hook of a kind disabled.   *)
FirstOrLast == \/ Pending("remove") \/ (Pending("unguard") /\ hooked["veh"] = {})
               \/ Pending("add") /\ job.kind = "int3"

(* What else the two kinds rely on: one page-guard hook on a page; no call *)
(* in progress when there is no handler for it; no exception in progress   *)
(* while a page-guard hook is enabled, lest a single step guards its page  *)
(* before Enable has saved the protection, nor while INT 3 is written or   *)
(* taken away on a page with such a hook, and nobody on that page.         *)
Quiet ==
  /\ \A t, u \in hooked["veh"] : PageOf[t] = PageOf[u] => t = u
  /\ job # NULL =>
       LET OnPage == job.kind = "int3" /\ \E t \in hooked["veh"] : PageOf[t] = Page
       IN  \A p \in Callers :
             /\ InFlight(p) => ~FirstOrLast /\ ~Pending("guard") /\ ~OnPage
             /\ at[p].in \in {"entry", "body"} =>
                  ~FirstOrLast /\ (OnPage => PageOf[at[p].of] # Page)

AdminStep ==
  \/ Add \/ Remove \/ Guard \/ Unguard \/ Read \/ ReadStep \/ Protect \/ Write \/ Restore
  \/ \E t \in Targets : EnableVeh(t) \/ DisableVeh(t) \/ EnableInt3(t) \/ DisableInt3(t)

CallerStep(p) ==
  \/ TrapGuard(p) \/ TrapInt3(p) \/ Execute(p) \/ Dispatch(p) \/ Rearm(p)
  \/ \E k \in Kinds : Redirect(p, k)
  \/ \E t \in Targets : Call(p, t)

(* What follows other use of the library is not explored.                  *)
Next == /\ ~dead /\ quiet
        /\ \/ AdminStep /\ UNCHANGED cpu
           \/ \E p \in Callers : CallerStep(p) /\ UNCHANGED admin
        /\ ordered' = (ordered /\ Ordered') /\ quiet' = (quiet /\ Quiet')

Spec == Init /\ [][Next]_vars

-----------------------------------------------------------------------------
(* Every variable has its type; a handler is registered once.              *)
TypeOK ==
  /\ hooked \in [Kinds -> SUBSET Targets] /\ patched \subseteq Targets
  /\ chain \in Seq(Kinds) /\ \A i, j \in DOMAIN chain : chain[i] = chain[j] => i = j
  /\ prot \in [Pages -> {"RX", "GUARD", "RWX"}]
  /\ old \in [Targets -> {"RX", "GUARD", "RWX"}] /\ saved \in {"RX", "GUARD", "RWX", NULL}
  /\ at \in [Callers -> [in : {"caller", "entry", "body", "detour"}, of : Targets \cup {NULL}]]
  /\ pc \in [Callers -> {"run", "guard", "break", "step", "veh", "int3", "rearm"}]
  /\ tf \in [Callers -> BOOLEAN] /\ dead \in BOOLEAN

(* The page of t is guarded, or somebody is about to guard it.             *)
Armed(t) ==
  \/ prot[PageOf[t]] = "GUARD"
  \/ \E p \in Callers : InFlight(p)
  \/ Pending("guard") \/ Pending("step")
  \/ Pending("restore") /\ PageOf[t] = Page /\ saved = "GUARD"

(* Both kinds side by side, on common pages and targets: with the INT 3    *)
(* hooks begun first and hooks changed as Quiet says, every page-guard hook*)
(* stays armed, whatever breakpoints the other handler takes.              *)
GuardsKept == ordered /\ quiet => \A t \in hooked["veh"] : Armed(t)

(* In such use no exception goes unhandled, neither a caller's nor the one *)
(* Int3Veh::Enable itself raises on a guarded page.                        *)
NoCrash == quiet => ~dead

(* A call of a hooked target runs its own code only while a thread is about*)
(* to restore the guard that it took away; an INT 3 hook has no such gap.  *)
OwnCodeOnlyInWindow ==
  [][ordered /\ quiet /\ job = NULL =>
       \A p \in Callers : \A t \in Targets :
         at[p] = [in |-> "entry", of |-> t] /\ at'[p] = [in |-> "body", of |-> t]
         => /\ t \notin hooked["int3"]
            /\ t \in hooked["veh"] => \E q \in Callers \ {p} : InFlight(q)]_vars
=============================================================================
