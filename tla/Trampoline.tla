----------------------------- MODULE Trampoline -----------------------------
(***************************************************************************)
(* The life of trampoline hooks, src/src/trampoline.cpp, x64 internal      *)
(* build: Enable and Disable patch code that other threads run.  What is   *)
(* built in a slot is the subject of TrampolineBuild; here a slot is a     *)
(* relay, which jumps to the detour of a hook, and a trampoline, which runs*)
(* the instructions moved from a target and goes on after them, or, when   *)
(* these were the jump of an earlier hook, to the relay of that hook.      *)
(*                                                                         *)
(* One thread calls Enable and Disable: nothing in the library lets two.   *)
(* todo holds the statements its call has still to execute.  The others are*)
(* not stopped; a target is its first bytes, where the patch goes, as two  *)
(* instructions, and a body on the same page.                              *)
(***************************************************************************)
EXTENDS Naturals, Sequences

CONSTANTS
  Callers,   \* threads that call targets
  Hooks,     \* Trampoline objects, each with a detour and an origin variable
  Targets,
  PageOf,    \* the page every target is on
  Slots,     \* slots Memory can find in reach of the targets
  NULL

Pages == {PageOf[t] : t \in Targets}

ASSUME TargetsAssumption ==
  /\ DOMAIN PageOf = Targets /\ Slots \in Nat
  /\ Hooks \cap Targets = {} /\ NULL \notin Hooks \cup Targets \cup Nat
  /\ (Hooks \cup Targets) \cap Nat = {}
  /\ NULL \notin [hook : Hooks, next : Targets \cup 1 .. Slots]
  /\ NULL \notin [hook : Hooks, target : Targets, slot : 1 .. Slots \cup {NULL},
                 on : BOOLEAN, careful : BOOLEAN]

VARIABLES
  code,    \* first bytes of every target: opcode and operand, a slot in a jump
  prot,    \* protection of every page of code
  slot,    \* the relay and the trampoline in every slot, NULL before any
  free,    \* the next slot AllocateBuffer hands out
  obj,     \* enabled_, patchedPos_ and backup_ of every object
  origin,  \* the clients' variables: the slot Enable returned in *origin
  job,     \* what is being enabled or disabled, and in which slot
  todo,    \* statements of that call still to execute
  saved,   \* oldProtect, a local of Read and Patch
  at,      \* where every caller is
  fault,   \* a caller ran what is no code: the process ends
  proper   \* history: the library was used as Careful says

memory == <<code, prot>>
pool   == <<slot, free>>
client == <<obj, origin>>
call   == <<job, todo, saved>>
cpu    == <<at, fault>>
vars   == <<memory, pool, client, call, cpu, proper>>

Own     == [op |-> "own", rel |-> NULL]
Jump(s) == [op |-> "jmp", rel |-> s]
Nowhere == [in |-> "caller", of |-> NULL]

Init == /\ code = [t \in Targets |-> Own] /\ prot = [g \in Pages |-> "RX"]
        /\ slot = [s \in 1 .. Slots |-> NULL] /\ free = 1
        /\ obj = [h \in Hooks |-> [enabled |-> FALSE, pos |-> NULL, backup |-> NULL]]
        /\ origin = [h \in Hooks |-> NULL]
        /\ job = NULL /\ todo = <<>> /\ saved = NULL
        /\ at = [p \in Callers |-> Nowhere] /\ fault = FALSE
        /\ proper = TRUE

-----------------------------------------------------------------------------
Executable(g) == prot[g] \in {"RX", "RWX"}

At(statement) == todo # <<>> /\ Head(todo) = statement /\ todo' = Tail(todo)

(* Memory::Read of an instruction, or of a byte of padding, and what       *)
(* CreateTrampolineFunction makes of it.                                   *)
NextInst == <<"read", "restore", "build">>

(* A bug to compare with: the backup is taken when the opcode is written.  *)
EnableRestLate ==
  <<"protect", "opcode", "restore", "backup", "protect", "operand", "restore", "return">>

(* What Enable does when the trampoline is built, with two Memory::Patch.  *)
EnableRest ==
  <<"backup", "protect", "opcode", "restore", "protect", "operand", "restore", "return">>

(* What Disable does, with one Memory::Patch.                              *)
DisableRest == <<"protect", "old_opcode", "old_operand", "restore", "return_false">>

(* The hook whose detour a call of t runs, or t.  The operand decides: an  *)
(* opcode alone is not followed by callers that are kept away.             *)
InForce(t) == IF code[t].rel = NULL THEN t ELSE slot[code[t].rel].hook

(* Enable(target, detour, &origin), which does not look at enabled_.  If an*)
(* address is not executable or no slot is left it returns false and       *)
(* changes nothing.                                                        *)
Enable(h, t) ==
  /\ job = NULL /\ Executable(PageOf[t]) /\ free <= Slots
  /\ job' = [hook |-> h, target |-> t, slot |-> free, on |-> TRUE,
             careful |-> ~obj[h].enabled]
  /\ free' = free + 1
  /\ todo' = NextInst
  /\ UNCHANGED <<memory, slot, client, saved, cpu>>

(* A bug to compare with: a jump that is there already is not followed.    *)
BuildOverJump ==
  /\ todo = <<"build">> /\ todo' = EnableRest
  /\ slot' = [slot EXCEPT ![job.slot] = [hook |-> job.hook, next |-> job.target]]
  /\ UNCHANGED <<memory, free, client, job, saved, cpu>>

(* The last instruction to be moved ends CreateTrampolineFunction.         *)
Build ==
  /\ todo = <<"build">> /\ todo' = EnableRest
  /\ slot' = [slot EXCEPT ![job.slot] =
                [hook |-> job.hook,
                 next |-> IF code[job.target] = Own THEN job.target ELSE code[job.target].rel]]
  /\ UNCHANGED <<memory, free, client, job, saved, cpu>>

(* After any other the next is read ...                                    *)
BuildGoesOn ==
  /\ todo = <<"build">> /\ todo' = NextInst
  /\ UNCHANGED <<memory, pool, client, job, saved, cpu>>

(* ... or the call returns false, and nobody gives the slot back.          *)
BuildFails ==
  /\ todo = <<"build">> /\ todo' = <<>> /\ job' = NULL
  /\ UNCHANGED <<memory, pool, client, saved, cpu>>

(* enabled_, patchedPos_ and backup_ of the object are set.                *)
Backup ==
  /\ At("backup")
  /\ obj' = [obj EXCEPT ![job.hook] =
               [enabled |-> FALSE, pos |-> job.target, backup |-> code[job.target]]]
  /\ UNCHANGED <<memory, pool, origin, job, saved, cpu>>

(* A bug to compare with: the code is writable, but not executable.        *)
ProtectWritable(statement, new) ==
  LET g == PageOf[job.target]
  IN  /\ At(statement)
      /\ saved' = prot[g] /\ prot' = [prot EXCEPT ![g] = "RW"]
      /\ UNCHANGED <<code, pool, client, job, cpu>>

(* VirtualProtect at the begin of Read or Patch ...                        *)
Protect(statement, new) ==
  LET g == PageOf[job.target]
  IN  /\ At(statement)
      /\ saved' = prot[g] /\ prot' = [prot EXCEPT ![g] = new]
      /\ UNCHANGED <<code, pool, client, job, cpu>>

(* ... and at their end.                                                   *)
Restore ==
  /\ At("restore")
  /\ prot' = [prot EXCEPT ![PageOf[job.target]] = saved]
  /\ saved' = NULL
  /\ UNCHANGED <<code, pool, client, job, cpu>>

(* The opcode or the operand of the jump, or of the backup, is written.    *)
Write(statement, field, value) ==
  /\ At(statement)
  /\ code' = [code EXCEPT ![job.target] = [@ EXCEPT ![field] = value]]
  /\ UNCHANGED <<prot, pool, client, job, saved, cpu>>

EnableReturns ==
  /\ At("return")
  /\ origin' = [origin EXCEPT ![job.hook] = job.slot]
  /\ obj' = [obj EXCEPT ![job.hook] = [@ EXCEPT !.enabled = TRUE]]
  /\ job' = NULL
  /\ UNCHANGED <<memory, pool, saved, cpu>>

(* Disable, also the body of ~Trampoline, copies the backup to patchedPos_,*)
(* whatever is there now and whether the object is enabled or not.  Before *)
(* any Enable got that far patchedPos_ is not initialised.                 *)
Disable(h) ==
  LET t == obj[h].pos
  IN  /\ job = NULL /\ t # NULL
      /\ job' = [hook |-> h, target |-> t, slot |-> NULL, on |-> FALSE,
                 careful |-> obj[h].enabled /\ InForce(t) = h]
      /\ todo' = DisableRest
      /\ UNCHANGED <<memory, pool, client, saved, cpu>>

(* A bug to compare with: the slot is given back at once.                  *)
DisableReturnsSlot ==
  /\ At("return_false")
  /\ obj' = [obj EXCEPT ![job.hook] = [@ EXCEPT !.enabled = FALSE]]
  /\ free' = IF origin[job.hook] = NULL THEN free ELSE origin[job.hook]
  /\ job' = NULL
  /\ UNCHANGED <<memory, slot, origin, saved, cpu>>

DisableReturns ==
  /\ At("return_false")
  /\ obj' = [obj EXCEPT ![job.hook] = [@ EXCEPT !.enabled = FALSE]]
  /\ job' = NULL
  /\ UNCHANGED <<memory, pool, origin, saved, cpu>>

-----------------------------------------------------------------------------
Moves(p, in, of) == /\ at' = [at EXCEPT ![p] = [in |-> in, of |-> of]]
                    /\ UNCHANGED fault

Faults == fault' = TRUE /\ UNCHANGED at

(* p jumps to the relay in a slot, to the body of a target, or astray.     *)
GoesTo(p, x) == CASE x \in Targets -> Moves(p, "body", x)
                  [] x \in 1 .. Slots -> Moves(p, "detour", slot[x].hook)
                  [] OTHER -> Faults

Call(p, t) == at[p] = Nowhere /\ Moves(p, "entry", t)

(* The first bytes are fetched: the target's own, a jump, or half of each. *)
Fetch(p) ==
  LET t == at[p].of
  IN  /\ at[p].in = "entry"
      /\ CASE ~Executable(PageOf[t]) -> Faults
           [] code[t] = Own -> Moves(p, "inside", t)
           [] OTHER -> GoesTo(p, IF code[t].op = "jmp" THEN code[t].rel ELSE NULL)

(* The next instruction still lies within the bytes a patch overwrites.    *)
GoOn(p) ==
  LET t == at[p].of
  IN  /\ at[p].in = "inside"
      /\ IF Executable(PageOf[t]) /\ code[t] = Own THEN Moves(p, "body", t) ELSE Faults

CallReturns(p) ==
  \/ /\ at[p].in = "body"
     /\ IF Executable(PageOf[at[p].of]) THEN Moves(p, "caller", NULL) ELSE Faults
  \/ at[p].in = "detour" /\ Moves(p, "caller", NULL)

(* A detour calls the original function through its variable.              *)
CallOrigin(p) ==
  /\ at[p].in = "detour" /\ origin[at[p].of] # NULL
  /\ GoesTo(p, slot[origin[at[p].of]].next)

-----------------------------------------------------------------------------
(* Use of the library that its patches survive: an object is enabled when  *)
(* it is not, while no thread runs its detour, and disabled when it is the *)
(* last one on its target; meanwhile no thread is in the first bytes of the*)
(* target, nor anywhere on its page while the instructions are read.       *)
Building == Len(todo) > 0 /\ todo[Len(todo)] = "build"

Careful ==
  job # NULL =>
    /\ job.careful
    /\ \A p \in Callers :
         LET on == at[p].in \in {"entry", "inside", "body"}
         IN  /\ at[p] = [in |-> "detour", of |-> job.hook] => ~job.on
             /\ on => /\ at[p].of = job.target => at[p].in = "body"
                      /\ Building => PageOf[at[p].of] # PageOf[job.target]

AdminStep ==
  \/ Build \/ BuildGoesOn \/ BuildFails \/ Backup \/ Restore \/ EnableReturns \/ DisableReturns
  \/ Protect("protect", "RWX") \/ Protect("read", "RW")
  \/ Write("opcode", "op", "jmp") \/ Write("operand", "rel", job.slot)
  \/ Write("old_opcode", "op", obj[job.hook].backup.op)
  \/ Write("old_operand", "rel", obj[job.hook].backup.rel)
  \/ \E h \in Hooks : Disable(h) \/ \E t \in Targets : Enable(h, t)

CallerStep(p) ==
  /\ \/ Fetch(p) \/ GoOn(p) \/ CallReturns(p) \/ CallOrigin(p)
     \/ \E t \in Targets : Call(p, t)
  /\ UNCHANGED <<memory, pool, client, call>>

Next == /\ ~fault
        /\ AdminStep \/ \E p \in Callers : CallerStep(p)
        /\ proper' = (proper /\ Careful')

Spec == Init /\ [][Next]_vars

-----------------------------------------------------------------------------
(* An Enable has written the jump, a Disable has taken it away.            *)
Installing(h) == /\ job # NULL /\ job.hook = h
                 /\ todo \in {<<"restore", "return">>, <<"return">>}
Removing(h)   == /\ job # NULL /\ job.hook = h
                 /\ todo \in {<<"restore", "return_false">>, <<"return_false">>}

On(h) == IF (obj[h].enabled /\ ~Removing(h)) \/ Installing(h) THEN obj[h].pos ELSE NULL

(* Every variable has its type; a backup is whole code or a whole jump.    *)
TypeOK ==
  /\ \A t \in Targets : code[t].op \in {"own", "jmp"} /\ code[t].rel \in 1 .. Slots \cup {NULL}
  /\ prot \in [Pages -> {"RX", "RW", "RWX"}] /\ saved \in {"RX", "RW", "RWX", NULL}
  /\ \A s \in 1 .. Slots : slot[s] # NULL =>
       slot[s].hook \in Hooks /\ slot[s].next \in Targets \cup 1 .. Slots \cup {NULL}
  /\ free \in 1 .. Slots + 1 /\ origin \in [Hooks -> 1 .. Slots \cup {NULL}]
  /\ \A h \in Hooks : obj[h].pos # NULL =>
       obj[h].pos \in Targets /\ obj[h].backup \in {Own} \cup {Jump(s) : s \in 1 .. Slots}
  /\ at \in [Callers -> [in : {"caller", "entry", "inside", "body", "detour"},
                         of : Hooks \cup Targets \cup {NULL}]]
  /\ fault \in BOOLEAN /\ proper \in BOOLEAN

(* With careful clients no thread runs into the patching: neither those on *)
(* the same page, nor those in a detour or a trampoline, also when the     *)
(* object they are in was disabled meanwhile.                              *)
NoFault == proper => ~fault

(* With careful clients nothing is left behind: a target no object is on   *)
(* has its own bytes, and between calls every page its own protection.     *)
CodeRestored ==
  proper => /\ \A t \in Targets : job = NULL /\ (\A h \in Hooks : On(h) # t) => code[t] = Own
            /\ job = NULL => \A g \in Pages : prot[g] = "RX"

(* What is in a slot stays there: a thread in the detour of a disabled     *)
(* object still calls the original through it.                             *)
SlotsStay ==
  [][\A s \in 1 .. Slots : slot[s] # NULL => slot'[s] = slot[s]]_vars

(* Callers see a stack of hooks on every target, changed in one step by the*)
(* write or the restoration of the operand.                                *)
HookIn(x) == IF x \in Targets THEN x ELSE slot[x].hook

Below(h) == IF Installing(h) THEN HookIn(slot[job.slot].next)
            ELSE IF origin[h] = NULL THEN NULL ELSE HookIn(slot[origin[h]].next)

Stack == INSTANCE HookStack WITH
  Threads <- Callers, Body <- [t \in Targets |-> t],
  top   <- [t \in Targets |-> InForce(t)],
  on    <- [h \in Hooks |-> On(h)],
  below <- [h \in Hooks |-> Below(h)],
  calls <- [p \in Callers |-> IF at[p].in = "entry" THEN NULL ELSE at[p].of]

ImplementsStack ==
  Stack!Init /\ [][proper' => (UNCHANGED Stack!vars \/ Stack!Next)]_vars
=============================================================================
