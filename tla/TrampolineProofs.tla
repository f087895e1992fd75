-------------------------- MODULE TrampolineProofs --------------------------
(***************************************************************************)
(* Proofs about Trampoline, for any targets, pages, objects, slots and     *)
(* callers.  Whatever the clients do, what a target holds outside a patch  *)
(* is whole, and slots stay as they were built.  While they are careful no *)
(* thread faults, every target gets its bytes back, and callers see a stack*)
(* of hooks on it.                                                         *)
(*                                                                         *)
(* TInv is the invariant of the first part: the types, the statements left *)
(* of each call, and what each of them has done to the page and the bytes. *)
(* ProperInv, of the second, is about the chain of the objects on a target:*)
(* a new slot is larger than every other, so that the slot of an object    *)
(* says how old it is.                                                     *)
(***************************************************************************)
EXTENDS Trampoline, TLAPS

(* The statements a call has still to execute: E of an Enable whose        *)
(* trampoline is built, D of a Disable, R while instructions are read.     *)
R3 == <<"read", "restore", "build">>
R2 == <<"restore", "build">>
R1 == <<"build">>
E8 == <<"backup", "protect", "opcode", "restore", "protect", "operand", "restore", "return">>
E7 == <<"protect", "opcode", "restore", "protect", "operand", "restore", "return">>
E6 == <<"opcode", "restore", "protect", "operand", "restore", "return">>
E5 == <<"restore", "protect", "operand", "restore", "return">>
E4 == <<"protect", "operand", "restore", "return">>
E3 == <<"operand", "restore", "return">>
E2 == <<"restore", "return">>
E1 == <<"return">>
D5 == <<"protect", "old_opcode", "old_operand", "restore", "return_false">>
D4 == <<"old_opcode", "old_operand", "restore", "return_false">>
D3 == <<"old_operand", "restore", "return_false">>
D2 == <<"restore", "return_false">>
D1 == <<"return_false">>

Reading   == {R3, R2, R1}
Enabling  == {E8, E7, E6, E5, E4, E3, E2, E1}
Disabling == {D5, D4, D3, D2, D1}
Open      == {R2, E6, E5, E3, E2, D4, D3, D2}     \* the page is unprotected
Halved    == {E5, E4, E3, D3}                     \* opcode written, operand not

Filled(s) == s \in 1 .. Slots /\ slot[s] # NULL

(* What the first bytes of a target are, and what a hook keeps of them.    *)
Bytes == [op : {"own", "jmp"}, rel : 1 .. Slots \cup {NULL}]
Whole(c) == c = Own \/ \E s \in 1 .. Slots : Filled(s) /\ c = Jump(s)
After(c, t) == IF c = Own THEN t ELSE c.rel      \* where a trampoline goes on

Jobs == [hook : Hooks, target : Targets, slot : 1 .. Slots \cup {NULL},
         on : BOOLEAN, careful : BOOLEAN]
Objects == [enabled : BOOLEAN, pos : Targets \cup {NULL}, backup : Bytes \cup {NULL}]
Slices  == [hook : Hooks, next : Targets \cup 1 .. Slots]
Spots   == [in : {"caller", "entry", "inside", "body", "detour"},
            of : Hooks \cup Targets \cup {NULL}]

Typed ==
  /\ code \in [Targets -> Bytes]
  /\ prot \in [Pages -> {"RX", "RW", "RWX"}] /\ saved \in {"RX", "RW", "RWX", NULL}
  /\ slot \in [1 .. Slots -> Slices \cup {NULL}] /\ free \in 1 .. Slots + 1
  /\ obj \in [Hooks -> Objects] /\ origin \in [Hooks -> 1 .. Slots \cup {NULL}]
  /\ job \in Jobs \cup {NULL}
  /\ at \in [Callers -> Spots] /\ fault \in BOOLEAN /\ proper \in BOOLEAN

(* A caller is in a function of the right kind.                            *)
SpotInv ==
  \A p \in Callers :
    /\ at[p].in \in {"entry", "inside", "body"} => at[p].of \in Targets
    /\ at[p].in = "detour" => at[p].of \in Hooks
    /\ at[p].in = "caller" => at[p].of = NULL

(* The call in progress and its statements belong together.                *)
JobInv ==
  /\ job = NULL => todo = <<>>
  /\ job # NULL =>
       IF job.on
       THEN /\ todo \in Reading \cup Enabling
            /\ job.slot \in 1 .. Slots /\ free = job.slot + 1
            /\ todo \in Reading => slot[job.slot] = NULL
            /\ todo \in Enabling => slot[job.slot] # NULL /\ slot[job.slot].hook = job.hook
            /\ todo \in Enabling \ {E8} => obj[job.hook].pos = job.target
       ELSE /\ todo \in Disabling /\ obj[job.hook].pos = job.target

(* Slots that are not handed out are empty; what leads to a slot leads to  *)
(* one that is filled.                                                     *)
FreeInv   == \A s \in 1 .. Slots : s >= free => slot[s] = NULL
NextInv   == \A s \in 1 .. Slots :
               Filled(s) => slot[s].next \in Targets \/ Filled(slot[s].next)
OriginInv == \A h \in Hooks : origin[h] # NULL => Filled(origin[h])
BackupInv == \A h \in Hooks : obj[h].pos # NULL => Whole(obj[h].backup)
CodeInv   == \A t \in Targets : code[t].rel # NULL => Filled(code[t].rel)
SlotInv   == FreeInv /\ NextInv /\ OriginInv /\ BackupInv /\ CodeInv

(* The bytes of a target are whole except between two writes to it.        *)
WholeInv ==
  /\ \A t \in Targets : Whole(code[t]) \/ (job # NULL /\ job.target = t /\ todo \in Halved)
  /\ job # NULL /\ todo \in {E5, E4, E3} => code[job.target].op = "jmp"
  /\ job # NULL /\ todo = D3 => code[job.target].op = obj[job.hook].backup.op

(* Between the statements that change it a page has its own protection.    *)
ProtInv ==
  /\ \A g \in Pages :
       prot[g] = IF job # NULL /\ todo \in Open /\ PageOf[job.target] = g
                 THEN IF todo = R2 THEN "RW" ELSE "RWX" ELSE "RX"
  /\ job # NULL /\ todo \in Open => saved = "RX"

TInv == Typed /\ SpotInv /\ JobInv /\ SlotInv /\ WholeInv /\ ProtInv

(* The objects on a target, and the slot each was enabled with.            *)
Ons(t) == {h \in Hooks : On(h) = t}
Sl(h)  == IF Installing(h) THEN job.slot ELSE origin[h]

(* c is the jump of the youngest object of S, or there is none.            *)
TopOf(c, S) ==
  \/ S = {} /\ c = Own
  \/ \E g \in S : c = Jump(Sl(g)) /\ \A f \in S : Sl(f) <= Sl(g)

Under(h) == {g \in Ons(On(h)) : Sl(g) < Sl(h)}

(* With careful clients an object that is on is in a slot of its own, its  *)
(* trampoline goes on with what its backup is, and that is the jump of the *)
(* youngest of the older objects on the same target ...                    *)
OnInv ==
  \A h \in Hooks : On(h) # NULL =>
    /\ Filled(Sl(h)) /\ slot[Sl(h)].hook = h
    /\ slot[Sl(h)].next = After(obj[h].backup, On(h))
    /\ TopOf(obj[h].backup, Under(h))

(* ... as the bytes of a target are the jump of the youngest of all.       *)
TopInv ==
  \A t \in Targets :
    TopOf(code[t], Ons(t)) \/ (job # NULL /\ job.target = t /\ todo \in Halved)

(* What the call in progress has found and kept is still so.               *)
EnableInv ==
  job # NULL /\ job.on =>
    /\ ~obj[job.hook].enabled
    /\ todo = E8 => slot[job.slot].next = After(code[job.target], job.target)
    /\ todo \in {E7, E6, E5, E4, E3} =>
         /\ slot[job.slot].next = After(obj[job.hook].backup, job.target)
         /\ TopOf(obj[job.hook].backup, Ons(job.target))
         /\ code[job.target].rel = obj[job.hook].backup.rel
DisableInv ==
  job # NULL /\ ~job.on =>
    /\ obj[job.hook].enabled
    /\ todo \in {D5, D4, D3} =>
         /\ On(job.hook) = job.target /\ code[job.target].rel = Sl(job.hook)
         /\ \A g \in Ons(job.target) : Sl(g) <= Sl(job.hook)

InsideInv == \A p \in Callers : at[p].in = "inside" => code[at[p].of] = Own

ProperInv == proper => /\ Careful /\ ~fault /\ InsideInv
                       /\ OnInv /\ TopInv /\ EnableInv /\ DisableInv

-----------------------------------------------------------------------------
(* The tails are not empty and no two of them are the same.                *)
LEMMA Apart ==
  /\ <<>> \notin Reading \cup Enabling \cup Disabling
  /\ R3 \notin {R2, R1} /\ R2 # R1
  /\ E8 \notin {E7, E6, E5, E4, E3, E2, E1} /\ E7 \notin {E6, E5, E4, E3, E2, E1}
  /\ E6 \notin {E5, E4, E3, E2, E1} /\ E5 \notin {E4, E3, E2, E1}
  /\ E4 \notin {E3, E2, E1} /\ E3 \notin {E2, E1} /\ E2 # E1
  /\ D5 \notin {D4, D3, D2, D1} /\ D4 \notin {D3, D2, D1} /\ D3 \notin {D2, D1} /\ D2 # D1
  /\ Reading \cap Enabling = {} /\ Reading \cap Disabling = {} /\ Enabling \cap Disabling = {}
<1> USE DEF R3, R2, R1, E8, E7, E6, E5, E4, E3, E2, E1, D5, D4, D3, D2, D1
<1>1. <<>> \notin Reading \cup Enabling \cup Disabling
  BY DEF Reading, Enabling, Disabling
<1>2. R3 \notin {R2, R1} /\ R2 # R1
  OBVIOUS
<1>3. /\ E8 \notin {E7, E6, E5, E4, E3, E2, E1} /\ E7 \notin {E6, E5, E4, E3, E2, E1}
      /\ E6 \notin {E5, E4, E3, E2, E1} /\ E5 \notin {E4, E3, E2, E1}
      /\ E4 \notin {E3, E2, E1} /\ E3 \notin {E2, E1} /\ E2 # E1
  OBVIOUS
<1>4. D5 \notin {D4, D3, D2, D1} /\ D4 \notin {D3, D2, D1} /\ D3 \notin {D2, D1} /\ D2 # D1
  OBVIOUS
<1>5. Reading \cap Enabling = {}
  BY DEF Reading, Enabling
<1>6. Reading \cap Disabling = {}
  BY DEF Reading, Disabling
<1>7. Enabling \cap Disabling = {}
  <2>1. D5 \notin Enabling
    BY DEF Enabling
  <2>2. D4 \notin Enabling
    BY DEF Enabling
  <2>3. D3 \notin Enabling
    BY DEF Enabling
  <2>4. D2 \notin Enabling
    BY DEF Enabling
  <2>5. D1 \notin Enabling
    BY DEF Enabling
  <2>6. QED
    BY <2>1, <2>2, <2>3, <2>4, <2>5 DEF Disabling
<1>8. QED
  BY <1>1, <1>2, <1>3, <1>4, <1>5, <1>6, <1>7

(* What a call starts with, and what it goes on with.                      *)
LEMMA Starts == NextInst = R3 /\ EnableRest = E8 /\ DisableRest = D5
  BY DEF NextInst, EnableRest, DisableRest, R3, E8, D5

(* Every statement comes in these calls, and leaves these statements.      *)
LEMMA Statements ==
  ASSUME todo \in {<<>>} \cup Reading \cup Enabling \cup Disabling
  PROVE  /\ At("read") => todo = R3 /\ todo' = R2
         /\ At("backup") => todo = E8 /\ todo' = E7
         /\ At("protect") => \/ todo = E7 /\ todo' = E6
                             \/ todo = E4 /\ todo' = E3
                             \/ todo = D5 /\ todo' = D4
         /\ At("opcode") => todo = E6 /\ todo' = E5
         /\ At("operand") => todo = E3 /\ todo' = E2
         /\ At("old_opcode") => todo = D4 /\ todo' = D3
         /\ At("old_operand") => todo = D3 /\ todo' = D2
         /\ At("restore") => \/ todo = R2 /\ todo' = R1
                             \/ todo = E5 /\ todo' = E4
                             \/ todo = E2 /\ todo' = E1
                             \/ todo = D2 /\ todo' = D1
         /\ At("return") => todo = E1 /\ todo' = <<>>
         /\ At("return_false") => todo = D1 /\ todo' = <<>>
         /\ Building <=> todo \in Reading
         /\ todo = <<"build">> <=> todo = R1
<1> USE DEF R3, R2, R1, E8, E7, E6, E5, E4, E3, E2, E1, D5, D4, D3, D2, D1
<1>1. ASSUME todo \in Reading
      PROVE  /\ At("read") => todo = R3 /\ todo' = R2
             /\ At("restore") => todo = R2 /\ todo' = R1
             /\ ~At("backup") /\ ~At("protect") /\ ~At("opcode") /\ ~At("operand")
             /\ ~At("old_opcode") /\ ~At("old_operand") /\ ~At("return") /\ ~At("return_false")
             /\ Building
  <2>1. CASE todo = R3
    BY <2>1 DEF At, Building
  <2>2. CASE todo = R2
    BY <2>2 DEF At, Building
  <2>3. CASE todo = R1
    BY <2>3 DEF At, Building
  <2>4. QED
    BY <1>1, <2>1, <2>2, <2>3 DEF Reading
<1>2. ASSUME todo \in Enabling
      PROVE  /\ At("backup") => todo = E8 /\ todo' = E7
             /\ At("protect") => (todo = E7 /\ todo' = E6) \/ (todo = E4 /\ todo' = E3)
             /\ At("opcode") => todo = E6 /\ todo' = E5
             /\ At("operand") => todo = E3 /\ todo' = E2
             /\ At("restore") => (todo = E5 /\ todo' = E4) \/ (todo = E2 /\ todo' = E1)
             /\ At("return") => todo = E1 /\ todo' = <<>>
             /\ ~At("read") /\ ~At("old_opcode") /\ ~At("old_operand") /\ ~At("return_false")
             /\ ~Building
  <2>1. CASE todo = E8
    BY <2>1 DEF At, Building
  <2>2. CASE todo = E7
    BY <2>2 DEF At, Building
  <2>3. CASE todo = E6
    BY <2>3 DEF At, Building
  <2>4. CASE todo = E5
    BY <2>4 DEF At, Building
  <2>5. CASE todo = E4
    BY <2>5 DEF At, Building
  <2>6. CASE todo = E3
    BY <2>6 DEF At, Building
  <2>7. CASE todo = E2
    BY <2>7 DEF At, Building
  <2>8. CASE todo = E1
    BY <2>8 DEF At, Building
  <2>9. QED
    BY <1>2, <2>1, <2>2, <2>3, <2>4, <2>5, <2>6, <2>7, <2>8 DEF Enabling
<1>3. ASSUME todo \in Disabling
      PROVE  /\ At("protect") => todo = D5 /\ todo' = D4
             /\ At("old_opcode") => todo = D4 /\ todo' = D3
             /\ At("old_operand") => todo = D3 /\ todo' = D2
             /\ At("restore") => todo = D2 /\ todo' = D1
             /\ At("return_false") => todo = D1 /\ todo' = <<>>
             /\ ~At("read") /\ ~At("backup") /\ ~At("opcode") /\ ~At("operand") /\ ~At("return")
             /\ ~Building
  <2>1. CASE todo = D5
    BY <2>1 DEF At, Building
  <2>2. CASE todo = D4
    BY <2>2 DEF At, Building
  <2>3. CASE todo = D3
    BY <2>3 DEF At, Building
  <2>4. CASE todo = D2
    BY <2>4 DEF At, Building
  <2>5. CASE todo = D1
    BY <2>5 DEF At, Building
  <2>6. QED
    BY <1>3, <2>1, <2>2, <2>3, <2>4, <2>5 DEF Disabling
<1>4. ASSUME todo = <<>>
      PROVE  /\ ~At("protect") /\ ~At("old_opcode") /\ ~At("old_operand") /\ ~At("restore")
             /\ ~At("return_false") /\ ~At("read") /\ ~At("backup") /\ ~At("opcode")
             /\ ~At("operand") /\ ~At("return") /\ ~Building
  BY <1>4 DEF At, Building
<1>5. Building <=> todo \in Reading
  BY <1>1, <1>2, <1>3, <1>4, Apart
<1> HIDE DEF R3, R2, E8, E7, E6, E5, E4, E3, E2, E1, D5, D4, D3, D2, D1
<1>6. todo = <<"build">> <=> todo = R1
  OBVIOUS
<1> HIDE DEF R1
<1>7. CASE todo = <<>>
  BY <1>4, <1>5, <1>6, <1>7
<1>8. CASE todo \in Reading
  BY <1>1, <1>5, <1>6, <1>8
<1>9. CASE todo \in Enabling
  BY <1>2, <1>5, <1>6, <1>9
<1>10. CASE todo \in Disabling
  BY <1>3, <1>5, <1>6, <1>10
<1>11. QED
  BY <1>7, <1>8, <1>9, <1>10

-----------------------------------------------------------------------------
(* What is known of the call in progress.                                  *)
LEMMA JobTyped ==
  ASSUME TInv, job # NULL
  PROVE  /\ job \in Jobs /\ job.hook \in Hooks /\ job.target \in Targets /\ job.on \in BOOLEAN
         /\ job.slot \in 1 .. Slots \cup {NULL}
         /\ PageOf[job.target] \in Pages
         /\ obj[job.hook] \in Objects /\ code[job.target] \in Bytes
  BY DEF TInv, Typed, Jobs, Pages

(* No object, target, slot or record is NULL, and they are not the same.   *)
LEMMA Different ==
  /\ NULL \notin Hooks /\ NULL \notin Targets /\ NULL \notin 1 .. Slots
  /\ NULL \notin Slices /\ NULL \notin Jobs
  /\ Hooks \cap Targets = {} /\ Targets \cap (1 .. Slots) = {} /\ Hooks \cap (1 .. Slots) = {}
  /\ Slots \in Nat
  BY TargetsAssumption DEF Slices, Jobs

(* The process starts with its own code and no slot.                       *)
LEMMA InitTyped == Init => TInv
<1> SUFFICES ASSUME Init PROVE TInv
  OBVIOUS
<1> USE Different DEF Init
<1>1. /\ Own \in Bytes /\ Nowhere \in Spots
     /\ [enabled |-> FALSE, pos |-> NULL, backup |-> NULL] \in Objects
  BY DEF Own, Nowhere, Bytes, Spots, Objects
<1>2. Typed
  <2>1. code \in [Targets -> Bytes] /\ prot \in [Pages -> {"RX", "RW", "RWX"}] /\ saved = NULL
    BY <1>1
  <2>2. slot \in [1 .. Slots -> Slices \cup {NULL}] /\ free \in 1 .. Slots + 1
    OBVIOUS
  <2>3. obj \in [Hooks -> Objects] /\ origin \in [Hooks -> 1 .. Slots \cup {NULL}]
    BY <1>1
  <2>4. job = NULL /\ at \in [Callers -> Spots] /\ fault \in BOOLEAN /\ proper \in BOOLEAN
    BY <1>1
  <2>5. QED
    BY <2>1, <2>2, <2>3, <2>4 DEF Typed
<1>3. SpotInv
  BY DEF SpotInv, Nowhere
<1>4. JobInv
  BY DEF JobInv
<1>5. SlotInv
  BY DEF SlotInv, FreeInv, NextInv, OriginInv, BackupInv, CodeInv, Filled, Own
<1>6. WholeInv
  BY DEF WholeInv, Whole, Own
<1>7. ProtInv
  BY DEF ProtInv
<1>8. QED
  BY <1>2, <1>3, <1>4, <1>5, <1>6, <1>7 DEF TInv

(* A caller that goes to another place is in a function of the right kind. *)
LEMMA MovesTyped ==
  ASSUME TInv, NEW p \in Callers,
         NEW i \in {"caller", "entry", "inside", "body", "detour"}, NEW f, Moves(p, i, f),
         i \in {"entry", "inside", "body"} => f \in Targets,
         i = "detour" => f \in Hooks, i = "caller" => f = NULL
  PROVE  at' \in [Callers -> Spots] /\ SpotInv' /\ fault' \in BOOLEAN
<1>1. [in |-> i, of |-> f] \in Spots
  BY DEF Spots
<1>2. at' = [at EXCEPT ![p] = [in |-> i, of |-> f]] /\ fault' = fault
  BY DEF Moves
<1> DEFINE s == [in |-> i, of |-> f]
<1>3. s \in Spots /\ s.in = i /\ s.of = f
  BY <1>1
<1>4. at' = [at EXCEPT ![p] = s]
  BY <1>2
<1> HIDE DEF s
<1>5. at \in [Callers -> Spots] /\ fault \in BOOLEAN
  BY DEF TInv, Typed
<1>6. at' \in [Callers -> Spots] /\ fault' \in BOOLEAN
  BY <1>2, <1>3, <1>4, <1>5
<1>7. ASSUME NEW q \in Callers
      PROVE  /\ at'[q].in \in {"entry", "inside", "body"} => at'[q].of \in Targets
             /\ at'[q].in = "detour" => at'[q].of \in Hooks
             /\ at'[q].in = "caller" => at'[q].of = NULL
  <2>1. CASE q = p
    BY <1>3, <1>4, <1>5, <2>1
  <2>2. CASE q # p
    <3>1. at'[q] = at[q]
      BY <1>4, <1>5, <2>2
    <3>2. QED
      BY <3>1 DEF TInv, SpotInv
  <2>3. QED
    BY <2>1, <2>2
<1>8. QED
  BY <1>6, <1>7 DEF SpotInv

(* So is one that a fault stops.                                           *)
LEMMA FaultsTyped ==
  ASSUME TInv, Faults
  PROVE  at' \in [Callers -> Spots] /\ SpotInv' /\ fault' \in BOOLEAN
  BY DEF Faults, TInv, Typed, SpotInv

(* And one that jumps, to a filled slot or to no slot.                     *)
LEMMA GoesTyped ==
  ASSUME TInv, NEW p \in Callers, NEW x, GoesTo(p, x), x \in 1 .. Slots => Filled(x)
  PROVE  at' \in [Callers -> Spots] /\ SpotInv' /\ fault' \in BOOLEAN
<1>1. CASE x \in Targets
  <2>1. Moves(p, "body", x)
    BY <1>1, Different DEF GoesTo
  <2>2. QED
    BY <1>1, <2>1, MovesTyped
<1>2. CASE x \notin Targets /\ x \in 1 .. Slots
  <2>1. Moves(p, "detour", slot[x].hook)
    BY <1>2, Different DEF GoesTo
  <2>2. slot[x].hook \in Hooks
    BY <1>2 DEF TInv, Typed, Filled, Slices
  <2>3. QED
    BY <2>1, <2>2, MovesTyped
<1>3. CASE x \notin Targets /\ x \notin 1 .. Slots
  <2>1. Faults
    BY <1>3 DEF GoesTo
  <2>2. QED
    BY <2>1, FaultsTyped
<1>4. QED
  BY <1>1, <1>2, <1>3

(* A step of a caller keeps the types.                                     *)
LEMMA CallerTyped ==
  ASSUME TInv, NEW p \in Callers, CallerStep(p), proper' \in BOOLEAN
  PROVE  TInv'
<1>1. UNCHANGED <<memory, pool, client, call>>
  BY DEF CallerStep
<1>2. at[p] \in Spots
  BY DEF TInv, Typed
<1>3. at' \in [Callers -> Spots] /\ SpotInv' /\ fault' \in BOOLEAN
  <2>1. ASSUME NEW t \in Targets, Call(p, t)
        PROVE  at' \in [Callers -> Spots] /\ SpotInv' /\ fault' \in BOOLEAN
    <3>1. Moves(p, "entry", t)
      BY <2>1 DEF Call
    <3>2. QED
      BY <3>1, MovesTyped
  <2>2. CASE Fetch(p)
    <3> DEFINE t == at[p].of
    <3>1. t \in Targets
      BY <2>2 DEF Fetch, TInv, SpotInv
    <3>2. CASE Faults
      BY <3>2, FaultsTyped
    <3>3. CASE Moves(p, "inside", t)
      BY <3>1, <3>3, MovesTyped
    <3>4. CASE code[t] # Own /\ GoesTo(p, IF code[t].op = "jmp" THEN code[t].rel ELSE NULL)
      <4> DEFINE x == IF code[t].op = "jmp" THEN code[t].rel ELSE NULL
      <4>1. x \in 1 .. Slots => Filled(x)
        BY <3>1, Different DEF TInv, SlotInv, FreeInv, NextInv, OriginInv,
           BackupInv, CodeInv
      <4>2. GoesTo(p, x)
        BY <3>4
      <4> HIDE DEF x
      <4>3. QED
        BY <4>1, <4>2, GoesTyped
    <3>5. QED
      BY <2>2, <3>2, <3>3, <3>4 DEF Fetch
  <2>3. CASE GoOn(p)
    <3>1. Moves(p, "body", at[p].of) \/ Faults
      BY <2>3 DEF GoOn
    <3>2. at[p].of \in Targets
      BY <2>3 DEF GoOn, TInv, SpotInv
    <3>3. QED
      BY <3>1, <3>2, MovesTyped, FaultsTyped
  <2>4. CASE CallReturns(p)
    <3>1. Moves(p, "caller", NULL) \/ Faults
      BY <2>4 DEF CallReturns
    <3>2. QED
      BY <3>1, MovesTyped, FaultsTyped
  <2>5. CASE CallOrigin(p)
    <3> DEFINE x == slot[origin[at[p].of]].next
    <3>1. at[p].of \in Hooks /\ origin[at[p].of] # NULL /\ GoesTo(p, x)
      BY <2>5 DEF CallOrigin, TInv, SpotInv
    <3>2. Filled(origin[at[p].of])
      BY <3>1 DEF TInv, SlotInv, FreeInv, NextInv, OriginInv, BackupInv, CodeInv
    <3>3. x \in 1 .. Slots => Filled(x)
      BY <3>2, Different DEF TInv, SlotInv, FreeInv, NextInv, OriginInv,
         BackupInv, CodeInv, Filled
    <3> HIDE DEF x
    <3>4. QED
      BY <3>1, <3>3, GoesTyped
  <2>6. QED
    BY <2>1, <2>2, <2>3, <2>4, <2>5 DEF CallerStep
<1>4. Typed'
  BY <1>1, <1>3 DEF memory, pool, client, call, TInv, Typed
<1>5. JobInv' /\ SlotInv' /\ WholeInv' /\ ProtInv'
  BY <1>1 DEF memory, pool, client, call, TInv, JobInv, SlotInv, FreeInv,
     NextInv, OriginInv, BackupInv, CodeInv, WholeInv, ProtInv, Filled, Whole
<1>6. QED
  BY <1>3, <1>4, <1>5 DEF TInv

-----------------------------------------------------------------------------
(* A call begins.                                                          *)
LEMMA EnableTyped ==
  ASSUME TInv, proper' \in BOOLEAN, NEW h \in Hooks, NEW t \in Targets, Enable(h, t)
  PROVE  TInv'
<1> DEFINE c == ~obj[h].enabled
           j == [hook |-> h, target |-> t, slot |-> free, on |-> TRUE, careful |-> c]
<1>1. /\ job = NULL /\ free <= Slots /\ job' = j /\ free' = free + 1 /\ todo' = R3
      /\ UNCHANGED <<memory, slot, client, saved, cpu>>
  BY Starts DEF Enable
<1>2. free \in 1 .. Slots /\ free' \in 1 .. Slots + 1
  BY <1>1, Different DEF TInv, Typed
<1>3. j \in Jobs /\ j # NULL /\ j.hook = h /\ j.target = t /\ j.slot = free /\ j.on
  <2>1. c \in BOOLEAN
    OBVIOUS
  <2> HIDE DEF c
  <2>2. j \in Jobs /\ j.hook = h /\ j.target = t /\ j.slot = free /\ j.on
    BY <2>1, <1>2 DEF Jobs
  <2>3. QED
    BY <2>2, Different
<1> HIDE DEF j
<1>4. Typed'
  BY <1>1, <1>2, <1>3 DEF TInv, Typed, memory, pool, client, cpu
<1>5. slot[free] = NULL
  BY <1>2 DEF TInv, SlotInv, FreeInv, NextInv, OriginInv, BackupInv, CodeInv
<1>6. JobInv'
  BY <1>1, <1>2, <1>3, <1>5, Apart DEF JobInv, pool, Reading
<1>7. SlotInv'
  <2>1. \A s \in 1 .. Slots : s >= free + 1 => s >= free
    BY <1>2
  <2>2. QED
    BY <1>1, <2>1 DEF TInv, SlotInv, FreeInv, NextInv, OriginInv, BackupInv,
       CodeInv, Filled, Whole, pool, client, memory
<1>8. todo' \notin Halved /\ todo' \notin Open /\ todo' # D3 /\ todo' \notin {E5, E4, E3}
  BY <1>1, Apart DEF Halved, Open, Reading, Enabling, Disabling
<1>9. WholeInv' /\ ProtInv'
  BY <1>1, <1>8 DEF TInv, WholeInv, ProtInv, Filled, Whole, memory
<1>10. SpotInv'
  BY <1>1 DEF TInv, SpotInv, cpu
<1>11. QED
  BY <1>4, <1>6, <1>7, <1>9, <1>10 DEF TInv

(* The other call begins.                                                  *)
LEMMA DisableTyped ==
  ASSUME TInv, proper' \in BOOLEAN, NEW h \in Hooks, Disable(h)
  PROVE  TInv'
<1> DEFINE t == obj[h].pos
           c == obj[h].enabled /\ InForce(t) = h
           j == [hook |-> h, target |-> t, slot |-> NULL, on |-> FALSE, careful |-> c]
<1>1. /\ job = NULL /\ t # NULL /\ job' = j /\ todo' = D5
      /\ UNCHANGED <<memory, pool, client, saved, cpu>>
  BY Starts DEF Disable
<1>2. t \in Targets
  BY <1>1 DEF TInv, Typed, Objects
<1>3. j \in Jobs /\ j # NULL /\ j.hook = h /\ j.target = t /\ ~j.on
  <2>1. c \in BOOLEAN
    OBVIOUS
  <2> HIDE DEF c, t
  <2>2. j \in Jobs /\ j.hook = h /\ j.target = t /\ ~j.on
    BY <2>1, <1>2 DEF Jobs
  <2>3. QED
    BY <2>2, Different
<1> HIDE DEF j
<1>4. Typed'
  BY <1>1, <1>3 DEF TInv, Typed, memory, pool, client, cpu
<1>5. JobInv'
  BY <1>1, <1>3, Apart DEF JobInv, client, Disabling
<1>6. SlotInv'
  BY <1>1 DEF TInv, SlotInv, FreeInv, NextInv, OriginInv, BackupInv, CodeInv,
     Filled, Whole, pool, client, memory
<1>7. todo' \notin Halved /\ todo' \notin Open /\ todo' # D3 /\ todo' \notin {E5, E4, E3}
  BY <1>1, Apart DEF Halved, Open, Reading, Enabling, Disabling
<1>8. WholeInv' /\ ProtInv'
  BY <1>1, <1>7 DEF TInv, WholeInv, ProtInv, Filled, Whole, memory, pool
<1>9. SpotInv'
  BY <1>1 DEF TInv, SpotInv, cpu
<1>10. QED
  BY <1>4, <1>5, <1>6, <1>8, <1>9 DEF TInv

(* The trampoline is built, goes on, or is given up.                       *)
LEMMA BuildTyped ==
  ASSUME TInv, proper' \in BOOLEAN, Build
  PROVE  /\ TInv'
         /\ job # NULL /\ job.on /\ todo = R1 /\ todo' = E8 /\ slot[job.slot] = NULL
         /\ code[job.target] # Own => code[job.target].rel # NULL
         /\ slot' = [slot EXCEPT ![job.slot] =
              [hook |-> job.hook, next |-> After(code[job.target], job.target)]]
<1> DEFINE x == [hook |-> job.hook, next |-> After(code[job.target], job.target)]
<1>1. /\ todo = R1 /\ todo' = E8 /\ slot' = [slot EXCEPT ![job.slot] = x]
      /\ UNCHANGED <<memory, free, client, job, saved, cpu>>
  BY Starts DEF Build, R1, After
<1>2. job # NULL /\ job.on
  BY <1>1, Apart DEF TInv, JobInv, Reading
<1>3. job.slot \in 1 .. Slots /\ free = job.slot + 1 /\ slot[job.slot] = NULL
  BY <1>1, <1>2 DEF TInv, JobInv, Reading
<1>4. code[job.target] # Own => code[job.target].rel \in 1 .. Slots /\ Filled(code[job.target].rel)
  <2>1. Whole(code[job.target])
    BY <1>1, <1>2, Apart, JobTyped DEF TInv, WholeInv, Halved, Reading,
       Enabling, Disabling
  <2>2. CASE \E s \in 1 .. Slots : Filled(s) /\ code[job.target] = Jump(s)
    <3>1. PICK s \in 1 .. Slots : Filled(s) /\ code[job.target] = Jump(s)
      BY <2>2
    <3>2. code[job.target].rel = s
      BY <3>1 DEF Jump
    <3>3. QED
      BY <3>1, <3>2
  <2>3. QED
    BY <2>1, <2>2 DEF Whole
<1>5. x \in Slices /\ x # NULL /\ x.hook = job.hook /\ x.next \in Targets \cup 1 .. Slots
      /\ (x.next \in Targets \/ Filled(x.next))
  BY <1>2, <1>4, JobTyped, Different DEF Slices, After
<1> HIDE DEF x
<1>6. Typed'
  BY <1>1, <1>3, <1>5 DEF TInv, Typed, memory, client, cpu
<1>7. slot'[job.slot] = x /\ \A s \in 1 .. Slots : s # job.slot => slot'[s] = slot[s]
  BY <1>1, <1>3 DEF TInv, Typed
<1>8. \A s : Filled(s) => Filled(s)'
  BY <1>5, <1>7 DEF Filled
<1>9. JobInv'
  BY <1>1, <1>2, <1>3, <1>5, <1>7, Apart DEF JobInv, Enabling
<1>10. SlotInv'
  <2>1. ASSUME NEW s \in 1 .. Slots, s >= free' PROVE slot'[s] = NULL
    <3>1. s # job.slot /\ s >= free
      BY <1>1, <1>3, <2>1, Different
    <3>2. QED
      BY <1>7, <3>1 DEF TInv, SlotInv, FreeInv
  <2>2. ASSUME NEW s \in 1 .. Slots, Filled(s)'
        PROVE  (slot[s].next \in Targets \/ Filled(slot[s].next))'
    <3>1. CASE s = job.slot
      BY <1>5, <1>7, <1>8, <3>1
    <3>2. CASE s # job.slot
      <4>1. slot'[s] = slot[s] /\ Filled(s)
        BY <1>7, <2>2, <3>2 DEF Filled
      <4>2. QED
        BY <1>8, <4>1 DEF TInv, SlotInv, NextInv
    <3>3. QED
      BY <3>1, <3>2
  <2>3. FreeInv' /\ NextInv'
    BY <2>1, <2>2 DEF FreeInv, NextInv
  <2>4. OriginInv' /\ BackupInv'
    BY <1>1, <1>8 DEF TInv, SlotInv, OriginInv, BackupInv, client, Whole
  <2>5. CodeInv'
    BY <1>1, <1>8 DEF TInv, SlotInv, CodeInv, memory
  <2>6. QED
    BY <2>3, <2>4, <2>5 DEF SlotInv
<1>11. todo' \notin Halved /\ todo' \notin Open /\ todo' # D3 /\ todo' \notin {E5, E4, E3}
  BY <1>1, Apart DEF Halved, Open, Reading, Enabling, Disabling
<1>12. todo \notin Halved /\ todo \notin Open
  BY <1>1, Apart DEF Halved, Open, Reading, Enabling, Disabling
<1>13. WholeInv' /\ ProtInv'
  BY <1>1, <1>8, <1>11, <1>12 DEF TInv, WholeInv, ProtInv, Whole, memory
<1>14. SpotInv'
  BY <1>1 DEF TInv, SpotInv, cpu
<1>15. TInv'
  BY <1>6, <1>9, <1>10, <1>13, <1>14 DEF TInv
<1>16. QED
  BY <1>1, <1>2, <1>3, <1>4, <1>15, Different DEF x

(* It goes on.                                                             *)
LEMMA BuildGoesOnTyped ==
  ASSUME TInv, proper' \in BOOLEAN, BuildGoesOn
  PROVE  TInv' /\ todo = R1 /\ todo' = R3
<1>1. todo = R1 /\ todo' = R3 /\ UNCHANGED <<memory, pool, client, job, saved, cpu>>
  BY Starts DEF BuildGoesOn, R1
<1>2. todo \notin Halved /\ todo \notin Open /\ todo \notin Enabling /\ todo \in Reading
  BY <1>1, Apart DEF Halved, Open, Reading, Enabling, Disabling
<1>3. todo' \notin Halved /\ todo' \notin Open /\ todo' # D3 /\ todo' \notin {E5, E4, E3}
      /\ todo' \notin Enabling /\ todo' \in Reading
  BY <1>1, Apart DEF Halved, Open, Reading, Enabling, Disabling
<1>4. Typed' /\ SpotInv' /\ SlotInv'
  BY <1>1 DEF TInv, Typed, SpotInv, SlotInv, FreeInv, NextInv, OriginInv,
     BackupInv, CodeInv, memory, pool, client, cpu, Filled, Whole
<1>5. JobInv'
  BY <1>1, <1>2, <1>3, Apart DEF TInv, JobInv, pool
<1>6. WholeInv' /\ ProtInv'
  BY <1>1, <1>2, <1>3 DEF TInv, WholeInv, ProtInv, Filled, Whole, memory, pool
<1>7. QED
  BY <1>1, <1>4, <1>5, <1>6 DEF TInv

(* It is given up.                                                         *)
LEMMA BuildFailsTyped ==
  ASSUME TInv, proper' \in BOOLEAN, BuildFails
  PROVE  TInv' /\ todo = R1 /\ job' = NULL /\ todo' = <<>>
<1>1. todo = R1 /\ todo' = <<>> /\ job' = NULL /\ UNCHANGED <<memory, pool, client, saved, cpu>>
  BY DEF BuildFails, R1
<1>2. todo \notin Halved /\ todo \notin Open
  BY <1>1, Apart DEF Halved, Open, Reading, Enabling, Disabling
<1>3. Typed' /\ SpotInv' /\ SlotInv' /\ JobInv'
  BY <1>1 DEF TInv, Typed, SpotInv, SlotInv, FreeInv, NextInv, OriginInv,
     BackupInv, CodeInv, JobInv, memory, pool, client, cpu, Filled, Whole
<1>4. WholeInv' /\ ProtInv'
  BY <1>1, <1>2 DEF TInv, WholeInv, ProtInv, Filled, Whole, memory, pool
<1>5. QED
  BY <1>1, <1>3, <1>4 DEF TInv

-----------------------------------------------------------------------------
(* Which statements leave the page open, or the bytes of the target halved.*)
LEMMA Kinds ==
  /\ {R3, R2, R1} \subseteq Reading /\ {D5, D4, D3, D2, D1} \subseteq Disabling
  /\ {E8, E7, E6, E5, E4, E3, E2, E1} \subseteq Enabling
  /\ {R2, E6, E5, E3, E2, D4, D3, D2} \subseteq Open
  /\ {<<>>, R3, R1, E8, E7, E4, E1, D5, D1} \cap Open = {}
  /\ {E5, E4, E3, D3} \subseteq Halved
  /\ {<<>>, R3, R2, R1, E8, E7, E6, E2, E1, D5, D4, D2, D1} \cap Halved = {}
<1>1. /\ {R3, R2, R1} \subseteq Reading /\ {D5, D4, D3, D2, D1} \subseteq Disabling
      /\ {E8, E7, E6, E5, E4, E3, E2, E1} \subseteq Enabling
      /\ {R2, E6, E5, E3, E2, D4, D3, D2} \subseteq Open
      /\ {E5, E4, E3, D3} \subseteq Halved
  BY DEF Reading, Enabling, Disabling, Open, Halved
<1>2. {<<>>, R3, R1, E8, E7, E4, E1, D5, D1} \cap Open = {}
  BY Apart DEF Reading, Enabling, Disabling, Open
<1>3. {<<>>, R3, R2, R1, E8, E7, E6, E2, E1, D5, D4, D2, D1} \cap Halved = {}
  BY Apart DEF Reading, Enabling, Disabling, Halved
<1>4. QED
  BY <1>1, <1>2, <1>3

(* The statements tell what the call is.                                   *)
LEMMA CallAt ==
  ASSUME TInv
  PROVE  /\ todo \in {<<>>} \cup Reading \cup Enabling \cup Disabling
         /\ job = NULL <=> todo = <<>>
         /\ todo \in Reading \cup Enabling => job # NULL /\ job.on
         /\ todo \in Disabling => job # NULL /\ ~job.on
  BY Apart DEF TInv, JobInv

(* A statement that leaves slots and patchedPos_ alone.                    *)
LEMMA Advances ==
  ASSUME TInv, job # NULL, UNCHANGED <<pool, job>>,
         obj'[job.hook].pos = obj[job.hook].pos, obj'[job.hook].backup = obj[job.hook].backup,
         \/ todo \in Reading /\ todo' \in Reading
         \/ todo \in Enabling \ {E8} /\ todo' \in Enabling \ {E8}
         \/ todo \in Disabling /\ todo' \in Disabling
  PROVE  JobInv'
  BY Apart DEF TInv, JobInv, pool

(* The backup is what the target is: whole bytes.                          *)
LEMMA BackupTyped ==
  ASSUME TInv, proper' \in BOOLEAN, Backup
  PROVE  /\ TInv' /\ job # NULL /\ job.on /\ todo = E8 /\ todo' = E7
         /\ Whole(code[job.target])
         /\ \A h \in Hooks : h # job.hook => obj'[h] = obj[h]
         /\ obj'[job.hook].pos = job.target /\ obj'[job.hook].backup = code[job.target]
         /\ obj'[job.hook].enabled = FALSE
<1> DEFINE o == [enabled |-> FALSE, pos |-> job.target, backup |-> code[job.target]]
<1>1. /\ todo = E8 /\ todo' = E7 /\ obj' = [obj EXCEPT ![job.hook] = o]
      /\ UNCHANGED <<memory, pool, origin, job, saved, cpu>>
  BY CallAt, Statements DEF Backup
<1>2. job # NULL /\ job.on
  BY <1>1, CallAt, Kinds
<1>3. Whole(code[job.target])
  BY <1>1, <1>2, JobTyped, Kinds DEF TInv, WholeInv
<1>4. o \in Objects /\ o.pos = job.target /\ o.backup = code[job.target] /\ o.enabled = FALSE
  BY <1>2, JobTyped DEF Objects
<1> HIDE DEF o
<1>5. obj'[job.hook] = o /\ \A h \in Hooks : h # job.hook => obj'[h] = obj[h]
  BY <1>1, <1>2, JobTyped DEF TInv, Typed
<1>6. Typed'
  BY <1>1, <1>4 DEF TInv, Typed, memory, pool, cpu
<1>7. JobInv'
  BY <1>1, <1>2, <1>4, <1>5, Apart, Kinds DEF TInv, JobInv, pool
<1>8. SlotInv'
  <2>1. FreeInv' /\ NextInv' /\ OriginInv' /\ CodeInv'
    BY <1>1 DEF TInv, SlotInv, FreeInv, NextInv, OriginInv, CodeInv, Filled,
       pool, memory
  <2>2. BackupInv'
    BY <1>1, <1>3, <1>4, <1>5 DEF TInv, SlotInv, BackupInv, Whole, Filled, pool
  <2>3. QED
    BY <2>1, <2>2 DEF SlotInv
<1>9. WholeInv' /\ ProtInv'
  BY <1>1, Kinds, Apart DEF TInv, WholeInv, ProtInv, Filled, Whole, memory,
     pool, Enabling, Disabling
<1>10. SpotInv'
  BY <1>1 DEF TInv, SpotInv, cpu
<1>11. QED
  BY <1>1, <1>2, <1>3, <1>4, <1>5, <1>6, <1>7, <1>8, <1>9, <1>10 DEF TInv

(* A hook that has patched something keeps whole bytes.                    *)
LEMMA Kept ==
  ASSUME TInv, NEW h \in Hooks, obj[h].pos # NULL
  PROVE  Whole(obj[h].backup) /\ obj[h].backup \in Bytes
<1>1. Whole(obj[h].backup)
  BY DEF TInv, SlotInv, BackupInv
<1>2. CASE obj[h].backup = Own
  BY <1>1, <1>2 DEF Bytes, Own
<1>3. CASE \E s \in 1 .. Slots : obj[h].backup = Jump(s)
  BY <1>1, <1>3 DEF Bytes, Jump
<1>4. QED
  BY <1>1, <1>2, <1>3 DEF Whole

(* VirtualProtect at the begin of Read or Patch, and at their end.         *)
LEMMA ProtectTyped ==
  ASSUME TInv, proper' \in BOOLEAN,
         \/ Protect("protect", "RWX")
         \/ Protect("read", "RW")
  PROVE  /\ TInv' /\ job # NULL
         /\ \/ (todo = R3 /\ todo' = R2) \/ (todo = E7 /\ todo' = E6)
            \/ (todo = E4 /\ todo' = E3) \/ (todo = D5 /\ todo' = D4)
<1> DEFINE g == PageOf[job.target]
           x == IF todo = R3 THEN "RW" ELSE "RWX"
<1>1. /\ saved' = prot[g] /\ prot' = [prot EXCEPT ![g] = x]
      /\ UNCHANGED <<code, pool, client, job, cpu>>
      /\ \/ (todo = R3 /\ todo' = R2) \/ (todo = E7 /\ todo' = E6)
         \/ (todo = E4 /\ todo' = E3) \/ (todo = D5 /\ todo' = D4)
  <2>1. CASE Protect("protect", "RWX")
    <3>1. \/ (todo = E7 /\ todo' = E6) \/ (todo = E4 /\ todo' = E3) \/ (todo = D5 /\ todo' = D4)
      BY <2>1, CallAt, Statements DEF Protect
    <3>2. x = "RWX"
      BY <3>1, Apart, Kinds
    <3>3. QED
      BY <2>1, <3>1, <3>2 DEF Protect
  <2>2. CASE Protect("read", "RW")
    <3>1. todo = R3 /\ todo' = R2
      BY <2>2, CallAt, Statements DEF Protect
    <3>2. QED
      BY <2>2, <3>1 DEF Protect
  <2>3. QED
    BY <2>1, <2>2
<1>2. job # NULL
  BY <1>1, CallAt, Kinds
<1>3. g \in Pages /\ x \in {"RX", "RW", "RWX"}
  BY <1>2, JobTyped
<1>4. prot[g] = "RX" /\ prot'[g] = x /\ \A f \in Pages : f # g => prot'[f] = prot[f]
  BY <1>1, <1>2, <1>3, Kinds DEF TInv, Typed, ProtInv
<1>5. Typed'
  <2>1. prot' \in [Pages -> {"RX", "RW", "RWX"}] /\ saved' = "RX"
    BY <1>1, <1>3, <1>4 DEF TInv, Typed
  <2>2. QED
    BY <1>1, <2>1 DEF TInv, Typed, pool, client, cpu
<1>6. SpotInv' /\ SlotInv'
  BY <1>1 DEF TInv, SpotInv, SlotInv, FreeInv, NextInv, OriginInv, BackupInv,
     CodeInv,
              cpu, pool, client, Filled, Whole
<1>7. JobInv'
  <2>1. \/ todo \in Reading /\ todo' \in Reading
        \/ todo \in Enabling \ {E8} /\ todo' \in Enabling \ {E8}
        \/ todo \in Disabling /\ todo' \in Disabling
    BY <1>1, Kinds, Apart
  <2>2. QED
    BY <1>1, <1>2, <2>1, Advances DEF client
<1>8. WholeInv'
  <2>1. todo \in Halved <=> todo' \in Halved
    BY <1>1, Kinds
  <2>2. todo' \in {E5, E4, E3} => todo \in {E5, E4, E3}
    BY <1>1, Apart, Kinds
  <2>3. todo' # D3
    BY <1>1, Apart, Kinds
  <2>4. QED
    BY <1>1, <1>2, <2>1, <2>2, <2>3 DEF TInv, WholeInv, Whole, Filled, pool,
       client
<1>9. ProtInv'
  <2>1. todo' \in Open /\ (todo' = R2 <=> todo = R3)
    BY <1>1, Apart, Kinds
  <2>2. \A f \in Pages : f # g => prot[f] = "RX"
    BY DEF TInv, ProtInv
  <2> HIDE DEF g
  <2>3. QED
    BY <1>1, <1>2, <1>4, <2>1, <2>2 DEF ProtInv, g
<1>10. QED
  BY <1>1, <1>2, <1>5, <1>6, <1>7, <1>8, <1>9 DEF TInv

(* VirtualProtect at the end of Read or Patch.                             *)
LEMMA RestoreTyped ==
  ASSUME TInv, proper' \in BOOLEAN, Restore
  PROVE  /\ TInv' /\ job # NULL
         /\ \/ (todo = R2 /\ todo' = R1) \/ (todo = E5 /\ todo' = E4)
            \/ (todo = E2 /\ todo' = E1) \/ (todo = D2 /\ todo' = D1)
<1> DEFINE g == PageOf[job.target]
<1>1. /\ saved' = NULL /\ prot' = [prot EXCEPT ![g] = saved]
      /\ UNCHANGED <<code, pool, client, job, cpu>>
      /\ \/ (todo = R2 /\ todo' = R1) \/ (todo = E5 /\ todo' = E4)
         \/ (todo = E2 /\ todo' = E1) \/ (todo = D2 /\ todo' = D1)
  BY CallAt, Statements DEF Restore
<1>2. job # NULL
  BY <1>1, CallAt, Kinds
<1>3. g \in Pages /\ saved = "RX"
  BY <1>1, <1>2, JobTyped, Kinds DEF TInv, ProtInv
<1>4. prot'[g] = "RX" /\ \A f \in Pages : f # g => prot'[f] = prot[f]
  BY <1>1, <1>3 DEF TInv, Typed
<1>5. Typed'
  <2>1. prot' \in [Pages -> {"RX", "RW", "RWX"}]
    BY <1>1, <1>3, <1>4 DEF TInv, Typed
  <2>2. QED
    BY <1>1, <2>1 DEF TInv, Typed, pool, client, cpu
<1>6. SpotInv' /\ SlotInv'
  BY <1>1 DEF TInv, SpotInv, SlotInv, FreeInv, NextInv, OriginInv, BackupInv,
     CodeInv,
              cpu, pool, client, Filled, Whole
<1>7. JobInv'
  <2>1. \/ todo \in Reading /\ todo' \in Reading
        \/ todo \in Enabling \ {E8} /\ todo' \in Enabling \ {E8}
        \/ todo \in Disabling /\ todo' \in Disabling
    BY <1>1, Kinds, Apart
  <2>2. QED
    BY <1>1, <1>2, <2>1, Advances DEF client
<1>8. WholeInv'
  <2>1. todo \in Halved <=> todo' \in Halved
    BY <1>1, Kinds
  <2>2. todo' \in {E5, E4, E3} => todo \in {E5, E4, E3}
    BY <1>1, Apart, Kinds
  <2>3. todo' # D3
    BY <1>1, Apart, Kinds
  <2>4. QED
    BY <1>1, <1>2, <2>1, <2>2, <2>3 DEF TInv, WholeInv, Whole, Filled, pool,
       client
<1>9. ProtInv'
  <2>1. todo' \notin Open
    BY <1>1, Kinds
  <2>2. \A f \in Pages : f # g => prot[f] = "RX"
    BY DEF TInv, ProtInv
  <2> HIDE DEF g
  <2>3. QED
    BY <1>1, <1>2, <1>4, <2>1, <2>2 DEF ProtInv
<1>10. QED
  BY <1>1, <1>2, <1>5, <1>6, <1>7, <1>8, <1>9 DEF TInv

(* What a write makes of the bytes of the target.                          *)
LEMMA WriteShape ==
  ASSUME TInv, job # NULL, NEW x, NEW v
  PROVE  /\ Write(x, "op", v) =>
              code' = [code EXCEPT ![job.target] = [op |-> v, rel |-> code[job.target].rel]]
         /\ Write(x, "rel", v) =>
              code' = [code EXCEPT ![job.target] = [op |-> code[job.target].op, rel |-> v]]
<1> DEFINE t == job.target
           r == code[t]
<1>1. r \in Bytes /\ t \in Targets /\ code \in [Targets -> Bytes]
  BY JobTyped DEF TInv, Typed
<1>2. [r EXCEPT !["op"] = v] = [r EXCEPT !.op = v] /\ [r EXCEPT !["rel"] = v] = [r EXCEPT !.rel = v]
  OBVIOUS
<1>3. ASSUME NEW q \in Bytes
      PROVE  /\ [q EXCEPT !.op = v] = [op |-> v, rel |-> q.rel]
             /\ [q EXCEPT !.rel = v] = [op |-> q.op, rel |-> v]
  BY DEF Bytes
<1>4. /\ [r EXCEPT !["op"] = v] = [op |-> v, rel |-> r.rel]
      /\ [r EXCEPT !["rel"] = v] = [op |-> r.op, rel |-> v]
  BY <1>1, <1>2, <1>3
<1>5. Write(x, "op", v) => code' = [code EXCEPT ![t] = [r EXCEPT !["op"] = v]]
  BY DEF Write
<1>6. Write(x, "rel", v) => code' = [code EXCEPT ![t] = [r EXCEPT !["rel"] = v]]
  BY DEF Write
<1>7. QED
  BY <1>4, <1>5, <1>6

(* A write keeps what a target is when a jump to a filled slot results.    *)
LEMMA BytesTyped ==
  ASSUME TInv, proper' \in BOOLEAN, job # NULL, NEW c \in Bytes,
         code' = [code EXCEPT ![job.target] = c], c.rel # NULL => Filled(c.rel),
         UNCHANGED <<prot, pool, client, job, saved, cpu>>,
         todo \in Open, todo' \in Open, todo # R2, todo' # R2,
         \/ todo \in Enabling \ {E8} /\ todo' \in Enabling \ {E8}
         \/ todo \in Disabling /\ todo' \in Disabling,
         Whole(c) \/ todo' \in Halved, todo' \in {E5, E4, E3} => c.op = "jmp",
         todo' = D3 => c.op = obj[job.hook].backup.op
  PROVE  TInv'
<1>1. /\ code \in [Targets -> Bytes] /\ job.target \in Targets
      /\ code'[job.target] = c /\ \A t \in Targets : t # job.target => code'[t] = code[t]
  BY JobTyped DEF TInv, Typed
<1>2. Typed'
  BY <1>1 DEF TInv, Typed, pool, client, cpu
<1>3. SpotInv'
  BY DEF TInv, SpotInv, cpu
<1>4. JobInv'
  BY Advances DEF client
<1>5. SlotInv'
  <2>1. FreeInv' /\ NextInv' /\ OriginInv' /\ BackupInv'
    BY DEF TInv, SlotInv, FreeInv, NextInv, OriginInv, BackupInv, Filled, Whole,
       pool, client
  <2>2. CodeInv'
    BY <1>1 DEF TInv, SlotInv, CodeInv, Filled, pool
  <2>3. QED
    BY <2>1, <2>2 DEF SlotInv
<1>6. WholeInv'
  <2>1. ASSUME NEW t \in Targets
        PROVE  (Whole(code[t]) \/ (job # NULL /\ job.target = t /\ todo \in Halved))'
    <3>1. CASE t = job.target
      BY <1>1, <3>1 DEF Whole, Filled, pool
    <3>2. CASE t # job.target
      <4>1. Whole(code[t])
        BY <3>2 DEF TInv, WholeInv
      <4>2. QED
        BY <1>1, <3>2, <4>1 DEF Whole, Filled, pool
    <3>3. QED
      BY <3>1, <3>2
  <2>2. QED
    BY <1>1, <2>1 DEF WholeInv, client
<1>7. ProtInv'
  BY DEF TInv, ProtInv
<1>8. QED
  BY <1>2, <1>3, <1>4, <1>5, <1>6, <1>7 DEF TInv

(* The opcode of a jump is written, then its operand.                      *)
LEMMA OpcodeTyped ==
  ASSUME TInv, proper' \in BOOLEAN, Write("opcode", "op", "jmp")
  PROVE  /\ TInv' /\ job # NULL /\ todo = E6 /\ todo' = E5
         /\ code' = [code EXCEPT ![job.target] = [op |-> "jmp", rel |-> code[job.target].rel]]
<1> DEFINE c == [op |-> "jmp", rel |-> code[job.target].rel]
<1>1. todo = E6 /\ todo' = E5 /\ UNCHANGED <<prot, pool, client, job, saved, cpu>>
  BY CallAt, Statements DEF Write
<1>2. job # NULL
  BY <1>1, CallAt, Kinds
<1>3. code' = [code EXCEPT ![job.target] = c]
  BY <1>2, WriteShape
<1>4. c \in Bytes /\ c.rel = code[job.target].rel /\ c.op = "jmp"
  BY <1>2, JobTyped DEF Bytes
<1>5. c.rel # NULL => Filled(c.rel)
  BY <1>2, <1>4, JobTyped DEF TInv, SlotInv, CodeInv
<1> HIDE DEF c
<1>6. /\ todo \in Open /\ todo' \in Open /\ todo # R2 /\ todo' # R2 /\ todo' # D3
      /\ todo \in Enabling \ {E8} /\ todo' \in Enabling \ {E8} /\ todo' \in Halved
  BY <1>1, Kinds, Apart
<1>7. TInv'
  BY <1>1, <1>2, <1>3, <1>4, <1>5, <1>6, BytesTyped
<1>8. QED
  BY <1>1, <1>2, <1>3, <1>7 DEF c

(* With its operand the jump is whole.                                     *)
LEMMA OperandTyped ==
  ASSUME TInv, proper' \in BOOLEAN, Write("operand", "rel", job.slot)
  PROVE  /\ TInv' /\ job # NULL /\ job.on /\ todo = E3 /\ todo' = E2
         /\ Filled(job.slot) /\ code' = [code EXCEPT ![job.target] = Jump(job.slot)]
<1> DEFINE c == Jump(job.slot)
<1>1. todo = E3 /\ todo' = E2 /\ UNCHANGED <<prot, pool, client, job, saved, cpu>>
  BY CallAt, Statements DEF Write
<1>2. job # NULL /\ job.on
  BY <1>1, CallAt, Kinds
<1>3. job.slot \in 1 .. Slots /\ Filled(job.slot)
  BY <1>1, <1>2, Kinds DEF TInv, JobInv, Filled
<1>4. code' = [code EXCEPT ![job.target] = c]
  <2>1. code[job.target].op = "jmp"
    BY <1>1, <1>2 DEF TInv, WholeInv
  <2>2. code' = [code EXCEPT ![job.target] = [op |-> code[job.target].op, rel |-> job.slot]]
    BY <1>2, WriteShape
  <2>3. QED
    BY <2>1, <2>2 DEF Jump
<1>5. c \in Bytes /\ c.rel = job.slot /\ Whole(c) /\ c.op = "jmp"
  BY <1>3 DEF Bytes, Jump, Whole
<1> HIDE DEF c
<1>6. /\ todo \in Open /\ todo' \in Open /\ todo # R2 /\ todo' # R2 /\ todo' # D3
      /\ todo \in Enabling \ {E8} /\ todo' \in Enabling \ {E8}
  BY <1>1, Kinds, Apart
<1>7. TInv'
  BY <1>1, <1>2, <1>3, <1>4, <1>5, <1>6, BytesTyped
<1>8. QED
  BY <1>1, <1>2, <1>3, <1>4, <1>7 DEF c

(* So are those of the backup.                                             *)
LEMMA OldOpcodeTyped ==
  ASSUME TInv, proper' \in BOOLEAN, Write("old_opcode", "op", obj[job.hook].backup.op)
  PROVE  /\ TInv' /\ job # NULL /\ ~job.on /\ todo = D4 /\ todo' = D3
         /\ code' = [code EXCEPT ![job.target] =
                       [op |-> obj[job.hook].backup.op, rel |-> code[job.target].rel]]
<1> DEFINE c == [op |-> obj[job.hook].backup.op, rel |-> code[job.target].rel]
<1>1. todo = D4 /\ todo' = D3 /\ UNCHANGED <<prot, pool, client, job, saved, cpu>>
  BY CallAt, Statements DEF Write
<1>2. job # NULL /\ ~job.on
  BY <1>1, CallAt, Kinds
<1>3. code' = [code EXCEPT ![job.target] = c]
  BY <1>2, WriteShape
<1>4. obj[job.hook].backup \in Bytes
  BY <1>2, JobTyped, Kept, Different DEF TInv, JobInv
<1>5. c \in Bytes /\ c.rel = code[job.target].rel /\ c.op = obj[job.hook].backup.op
  BY <1>2, <1>4, JobTyped DEF Bytes
<1>6. c.rel # NULL => Filled(c.rel)
  BY <1>2, <1>5, JobTyped DEF TInv, SlotInv, CodeInv
<1> HIDE DEF c
<1>7. /\ todo \in Open /\ todo' \in Open /\ todo # R2 /\ todo' # R2
      /\ todo' \notin {E5, E4, E3}
      /\ todo \in Disabling /\ todo' \in Disabling /\ todo' \in Halved
  BY <1>1, Kinds, Apart
<1>8. TInv'
  BY <1>1, <1>2, <1>3, <1>5, <1>6, <1>7, BytesTyped
<1>9. QED
  BY <1>1, <1>2, <1>3, <1>8 DEF c

(* With the old operand the target is what the backup is.                  *)
LEMMA OldOperandTyped ==
  ASSUME TInv, proper' \in BOOLEAN, Write("old_operand", "rel", obj[job.hook].backup.rel)
  PROVE  /\ TInv' /\ job # NULL /\ ~job.on /\ todo = D3 /\ todo' = D2
         /\ Whole(obj[job.hook].backup)
         /\ code' = [code EXCEPT ![job.target] = obj[job.hook].backup]
<1> DEFINE c == obj[job.hook].backup
<1>1. todo = D3 /\ todo' = D2 /\ UNCHANGED <<prot, pool, client, job, saved, cpu>>
  BY CallAt, Statements DEF Write
<1>2. job # NULL /\ ~job.on
  BY <1>1, CallAt, Kinds
<1>3. c \in Bytes /\ Whole(c)
  BY <1>2, JobTyped, Kept, Different DEF TInv, JobInv
<1>4. code' = [code EXCEPT ![job.target] = c]
  <2>1. code[job.target].op = c.op
    BY <1>1, <1>2 DEF TInv, WholeInv
  <2>2. code' = [code EXCEPT ![job.target] = [op |-> code[job.target].op, rel |-> c.rel]]
    BY <1>2, WriteShape
  <2>3. c = [op |-> c.op, rel |-> c.rel]
    BY <1>3 DEF Bytes
  <2>4. QED
    BY <2>1, <2>2, <2>3
<1>5. c.rel # NULL => Filled(c.rel)
  <2>1. CASE c = Own
    BY <2>1 DEF Own
  <2>2. CASE \E s \in 1 .. Slots : Filled(s) /\ c = Jump(s)
    BY <2>2 DEF Jump
  <2>3. QED
    BY <1>3, <2>1, <2>2 DEF Whole
<1> HIDE DEF c
<1>6. /\ todo \in Open /\ todo' \in Open /\ todo # R2 /\ todo' # R2 /\ todo' # D3
      /\ todo' \notin {E5, E4, E3} /\ todo \in Disabling /\ todo' \in Disabling
  BY <1>1, Kinds, Apart
<1>7. TInv'
  BY <1>1, <1>2, <1>3, <1>4, <1>5, <1>6, BytesTyped
<1>8. QED
  BY <1>1, <1>2, <1>3, <1>4, <1>7 DEF c

(* A call returns, and enabled_ says which one it was.                     *)
LEMMA ReturnTyped ==
  ASSUME TInv, proper' \in BOOLEAN, EnableReturns \/ DisableReturns
  PROVE  /\ TInv' /\ job # NULL /\ job' = NULL /\ todo' = <<>>
         /\ EnableReturns => todo = E1 /\ job.on
         /\ DisableReturns => todo = D1 /\ ~job.on
         /\ \A h \in Hooks : /\ h # job.hook => obj'[h] = obj[h]
                             /\ obj'[h].pos = obj[h].pos /\ obj'[h].backup = obj[h].backup
         /\ EnableReturns => obj'[job.hook].enabled
         /\ DisableReturns => ~obj'[job.hook].enabled
<1> DEFINE q == obj[job.hook]
<1>1. /\ EnableReturns => todo = E1 /\ todo' = <<>> /\ job.on
      /\ DisableReturns => todo = D1 /\ todo' = <<>> /\ ~job.on
      /\ job # NULL
  BY CallAt, Statements, Kinds DEF EnableReturns, DisableReturns
<1>2. q \in Objects /\ job.hook \in Hooks /\ obj \in [Hooks -> Objects]
  BY <1>1, JobTyped DEF TInv, Typed
<1>3. ASSUME NEW r \in Objects, NEW e \in BOOLEAN
      PROVE  LET o == [r EXCEPT !.enabled = e]
             IN  o \in Objects /\ o.enabled = e /\ o.pos = r.pos /\ o.backup = r.backup
  BY DEF Objects
<1>4. \E e \in BOOLEAN : /\ obj' = [obj EXCEPT ![job.hook] = [q EXCEPT !.enabled = e]]
                         /\ (todo = E1 => e) /\ (todo # E1 => ~e)
  <2>1. CASE EnableReturns
    <3>1. obj' = [obj EXCEPT ![job.hook] = [q EXCEPT !.enabled = TRUE]] /\ todo = E1
      BY <1>1, <2>1 DEF EnableReturns
    <3>2. QED
      BY <3>1
  <2>2. CASE DisableReturns
    <3>1. obj' = [obj EXCEPT ![job.hook] = [q EXCEPT !.enabled = FALSE]] /\ todo # E1
      BY <1>1, <2>2, Apart, Kinds DEF DisableReturns
    <3>2. QED
      BY <3>1
  <2>3. QED
    BY <2>1, <2>2
<1>5. PICK o \in Objects : /\ obj' = [obj EXCEPT ![job.hook] = o]
                          /\ (todo = E1 => o.enabled) /\ (todo # E1 => ~o.enabled)
                          /\ o.pos = q.pos /\ o.backup = q.backup
  <2>1. PICK e \in BOOLEAN : /\ obj' = [obj EXCEPT ![job.hook] = [q EXCEPT !.enabled = e]]
                            /\ (todo = E1 => e) /\ (todo # E1 => ~e)
    BY <1>4
  <2> DEFINE o == [q EXCEPT !.enabled = e]
  <2>2. o \in Objects /\ o.enabled = e /\ o.pos = q.pos /\ o.backup = q.backup
    BY <1>2, <1>3
  <2>3. obj' = [obj EXCEPT ![job.hook] = o]
    BY <2>1
  <2> HIDE DEF o, q
  <2>4. (todo = E1 => o.enabled) /\ (todo # E1 => ~o.enabled)
    BY <2>1, <2>2, Zenon
  <2>5. QED
    BY <2>2, <2>3, <2>4
<1> HIDE DEF q
<1>6. obj'[job.hook] = o /\ \A h \in Hooks : h # job.hook => obj'[h] = obj[h]
  BY <1>2, <1>5
<1>7. \A h \in Hooks : obj'[h].pos = obj[h].pos /\ obj'[h].backup = obj[h].backup
  BY <1>5, <1>6 DEF q
<1>8. /\ job' = NULL /\ todo' = <<>> /\ UNCHANGED <<memory, pool, saved, cpu>>
      /\ origin' \in [Hooks -> 1 .. Slots \cup {NULL}]
      /\ \A h \in Hooks : origin'[h] # NULL => Filled(origin'[h])
  <2>1. CASE EnableReturns
    <3>1. /\ job' = NULL /\ todo' = <<>> /\ UNCHANGED <<memory, pool, saved, cpu>>
          /\ origin' = [origin EXCEPT ![job.hook] = job.slot] /\ todo = E1 /\ job.on
      BY <1>1, <2>1 DEF EnableReturns
    <3>2. Filled(job.slot) /\ job.slot \in 1 .. Slots
      BY <1>1, <3>1, Kinds DEF TInv, JobInv, Filled
    <3>3. QED
      BY <1>2, <3>1, <3>2 DEF TInv, Typed, SlotInv, OriginInv
  <2>2. CASE DisableReturns
    BY <1>1, <2>2 DEF DisableReturns, TInv, Typed, SlotInv, OriginInv
  <2>3. QED
    BY <2>1, <2>2
<1>9. Typed'
  BY <1>2, <1>5, <1>8 DEF TInv, Typed, memory, pool, cpu
<1>10. SpotInv' /\ JobInv'
  BY <1>8 DEF TInv, SpotInv, JobInv, cpu
<1>11. SlotInv'
  <2>1. FreeInv' /\ NextInv' /\ CodeInv'
    BY <1>8 DEF TInv, SlotInv, FreeInv, NextInv, CodeInv, Filled, pool, memory
  <2>2. OriginInv'
    BY <1>8 DEF OriginInv, Filled, pool
  <2>3. BackupInv'
    BY <1>7, <1>8 DEF TInv, SlotInv, BackupInv, Whole, Filled, pool
  <2>4. QED
    BY <2>1, <2>2, <2>3 DEF SlotInv
<1>12. todo \notin Halved /\ todo \notin Open
  BY <1>1, Kinds
<1>13. WholeInv' /\ ProtInv'
  BY <1>8, <1>12 DEF TInv, WholeInv, ProtInv, Whole, Filled, memory, pool
<1>14. EnableReturns => obj'[job.hook].enabled
  BY <1>1, <1>5, <1>6, Zenon
<1>15. DisableReturns => ~obj'[job.hook].enabled
  <2>1. DisableReturns => todo # E1
    BY <1>1, Apart, Kinds
  <2>2. QED
    BY <2>1, <1>5, <1>6, Zenon
<1>16. TInv'
  BY <1>9, <1>10, <1>11, <1>13 DEF TInv
<1>17. QED
  BY <1>1, <1>6, <1>7, <1>8, <1>14, <1>15, <1>16

-----------------------------------------------------------------------------
(* Every step keeps the types.                                             *)
LEMMA StepTyped == TInv /\ [Next]_vars => TInv'
<1> SUFFICES ASSUME TInv, [Next]_vars PROVE TInv'
  OBVIOUS
<1>1. CASE UNCHANGED vars
  <2>1. UNCHANGED <<code, prot, slot, free, obj, origin, job, todo, saved, at, fault, proper>>
    BY <1>1 DEF vars, memory, pool, client, call, cpu
  <2>2. Typed' /\ SpotInv' /\ JobInv' /\ WholeInv' /\ ProtInv'
    BY <2>1 DEF TInv, Typed, SpotInv, JobInv, WholeInv, ProtInv, Whole, Filled
  <2>3. SlotInv'
    BY <2>1 DEF TInv, SlotInv, FreeInv, NextInv, OriginInv, BackupInv, CodeInv,
       Whole, Filled
  <2>4. QED
    BY <2>2, <2>3 DEF TInv
<1>2. CASE Next
  <2>1. proper' \in BOOLEAN
    BY <1>2 DEF Next
  <2>2. ASSUME NEW p \in Callers, CallerStep(p) PROVE TInv'
    BY <2>1, <2>2, CallerTyped
  <2>3. ASSUME NEW h \in Hooks, Disable(h) PROVE TInv'
    BY <2>1, <2>3, DisableTyped
  <2>4. ASSUME NEW h \in Hooks, NEW t \in Targets, Enable(h, t) PROVE TInv'
    BY <2>1, <2>4, EnableTyped
  <2>5. CASE Build \/ BuildGoesOn \/ BuildFails
    BY <2>1, <2>5, BuildTyped, BuildGoesOnTyped, BuildFailsTyped
  <2>6. CASE Backup \/ EnableReturns \/ DisableReturns
    BY <2>1, <2>6, BackupTyped, ReturnTyped
  <2>7. CASE Restore \/ Protect("protect", "RWX") \/ Protect("read", "RW")
    BY <2>1, <2>7, RestoreTyped, ProtectTyped
  <2>8. CASE Write("opcode", "op", "jmp") \/ Write("operand", "rel", job.slot)
    BY <2>1, <2>8, OpcodeTyped, OperandTyped
  <2>9. CASE \/ Write("old_opcode", "op", obj[job.hook].backup.op)
             \/ Write("old_operand", "rel", obj[job.hook].backup.rel)
    BY <2>1, <2>9, OldOpcodeTyped, OldOperandTyped
  <2>10. QED
    BY <1>2, <2>2, <2>3, <2>4, <2>5, <2>6, <2>7, <2>8, <2>9 DEF Next, AdminStep
<1>3. QED
  BY <1>1, <1>2

(* The invariant says more than the types.                                 *)
LEMMA TypedImplies == TInv => TypeOK
<1> SUFFICES ASSUME TInv PROVE TypeOK
  OBVIOUS
<1>1. \A t \in Targets : code[t].op \in {"own", "jmp"} /\ code[t].rel \in 1 .. Slots \cup {NULL}
  BY DEF TInv, Typed, Bytes
<1>2. \A s \in 1 .. Slots : slot[s] # NULL =>
        slot[s].hook \in Hooks /\ slot[s].next \in Targets \cup 1 .. Slots \cup {NULL}
  BY DEF TInv, Typed, Slices
<1>3. \A h \in Hooks : obj[h].pos # NULL =>
        obj[h].pos \in Targets /\ obj[h].backup \in {Own} \cup {Jump(s) : s \in 1 .. Slots}
  <2>1. ASSUME NEW h \in Hooks, obj[h].pos # NULL
        PROVE  obj[h].pos \in Targets /\ obj[h].backup \in {Own} \cup {Jump(s) : s \in 1 .. Slots}
    <3>1. obj[h].pos \in Targets
      BY <2>1 DEF TInv, Typed, Objects
    <3>2. Whole(obj[h].backup)
      BY <2>1, Kept
    <3>3. QED
      BY <3>1, <3>2 DEF Whole
  <2>2. QED
    BY <2>1
<1>4. QED
  BY <1>1, <1>2, <1>3 DEF TInv, Typed, TypeOK, Spots

(* It holds in every state.                                                *)
LEMMA TypedAlways == Spec => []TInv
<1>1. QED
  BY InitTyped, StepTyped, PTL DEF Spec

(* Every variable has its type, whatever the clients do and wherever the   *)
(* threads are: what Disable copies back and what a target holds outside a *)
(* patch is the target's own code or one whole jump, never half of one.    *)
THEOREM TypeCorrect == Spec => []TypeOK
<1>1. QED
  BY TypedAlways, TypedImplies, PTL

(* What AllocateBuffer handed out stays as it was built: no later Enable,  *)
(* nor Disable, changes a slot that a thread may still be in.              *)
THEOREM SlotsKept == Spec => SlotsStay
<1>1. TInv /\ [Next]_vars => [\A s \in 1 .. Slots : slot[s] # NULL => slot'[s] = slot[s]]_vars
  <2> SUFFICES ASSUME TInv, Next, NEW s \in 1 .. Slots, slot[s] # NULL PROVE slot'[s] = slot[s]
    OBVIOUS
  <2>1. proper' \in BOOLEAN
    BY DEF Next
  <2>2. CASE Build
    <3>1. slot[job.slot] = NULL
      BY <2>1, <2>2, BuildTyped
    <3>2. \E x : slot' = [slot EXCEPT ![job.slot] = x]
      BY <2>2 DEF Build
    <3>3. QED
      BY <3>1, <3>2 DEF TInv, Typed
  <2>3. CASE UNCHANGED slot
    BY <2>3
  <2>4. AdminStep => Build \/ UNCHANGED slot
    BY DEF AdminStep, BuildGoesOn, BuildFails, Backup, Restore, EnableReturns,
       DisableReturns,
           Protect, Write, Disable, Enable, pool
  <2>5. QED
    BY <2>2, <2>3, <2>4 DEF Next, CallerStep, pool
<1>2. QED
  BY <1>1, TypedAlways, PTL DEF Spec, SlotsStay

-----------------------------------------------------------------------------
(* What careful clients see to.                                            *)
LEMMA CarefulMeans ==
  ASSUME TInv, Careful, job # NULL
  PROVE  /\ job.careful
         /\ \A p \in Callers :
              /\ at[p].in \in {"entry", "inside"} => at[p].of # job.target
              /\ at[p].in \in {"entry", "inside", "body"} /\ todo \in Reading =>
                   PageOf[at[p].of] # PageOf[job.target]
              /\ at[p].in = "detour" /\ at[p].of = job.hook => ~job.on
<1>1. Building <=> todo \in Reading
  BY CallAt, Statements
<1>2. \A p \in Callers : at[p].in = "detour" /\ at[p].of = job.hook =>
                           at[p] = [in |-> "detour", of |-> job.hook]
  BY DEF TInv, Typed, Spots
<1>3. QED
  BY <1>1, <1>2 DEF Careful

(* The two statements in which an object is being put on, or taken off.    *)
LEMMA Phases ==
  /\ \A h : Installing(h) <=> job # NULL /\ job.hook = h /\ todo \in {E2, E1}
  /\ \A h : Removing(h) <=> job # NULL /\ job.hook = h /\ todo \in {D2, D1}
  /\ \A h : Installing(h)' <=> job' # NULL /\ job'.hook = h /\ todo' \in {E2, E1}
  /\ \A h : Removing(h)' <=> job' # NULL /\ job'.hook = h /\ todo' \in {D2, D1}
  BY DEF Installing, Removing, E2, E1, D2, D1

(* An object that is on is on a target; other than a call in progress says,*)
(* it is on while it is enabled, with the slot its client was given.       *)
LEMMA OnTyped ==
  ASSUME TInv, NEW h \in Hooks
  PROVE  /\ On(h) \in Targets \cup {NULL} /\ Sl(h) \in 1 .. Slots \cup {NULL}
         /\ On(h) # NULL => obj[h].pos = On(h)
<1>1. On(h) \in Targets \cup {NULL} /\ (On(h) # NULL => obj[h].pos = On(h))
  BY DEF On, TInv, Typed, Objects
<1>2. Sl(h) \in 1 .. Slots \cup {NULL}
  BY JobTyped, Phases DEF Sl, TInv, Typed
<1>3. QED
  BY <1>1, <1>2

(* Objects that are on are in different slots.                             *)
LEMMA Ranked ==
  ASSUME TInv, OnInv, NEW f \in Hooks, NEW h \in Hooks, On(f) # NULL, On(h) # NULL
  PROVE  /\ Sl(f) \in 1 .. Slots /\ Sl(h) \in 1 .. Slots
         /\ f # h => Sl(f) # Sl(h)
  BY DEF OnInv, Filled

(* A step that puts nobody on or off.                                      *)
LEMMA ChainSame ==
  ASSUME TInv, OnInv, TopInv,
         \A h \in Hooks :
           On(h)' = On(h) /\ (On(h) # NULL => Sl(h)' = Sl(h) /\ obj'[h].backup = obj[h].backup),
         \A s \in 1 .. Slots : Filled(s) => slot'[s] = slot[s],
         \A t \in Targets :
           \/ job' # NULL /\ job'.target = t /\ todo' \in Halved
           \/ code'[t] = code[t] /\ ~(job # NULL /\ job.target = t /\ todo \in Halved)
  PROVE  OnInv' /\ TopInv'
<1>1. \A t \in Targets : Ons(t)' = Ons(t) /\ \A g \in Ons(t) : Sl(g)' = Sl(g) /\ g \in Hooks
  BY Different DEF Ons
<1>2. ASSUME NEW c, NEW S, \A g \in S : Sl(g)' = Sl(g)
      PROVE  /\ TopOf(c, S) =>
                  \/ S = {} /\ c = Own
                  \/ \E g \in S : c = Jump(Sl(g)') /\ \A f \in S : Sl(f)' <= Sl(g)'
  BY <1>2 DEF TopOf
<1>3. ASSUME NEW h \in Hooks, On(h) # NULL
      PROVE  (/\ Filled(Sl(h)) /\ slot[Sl(h)].hook = h
              /\ slot[Sl(h)].next = After(obj[h].backup, On(h))
              /\ TopOf(obj[h].backup, Under(h)))'
  <2>1. On(h)' = On(h) /\ Sl(h)' = Sl(h) /\ obj'[h].backup = obj[h].backup /\ On(h) \in Targets
    BY <1>3, OnTyped
  <2>2. Filled(Sl(h)) /\ slot[Sl(h)].hook = h /\ slot[Sl(h)].next = After(obj[h].backup, On(h))
        /\ TopOf(obj[h].backup, Under(h))
    BY <1>3 DEF OnInv
  <2>3. slot'[Sl(h)] = slot[Sl(h)]
    BY <2>2 DEF Filled
  <2>4. (Filled(Sl(h)) /\ slot[Sl(h)].hook = h /\ slot[Sl(h)].next = After(obj[h].backup, On(h)))'
    BY <2>1, <2>2, <2>3 DEF Filled, After
  <2>5. Under(h)' = Under(h) /\ \A g \in Under(h) : Sl(g)' = Sl(g)
    <3>1. Under(h)' = {g \in Ons(On(h)) : Sl(g)' < Sl(h)}
      <4>1. Ons(On(h))' = Ons(On(h))
        BY <1>1, <2>1 DEF Ons
      <4>2. QED
        BY <2>1, <4>1 DEF Under
    <3>2. QED
      BY <1>1, <2>1, <3>1 DEF Under
  <2>6. TopOf(obj[h].backup, Under(h))'
    BY <1>2, <2>1, <2>2, <2>5 DEF TopOf
  <2>7. QED
    BY <2>4, <2>6
<1>4. OnInv'
  <2>1. \A h \in Hooks : On(h)' # NULL => On(h) # NULL
    OBVIOUS
  <2>2. QED
    BY <1>3, <2>1 DEF OnInv
<1>5. ASSUME NEW t \in Targets
      PROVE  (TopOf(code[t], Ons(t)) \/ (job # NULL /\ job.target = t /\ todo \in Halved))'
  <2>1. CASE job' # NULL /\ job'.target = t /\ todo' \in Halved
    BY <2>1
  <2>2. CASE code'[t] = code[t] /\ ~(job # NULL /\ job.target = t /\ todo \in Halved)
    <3>1. TopOf(code[t], Ons(t))
      BY <2>2 DEF TopInv
    <3>2. TopOf(code[t], Ons(t))'
      BY <1>1, <1>2, <2>2, <3>1 DEF TopOf
    <3>3. QED
      BY <3>2
  <2>3. QED
    BY <2>1, <2>2
<1>6. TopInv'
  BY <1>5 DEF TopInv
<1>7. QED
  BY <1>4, <1>6

-----------------------------------------------------------------------------
(* A statement that changes no slot, no object and no variable of a client,*)
(* and of the code at most the opcode of the target.                       *)
LEMMA SameStack ==
  ASSUME TInv, TInv', ProperInv, proper, Careful', job # NULL,
         UNCHANGED <<slot, client, job, cpu>>,
         \A t \in Targets : t # job.target => code'[t] = code[t],
         code'[job.target].rel = code[job.target].rel,
         code'[job.target] = code[job.target] \/ todo' \in Halved,
         \/ todo = R3 /\ todo' = R2
         \/ todo = R2 /\ todo' = R1
         \/ todo = E7 /\ todo' = E6
         \/ todo = E6 /\ todo' = E5
         \/ todo = E5 /\ todo' = E4
         \/ todo = E4 /\ todo' = E3
         \/ todo = E2 /\ todo' = E1
         \/ todo = D5 /\ todo' = D4
         \/ todo = D4 /\ todo' = D3
         \/ todo = D2 /\ todo' = D1
  PROVE  /\ ~fault' /\ InsideInv' /\ OnInv' /\ TopInv' /\ EnableInv' /\ DisableInv'
         /\ \A h \in Hooks : On(h)' = On(h) /\ Sl(h)' = Sl(h)
<1>1. /\ todo \in {E2, E1} <=> todo' \in {E2, E1}
      /\ todo \in {D2, D1} <=> todo' \in {D2, D1}
      /\ todo \in Halved => todo' \in Halved
      /\ todo' # E8 /\ (todo' \in {E7, E6, E5, E4, E3} => todo \in {E7, E6, E5, E4, E3})
      /\ todo' \in {D5, D4, D3} => todo \in {D5, D4, D3}
  BY Kinds, Apart
<1>2. \A h \in Hooks : On(h)' = On(h) /\ Sl(h)' = Sl(h)
  BY <1>1, Phases DEF On, Sl, client
<1>3. \A t \in Targets : Ons(t)' = Ons(t)
  BY <1>2 DEF Ons
<1>4. OnInv' /\ TopInv'
  <2>1. \A t \in Targets :
           \/ job' # NULL /\ job'.target = t /\ todo' \in Halved
           \/ code'[t] = code[t] /\ ~(job # NULL /\ job.target = t /\ todo \in Halved)
    BY <1>1
  <2>2. \A h \in Hooks :
          On(h)' = On(h) /\ (On(h) # NULL => Sl(h)' = Sl(h) /\ obj'[h].backup = obj[h].backup)
    BY <1>2 DEF client
  <2>3. \A s \in 1 .. Slots : Filled(s) => slot'[s] = slot[s]
    OBVIOUS
  <2>4. QED
    BY <2>1, <2>2, <2>3, ChainSame DEF ProperInv
<1>5. InsideInv' /\ ~fault'
  <2>1. ASSUME NEW p \in Callers, at[p].in = "inside" PROVE code'[at[p].of] = Own
    <3>1. at[p].of \in Targets /\ code[at[p].of] = Own
      BY <2>1 DEF TInv, SpotInv, ProperInv, InsideInv
    <3>2. at[p].of # job.target
      <4>1. at'[p].in = "inside"
        BY <2>1 DEF cpu
      <4>2. at[p].in = "inside" => at[p].of # job.target
        BY CarefulMeans DEF ProperInv
      <4>3. QED
        BY <2>1, <4>2
    <3>3. QED
      BY <3>1, <3>2
  <2>2. QED
    BY <2>1 DEF InsideInv, ProperInv, cpu
<1>6. EnableInv'
  <2>1. CASE todo' \in {E7, E6, E5, E4, E3} /\ job.on
    <3>1. /\ ~obj[job.hook].enabled
          /\ slot[job.slot].next = After(obj[job.hook].backup, job.target)
          /\ TopOf(obj[job.hook].backup, Ons(job.target))
          /\ code[job.target].rel = obj[job.hook].backup.rel
      BY <1>1, <2>1 DEF ProperInv, EnableInv
    <3>2. TopOf(obj[job.hook].backup, Ons(job.target))'
      <4>1. Ons(job.target)' = Ons(job.target) /\ \A g \in Ons(job.target) : Sl(g)' = Sl(g)
        BY <1>2, <1>3, JobTyped DEF Ons
      <4>2. QED
        BY <3>1, <4>1 DEF TopOf, client
    <3>3. (slot[job.slot].next = After(obj[job.hook].backup, job.target))'
      BY <3>1 DEF After, client
    <3>4. QED
      BY <1>1, <3>1, <3>2, <3>3 DEF EnableInv, client
  <2>2. CASE ~(todo' \in {E7, E6, E5, E4, E3} /\ job.on)
    BY <1>1, <2>2 DEF EnableInv, ProperInv, client
  <2>3. QED
    BY <2>1, <2>2
<1>7. DisableInv'
  <2>1. CASE todo' \in {D5, D4, D3} /\ ~job.on
    <3>1. /\ obj[job.hook].enabled
          /\ On(job.hook) = job.target /\ code[job.target].rel = Sl(job.hook)
          /\ \A g \in Ons(job.target) : Sl(g) <= Sl(job.hook)
      BY <1>1, <2>1 DEF ProperInv, DisableInv
    <3>2. (/\ On(job.hook) = job.target /\ code[job.target].rel = Sl(job.hook)
           /\ \A g \in Ons(job.target) : Sl(g) <= Sl(job.hook))'
      <4>1. On(job.hook)' = On(job.hook) /\ Sl(job.hook)' = Sl(job.hook)
        BY <1>2, JobTyped
      <4>2. Ons(job.target)' = Ons(job.target) /\ \A g \in Ons(job.target) : Sl(g)' = Sl(g)
        BY <1>2, <1>3, JobTyped DEF Ons
      <4>3. QED
        BY <3>1, <4>1, <4>2
    <3>3. QED
      BY <3>1, <3>2 DEF DisableInv, client
  <2>2. CASE ~(todo' \in {D5, D4, D3} /\ ~job.on)
    BY <1>1, <2>2 DEF DisableInv, ProperInv, client
  <2>3. QED
    BY <2>1, <2>2
<1>8. QED
  BY <1>2, <1>4, <1>5, <1>6, <1>7

(* Nobody is in the bytes that a step overwrites.                          *)
LEMMA NobodyInside ==
  ASSUME TInv, ProperInv, proper, UNCHANGED cpu,
         \A t \in Targets : code'[t] = code[t] \/ (job # NULL /\ t = job.target)
  PROVE  InsideInv' /\ ~fault'
<1>1. ASSUME NEW p \in Callers, at[p].in = "inside" PROVE code'[at[p].of] = Own
  <2>1. at[p].of \in Targets /\ code[at[p].of] = Own
    BY <1>1 DEF TInv, SpotInv, ProperInv, InsideInv
  <2>2. job # NULL => at[p].of # job.target
    BY <1>1, CarefulMeans DEF ProperInv
  <2>3. QED
    BY <2>1, <2>2
<1>2. QED
  BY <1>1 DEF InsideInv, ProperInv, cpu

(* A call begins: careful clients enable an object that is not enabled, and*)
(* disable one that is enabled and the youngest on its target.             *)
LEMMA EnableProper ==
  ASSUME TInv, TInv', ProperInv, proper, Careful',
         NEW h \in Hooks, NEW t \in Targets, Enable(h, t)
  PROVE  /\ ~fault' /\ InsideInv' /\ OnInv' /\ TopInv' /\ EnableInv' /\ DisableInv'
         /\ \A g \in Hooks : On(g)' = On(g) /\ Sl(g)' = Sl(g)
<1> DEFINE c == ~obj[h].enabled
           j == [hook |-> h, target |-> t, slot |-> free, on |-> TRUE, careful |-> c]
<1>1. /\ job = NULL /\ job' = j /\ todo' = R3 /\ todo = <<>>
      /\ UNCHANGED <<memory, slot, client, cpu>>
  BY Starts, CallAt DEF Enable
<1>2. j.hook = h /\ j.target = t /\ j.on /\ (j.careful <=> c)
  OBVIOUS
<1> HIDE DEF j
<1>3. job' # NULL
  BY <1>1, Kinds, Apart DEF TInv, JobInv
<1>4. job'.careful
  BY <1>3 DEF Careful
<1>5. ~obj[h].enabled
  BY <1>1, <1>2, <1>4
<1>6. todo' \notin {E8, E7, E6, E5, E4, E3, E2, E1, D2, D1} /\ todo' \notin Halved
  BY <1>1, Kinds, Apart
<1>7. \A g \in Hooks : On(g)' = On(g) /\ Sl(g)' = Sl(g)
  BY <1>1, <1>6, Phases DEF On, Sl, client
<1>8. OnInv' /\ TopInv'
  BY <1>1, <1>7, ChainSame DEF ProperInv, client, memory
<1>9. InsideInv' /\ ~fault'
  BY <1>1, NobodyInside DEF memory
<1>10. EnableInv' /\ DisableInv'
  BY <1>1, <1>2, <1>5, <1>6 DEF EnableInv, DisableInv, client
<1>11. QED
  BY <1>7, <1>8, <1>9, <1>10

(* An object that careful clients disable is on top of its target.         *)
LEMMA DisableProper ==
  ASSUME TInv, TInv', ProperInv, proper, Careful', NEW h \in Hooks, Disable(h)
  PROVE  /\ ~fault' /\ InsideInv' /\ OnInv' /\ TopInv' /\ EnableInv' /\ DisableInv'
         /\ \A g \in Hooks : On(g)' = On(g) /\ Sl(g)' = Sl(g)
<1>0. PICK t \in Targets : t = obj[h].pos /\ t # NULL
  BY Different DEF Disable, TInv, Typed, Objects
<1> DEFINE c == obj[h].enabled /\ InForce(t) = h
           j == [hook |-> h, target |-> t, slot |-> NULL, on |-> FALSE, careful |-> c]
<1>1. /\ job = NULL /\ job' = j /\ todo' = D5 /\ todo = <<>>
      /\ UNCHANGED <<memory, pool, client, cpu>>
  BY <1>0, Starts, CallAt DEF Disable
<1>2. j.hook = h /\ j.target = t /\ ~j.on /\ (j.careful <=> c)
  OBVIOUS
<1> HIDE DEF j
<1>3. job' # NULL
  BY <1>1, Kinds, Apart DEF TInv, JobInv
<1>4. job'.careful
  BY <1>3 DEF Careful
<1>5. obj[h].enabled /\ InForce(t) = h
  BY <1>1, <1>2, <1>4
<1>6. /\ todo' \notin {E8, E7, E6, E5, E4, E3, E2, E1, D2, D1} /\ todo' \notin Halved
      /\ todo \notin {E2, E1, D2, D1}
  BY <1>1, Kinds, Apart DEF Reading, Enabling, Disabling
<1>7. \A g \in Hooks : On(g)' = On(g) /\ Sl(g)' = Sl(g)
  BY <1>1, <1>6, Phases DEF On, Sl, client
<1>8. OnInv' /\ TopInv'
  BY <1>1, <1>7, ChainSame DEF ProperInv, client, memory, pool
<1>9. InsideInv' /\ ~fault'
  BY <1>1, NobodyInside DEF memory
<1>10. On(h) = t /\ t \in Targets
  BY <1>0, <1>1, <1>5, Phases, OnTyped DEF On
<1>11. code[t].rel = Sl(h) /\ \A g \in Ons(t) : Sl(g) <= Sl(h)
  <2>1. TopOf(code[t], Ons(t))
    BY <1>1, <1>10 DEF ProperInv, TopInv
  <2>2. h \in Ons(t)
    BY <1>10 DEF Ons
  <2>3. PICK g \in Ons(t) : code[t] = Jump(Sl(g)) /\ \A f \in Ons(t) : Sl(f) <= Sl(g)
    BY <2>1, <2>2 DEF TopOf
  <2>4. g \in Hooks /\ On(g) = t /\ Filled(Sl(g)) /\ slot[Sl(g)].hook = g
    BY <1>0, <1>1, <2>3 DEF Ons, ProperInv, OnInv
  <2>5. InForce(t) = g
    BY <2>3, <2>4, Different DEF InForce, Jump, Filled
  <2>6. QED
    BY <1>5, <2>3, <2>5 DEF Jump
<1>12. EnableInv' /\ DisableInv'
  <2>1. Ons(t)' = Ons(t) /\ \A g \in Ons(t) : Sl(g)' = Sl(g)
    BY <1>7 DEF Ons
  <2>2. job'.target = t /\ job'.hook = h /\ ~job'.on
    BY <1>1, <1>2
  <2>3. \A g \in Ons(job.target)' : Sl(g)' <= Sl(job.hook)'
    <3>1. Ons(job.target)' = Ons(t)' /\ Sl(job.hook)' = Sl(h)'
      BY <2>2 DEF Ons, Sl, Installing
    <3>2. QED
      BY <1>7, <1>11, <2>1, <3>1
  <2>4. On(job.hook)' = t
    <3>1. On(job.hook)' = On(h)'
      BY <2>2 DEF On, Installing, Removing
    <3>2. QED
      BY <1>7, <1>10, <3>1
  <2>5. code'[job'.target].rel = Sl(job.hook)'
    <3>1. Sl(job.hook)' = Sl(h)'
      BY <2>2 DEF Sl, Installing
    <3>2. QED
      BY <1>1, <1>7, <1>11, <2>2, <3>1 DEF memory
  <2>6. QED
    BY <1>1, <1>5, <2>2, <2>3, <2>4, <2>5 DEF EnableInv, DisableInv, client
<1>13. QED
  BY <1>7, <1>8, <1>9, <1>12

(* While a trampoline is built nothing that callers see changes.           *)
LEMMA BuildProper ==
  ASSUME TInv, TInv', ProperInv, proper, proper', Careful',
         Build \/ BuildGoesOn \/ BuildFails
  PROVE  /\ ~fault' /\ InsideInv' /\ OnInv' /\ TopInv' /\ EnableInv' /\ DisableInv'
         /\ \A g \in Hooks : On(g)' = On(g) /\ Sl(g)' = Sl(g)
         /\ \A s \in 1 .. Slots : Filled(s) => slot'[s] = slot[s]
         /\ todo = R1 /\ job # NULL /\ (job' = NULL \/ (job' = job /\ todo' \in {R3, E8}))
<1> USE DEF client
<1>1. /\ todo = R1 /\ UNCHANGED <<memory, client, cpu>> /\ job # NULL
      /\ \A s \in 1 .. Slots : Filled(s) => slot'[s] = slot[s]
      /\ \/ job' = job /\ todo' = E8 /\ Build
         \/ job' = job /\ todo' = R3
         \/ job' = NULL /\ todo' = <<>>
  <2>1. CASE Build
    <3>1. /\ todo = R1 /\ todo' = E8 /\ job # NULL /\ slot[job.slot] = NULL
          /\ \E x : slot' = [slot EXCEPT ![job.slot] = x]
      BY <2>1, BuildTyped
    <3>2. \A s \in 1 .. Slots : Filled(s) => slot'[s] = slot[s]
      BY <3>1 DEF Filled, TInv, Typed
    <3>3. UNCHANGED <<memory, client, cpu, job>>
      BY <2>1 DEF Build
    <3>4. QED
      BY <2>1, <3>1, <3>2, <3>3
  <2>2. CASE BuildGoesOn
    <3>1. todo = R1 /\ todo' = R3 /\ job # NULL
      BY <2>2, Starts, CallAt, Kinds DEF BuildGoesOn, R1
    <3>2. QED
      BY <2>2, <3>1 DEF BuildGoesOn, pool
  <2>3. CASE BuildFails
    <3>1. todo = R1 /\ todo' = <<>> /\ job # NULL
      BY <2>3, CallAt, Kinds DEF BuildFails, R1
    <3>2. QED
      BY <2>3, <3>1 DEF BuildFails, pool
  <2>4. QED
    BY <2>1, <2>2, <2>3
<1>2. /\ todo \notin {E2, E1, D2, D1} /\ todo' \notin {E2, E1, D2, D1} /\ todo \notin Halved
      /\ todo' \notin {E7, E6, E5, E4, E3} /\ todo' \notin {D5, D4, D3}
      /\ (todo' = E8 => Build /\ job' = job)
  BY <1>1, Kinds, Apart
<1>3. \A g \in Hooks : On(g)' = On(g) /\ Sl(g)' = Sl(g)
  BY <1>1, <1>2, Phases DEF On, Sl
<1>4. OnInv' /\ TopInv'
  BY <1>1, <1>2, <1>3, ChainSame DEF ProperInv, memory
<1>5. InsideInv' /\ ~fault'
  BY <1>1, NobodyInside DEF memory
<1>6. job # NULL /\ job.on /\ ~obj[job.hook].enabled
  BY <1>1, CallAt, Kinds DEF ProperInv, EnableInv
<1>7. todo' = E8 => slot'[job.slot].next = After(code[job.target], job.target)
  <2>1. CASE Build
    <3> DEFINE x == [hook |-> job.hook, next |-> After(code[job.target], job.target)]
    <3>1. slot' = [slot EXCEPT ![job.slot] = x] /\ todo = R1
      BY <2>1, BuildTyped
    <3>2. job.slot \in 1 .. Slots
      BY <1>6, <3>1, Kinds DEF TInv, JobInv
    <3>3. x.next = After(code[job.target], job.target)
      OBVIOUS
    <3> HIDE DEF x
    <3>4. slot'[job.slot] = x
      BY <3>1, <3>2 DEF TInv, Typed
    <3>5. QED
      BY <3>3, <3>4
  <2>2. QED
    BY <1>2, <2>1
<1>8. EnableInv' /\ DisableInv'
  BY <1>1, <1>2, <1>6, <1>7 DEF EnableInv, DisableInv, memory, After
<1>9. QED
  BY <1>1, <1>3, <1>4, <1>5, <1>8

(* The backup is what the target is, and that is what the trampoline goes  *)
(* on with, or what the clients of older objects see there.                *)
LEMMA BackupProper ==
  ASSUME TInv, TInv', ProperInv, proper, proper', Careful', Backup
  PROVE  /\ ~fault' /\ InsideInv' /\ OnInv' /\ TopInv' /\ EnableInv' /\ DisableInv'
         /\ \A g \in Hooks : On(g)' = On(g) /\ Sl(g)' = Sl(g)
<1>1. /\ job # NULL /\ job.on /\ todo = E8 /\ todo' = E7
      /\ UNCHANGED <<memory, pool, origin, job, cpu>>
      /\ \A h \in Hooks : h # job.hook => obj'[h] = obj[h]
      /\ obj'[job.hook].pos = job.target /\ obj'[job.hook].backup = code[job.target]
      /\ obj'[job.hook].enabled = FALSE
  BY BackupTyped DEF Backup
<1>2. /\ todo \notin {E2, E1, D2, D1} /\ todo' \notin {E2, E1, D2, D1}
      /\ todo \notin Halved /\ todo' # E8 /\ todo' \notin {D5, D4, D3}
  BY <1>1, Kinds, Apart
<1>3. ~obj[job.hook].enabled /\ slot[job.slot].next = After(code[job.target], job.target)
  BY <1>1 DEF ProperInv, EnableInv
<1>4. ASSUME NEW g \in Hooks
      PROVE  On(g)' = On(g) /\ Sl(g)' = Sl(g) /\ (On(g) # NULL => obj'[g] = obj[g])
  <2>1. ~Installing(g) /\ ~Removing(g) /\ ~Installing(g)' /\ ~Removing(g)'
    BY <1>2, Phases
  <2>2. CASE g = job.hook
    BY <1>1, <1>3, <2>1, <2>2 DEF On, Sl
  <2>3. CASE g # job.hook
    BY <1>1, <2>1, <2>3 DEF On, Sl
  <2>4. QED
    BY <2>2, <2>3
<1>5. OnInv' /\ TopInv'
  BY <1>1, <1>2, <1>4, ChainSame DEF ProperInv, memory, pool
<1>6. InsideInv' /\ ~fault'
  BY <1>1, NobodyInside DEF memory
<1>7. TopOf(code[job.target], Ons(job.target))
  BY <1>1, <1>2, JobTyped DEF ProperInv, TopInv
<1>8. TopOf(obj[job.hook].backup, Ons(job.target))'
  <2>1. Ons(job.target)' = Ons(job.target) /\ \A g \in Ons(job.target) : Sl(g)' = Sl(g)
    BY <1>1, <1>4 DEF Ons
  <2>2. QED
    BY <1>1, <1>7, <2>1 DEF TopOf
<1>9. (slot[job.slot].next = After(obj[job.hook].backup, job.target))'
  BY <1>1, <1>3 DEF After, pool
<1>10. EnableInv' /\ DisableInv'
  BY <1>1, <1>2, <1>8, <1>9 DEF EnableInv, DisableInv, memory
<1>11. QED
  BY <1>4, <1>5, <1>6, <1>10

(* A call returns: nothing that callers see changes.                       *)
LEMMA ReturnProper ==
  ASSUME TInv, TInv', ProperInv, proper, proper', Careful', EnableReturns \/ DisableReturns
  PROVE  /\ ~fault' /\ InsideInv' /\ OnInv' /\ TopInv' /\ EnableInv' /\ DisableInv'
         /\ \A g \in Hooks : On(g)' = On(g) /\ Sl(g)' = Sl(g)
<1>1. /\ job # NULL /\ job' = NULL /\ UNCHANGED <<memory, pool, cpu>>
      /\ \A h \in Hooks : /\ h # job.hook => obj'[h] = obj[h]
                          /\ obj'[h].pos = obj[h].pos /\ obj'[h].backup = obj[h].backup
      /\ \A h \in Hooks : h # job.hook => origin'[h] = origin[h]
      /\ \/ todo = E1 /\ obj'[job.hook].enabled /\ origin'[job.hook] = job.slot
         \/ todo = D1 /\ ~obj'[job.hook].enabled /\ origin'[job.hook] = origin[job.hook]
  <2>1. /\ job # NULL /\ job' = NULL
        /\ \A h \in Hooks : /\ h # job.hook => obj'[h] = obj[h]
                            /\ obj'[h].pos = obj[h].pos /\ obj'[h].backup = obj[h].backup
    BY ReturnTyped
  <2>2. CASE EnableReturns
    <3>1. todo = E1 /\ obj'[job.hook].enabled
      BY <2>2, ReturnTyped
    <3>2. UNCHANGED <<memory, pool, cpu>> /\ origin' = [origin EXCEPT ![job.hook] = job.slot]
      BY <2>2 DEF EnableReturns
    <3>3. QED
      BY <2>1, <3>1, <3>2, JobTyped DEF TInv, Typed
  <2>3. CASE DisableReturns
    <3>1. todo = D1 /\ ~obj'[job.hook].enabled
      BY <2>3, ReturnTyped
    <3>2. UNCHANGED <<memory, pool, cpu, origin>>
      BY <2>3 DEF DisableReturns
    <3>3. QED
      BY <2>1, <3>1, <3>2
  <2>4. QED
    BY <2>2, <2>3
<1>2. todo \notin Halved /\ E1 \notin {D2, D1} /\ D1 \notin {E2, E1}
  BY <1>1, Kinds, Apart
<1>3. ASSUME NEW g \in Hooks PROVE On(g)' = On(g) /\ Sl(g)' = Sl(g)
  <2>1. ~Installing(g)' /\ ~Removing(g)'
    BY <1>1, Phases
  <2>2. CASE g # job.hook
    <3>1. ~Installing(g) /\ ~Removing(g)
      BY <2>2, Phases
    <3>2. QED
      BY <1>1, <2>1, <2>2, <3>1 DEF On, Sl
  <2>3. CASE g = job.hook /\ todo = E1
    <3>1. Installing(g) /\ ~Removing(g)
      BY <1>1, <1>2, <2>3, Phases
    <3>2. obj'[g].enabled /\ obj'[g].pos = obj[g].pos /\ origin'[g] = job.slot
      BY <1>1, <1>2, <2>3, Kinds, Apart
    <3>3. QED
      BY <2>1, <3>1, <3>2 DEF On, Sl
  <2>4. CASE g = job.hook /\ todo = D1
    <3>1. ~Installing(g) /\ Removing(g)
      BY <1>1, <1>2, <2>4, Phases
    <3>2. ~obj'[g].enabled /\ origin'[g] = origin[g]
      BY <1>1, <1>2, <2>4, Kinds, Apart
    <3>3. QED
      BY <2>1, <3>1, <3>2 DEF On, Sl
  <2>5. QED
    BY <1>1, <2>2, <2>3, <2>4
<1>4. OnInv' /\ TopInv'
  BY <1>1, <1>2, <1>3, ChainSame DEF ProperInv, memory, pool
<1>5. InsideInv' /\ ~fault'
  BY <1>1, NobodyInside DEF memory
<1>6. EnableInv' /\ DisableInv'
  BY <1>1 DEF EnableInv, DisableInv
<1>7. QED
  BY <1>3, <1>4, <1>5, <1>6

(* Protections, and the opcode, which decides nothing.                     *)
LEMMA QuietProper ==
  ASSUME TInv, TInv', ProperInv, proper, proper', Careful',
         \/ Restore \/ Protect("protect", "RWX") \/ Protect("read", "RW")
         \/ Write("opcode", "op", "jmp") \/ Write("old_opcode", "op", obj[job.hook].backup.op)
  PROVE  /\ ~fault' /\ InsideInv' /\ OnInv' /\ TopInv' /\ EnableInv' /\ DisableInv'
         /\ job # NULL /\ \A h \in Hooks : On(h)' = On(h) /\ Sl(h)' = Sl(h)
         /\ \A t \in Targets : code'[t].rel = code[t].rel
<1>0. proper' \in BOOLEAN
  BY DEF TInv, Typed
<1>1. CASE Restore \/ Protect("protect", "RWX") \/ Protect("read", "RW")
  <2>1. UNCHANGED <<code, pool, client, job, cpu>>
    BY <1>1 DEF Restore, Protect
  <2>2. job # NULL
    BY <1>0, <1>1, RestoreTyped, ProtectTyped
  <2>3. \/ (todo = R2 /\ todo' = R1) \/ (todo = E5 /\ todo' = E4)
        \/ (todo = E2 /\ todo' = E1) \/ (todo = D2 /\ todo' = D1)
        \/ (todo = R3 /\ todo' = R2) \/ (todo = E7 /\ todo' = E6)
        \/ (todo = E4 /\ todo' = E3) \/ (todo = D5 /\ todo' = D4)
    BY <1>0, <1>1, RestoreTyped, ProtectTyped
  <2>4. UNCHANGED slot
    BY <2>1 DEF pool
  <2>5. QED
    BY <2>1, <2>2, <2>3, <2>4, SameStack
<1>2. CASE Write("opcode", "op", "jmp")
  <2>1. /\ job # NULL /\ todo = E6 /\ todo' = E5
        /\ code' = [code EXCEPT ![job.target] = [op |-> "jmp", rel |-> code[job.target].rel]]
    BY <1>0, <1>2, OpcodeTyped
  <2>2. UNCHANGED <<slot, client, job, cpu>>
    BY <1>2 DEF Write, pool
  <2>3. /\ \A t \in Targets : t # job.target => code'[t] = code[t]
        /\ code'[job.target].rel = code[job.target].rel
    BY <2>1, JobTyped DEF TInv, Typed
  <2>4. todo' \in Halved
    BY <2>1, Kinds
  <2>5. QED
    BY <2>1, <2>2, <2>3, <2>4, SameStack
<1>3. CASE Write("old_opcode", "op", obj[job.hook].backup.op)
  <2>1. /\ job # NULL /\ todo = D4 /\ todo' = D3
        /\ code' = [code EXCEPT ![job.target] =
                      [op |-> obj[job.hook].backup.op, rel |-> code[job.target].rel]]
    BY <1>0, <1>3, OldOpcodeTyped
  <2>2. UNCHANGED <<slot, client, job, cpu>>
    BY <1>3 DEF Write, pool
  <2>3. /\ \A t \in Targets : t # job.target => code'[t] = code[t]
        /\ code'[job.target].rel = code[job.target].rel
    BY <2>1, JobTyped DEF TInv, Typed
  <2>4. todo' \in Halved
    BY <2>1, Kinds
  <2>5. QED
    BY <2>1, <2>2, <2>3, <2>4, SameStack
<1>4. QED
  BY <1>1, <1>2, <1>3

(* The operand of the jump puts the object on top of those on its target.  *)
LEMMA OperandProper ==
  ASSUME TInv, TInv', ProperInv, proper, proper', Careful', Write("operand", "rel", job.slot)
  PROVE  /\ ~fault' /\ InsideInv' /\ OnInv' /\ TopInv' /\ EnableInv' /\ DisableInv'
         /\ job # NULL /\ On(job.hook) = NULL /\ On(job.hook)' = job.target
         /\ \A g \in Hooks : g # job.hook => On(g)' = On(g) /\ Sl(g)' = Sl(g)
         /\ slot[job.slot].next = After(obj[job.hook].backup, job.target)
         /\ code[job.target].rel = obj[job.hook].backup.rel
         /\ code' = [code EXCEPT ![job.target] = Jump(job.slot)]
         /\ Filled(job.slot) /\ slot[job.slot].hook = job.hook
         /\ Whole(obj[job.hook].backup)
         /\ todo' = E2
<1>0. PICK h \in Hooks, t \in Targets, n \in 1 .. Slots :
        job # NULL /\ h = job.hook /\ t = job.target /\ n = job.slot
  BY OperandTyped, JobTyped DEF TInv, Typed, Filled
<1>1. /\ job.on /\ todo = E3 /\ todo' = E2 /\ Filled(n)
      /\ code' = [code EXCEPT ![t] = Jump(n)]
  BY <1>0, OperandTyped DEF TInv, Typed
<1>2. UNCHANGED <<prot, pool, client, job, cpu>>
  BY DEF Write
<1>3. /\ ~obj[h].enabled /\ slot[n].next = After(obj[h].backup, t)
      /\ TopOf(obj[h].backup, Ons(t)) /\ code[t].rel = obj[h].backup.rel
  BY <1>0, <1>1, Kinds DEF ProperInv, EnableInv
<1>4. obj[h].pos = t /\ slot[n].hook = h /\ free = n + 1
  BY <1>0, <1>1, Kinds, Apart DEF TInv, JobInv
<1>5. /\ todo \notin {E2, E1, D2, D1} /\ todo' \in {E2, E1} /\ todo' \notin {D2, D1}
      /\ todo' \notin Halved /\ todo' \notin {E8, E7, E6, E5, E4, E3} /\ todo' \notin {D5, D4, D3}
  BY <1>1, Kinds, Apart
<1>6. On(h) = NULL /\ On(h)' = t /\ Sl(h)' = n
  BY <1>0, <1>2, <1>3, <1>4, <1>5, Phases DEF On, Sl, client
<1>7. \A g \in Hooks : g # h => On(g)' = On(g) /\ Sl(g)' = Sl(g)
  BY <1>0, <1>2, <1>5, Phases DEF On, Sl, client
<1>8. code'[t] = Jump(n) /\ \A u \in Targets : u # t => code'[u] = code[u]
  BY <1>1 DEF TInv, Typed
<1>9. \A f \in Hooks : On(f) # NULL => Sl(f) \in 1 .. Slots /\ Sl(f) < n /\ f # h
  <2>1. ASSUME NEW f \in Hooks, On(f) # NULL PROVE Sl(f) \in 1 .. Slots /\ Sl(f) < n /\ f # h
    <3>1. Filled(Sl(f)) /\ slot[Sl(f)].hook = f
      BY <2>1 DEF ProperInv, OnInv
    <3>2. Sl(f) \in 1 .. Slots /\ ~(Sl(f) >= free)
      BY <3>1 DEF TInv, SlotInv, FreeInv, Filled
    <3>3. f # h /\ Sl(f) # n
      BY <1>4, <1>6, <2>1, <3>1
    <3>4. QED
      BY <1>4, <3>2, <3>3, Different
  <2>2. QED
    BY <2>1
<1>10. Ons(t)' = Ons(t) \cup {h} /\ h \notin Ons(t) /\ \A g \in Ons(t) : Sl(g) < n /\ Sl(g)' = Sl(g)
  <2>1. \A g \in Hooks : On(g) = t => On(g) # NULL /\ g # h
    BY <1>6, Different
  <2>2. Ons(t)' = Ons(t) \cup {h} /\ h \notin Ons(t)
    BY <1>6, <1>7, <2>1 DEF Ons
  <2>3. QED
    BY <1>7, <1>9, <2>1, <2>2 DEF Ons
<1>11. \A u \in Targets : u # t => Ons(u)' = Ons(u) /\ \A g \in Ons(u) : Sl(g)' = Sl(g)
  <2>1. ASSUME NEW u \in Targets, u # t
        PROVE Ons(u)' = Ons(u) /\ \A g \in Ons(u) : Sl(g)' = Sl(g)
    <3>1. \A g \in Hooks : On(g) = u => g # h
      BY <1>6, Different
    <3>2. QED
      BY <1>6, <1>7, <2>1, <3>1 DEF Ons
  <2>2. QED
    BY <2>1
<1>12. TopInv'
  <2>1. TopOf(code[t], Ons(t))'
    <3>1. \A g \in Ons(t) : Sl(g) <= n
      BY <1>10, <1>9, Different DEF Ons
    <3>2. \A f \in Ons(t)' : Sl(f)' <= Sl(h)'
      BY <1>6, <1>10, <3>1
    <3>3. QED
      BY <1>6, <1>8, <1>10, <3>2 DEF TopOf, Jump
  <2>2. ASSUME NEW u \in Targets, u # t PROVE TopOf(code[u], Ons(u))'
    <3>1. TopOf(code[u], Ons(u))
      BY <1>0, <2>2 DEF ProperInv, TopInv
    <3>2. QED
      BY <1>8, <1>11, <2>2, <3>1 DEF TopOf
  <2>3. QED
    BY <2>1, <2>2 DEF TopInv
<1>13. OnInv'
  <2>1. ASSUME NEW f \in Hooks, f # h, On(f) # NULL
        PROVE  (/\ Filled(Sl(f)) /\ slot[Sl(f)].hook = f
                /\ slot[Sl(f)].next = After(obj[f].backup, On(f))
                /\ TopOf(obj[f].backup, Under(f)))'
    <3>1. Filled(Sl(f)) /\ slot[Sl(f)].hook = f /\ slot[Sl(f)].next = After(obj[f].backup, On(f))
          /\ TopOf(obj[f].backup, Under(f))
      BY <2>1 DEF ProperInv, OnInv
    <3>2. On(f)' = On(f) /\ Sl(f)' = Sl(f) /\ On(f) \in Targets
      BY <1>7, <2>1, OnTyped
    <3>3. (Filled(Sl(f)) /\ slot[Sl(f)].hook = f /\ slot[Sl(f)].next = After(obj[f].backup, On(f)))'
      BY <1>2, <3>1, <3>2 DEF Filled, After, pool, client
    <3>4. Under(f)' = {g \in Ons(On(f))' : Sl(g)' < Sl(f)}
      BY <3>2 DEF Under, Ons
    <3>5. Under(f)' = Under(f) /\ \A g \in Under(f) : Sl(g)' = Sl(g)
      <4>1. CASE On(f) = t
        <5>1. ~(Sl(h)' < Sl(f)) /\ Sl(f) \in Nat
          BY <1>6, <1>9, <2>1, Different
        <5>2. Under(f)' = {g \in Ons(t) \cup {h} : Sl(g)' < Sl(f)}
          BY <1>10, <3>4, <4>1 DEF Ons
        <5>3. QED
          BY <1>10, <4>1, <5>1, <5>2 DEF Under
      <4>2. CASE On(f) # t
        <5>1. Ons(On(f))' = Ons(On(f))
          BY <1>11, <3>2, <4>2 DEF Ons
        <5>2. QED
          BY <1>11, <3>2, <3>4, <4>2, <5>1 DEF Under
      <4>3. QED
        BY <4>1, <4>2
    <3>6. TopOf(obj[f].backup, Under(f))'
      BY <1>2, <3>1, <3>5 DEF TopOf, client
    <3>7. QED
      BY <3>3, <3>6
  <2>2. (/\ Filled(Sl(h)) /\ slot[Sl(h)].hook = h
         /\ slot[Sl(h)].next = After(obj[h].backup, On(h))
         /\ TopOf(obj[h].backup, Under(h)))'
    <3>1. (/\ Filled(Sl(h)) /\ slot[Sl(h)].hook = h
           /\ slot[Sl(h)].next = After(obj[h].backup, On(h)))'
      BY <1>1, <1>2, <1>3, <1>4, <1>6 DEF Filled, After, pool, client
    <3>2. Under(h)' = Ons(t)
      <4>1. Under(h)' = {g \in Ons(t)' : Sl(g)' < n}
        BY <1>6 DEF Under, Ons
      <4>2. ~(n < n)
        BY Different
      <4>3. QED
        BY <1>6, <1>10, <4>1, <4>2
    <3>3. TopOf(obj[h].backup, Under(h))'
      BY <1>2, <1>3, <1>10, <3>2 DEF TopOf, client
    <3>4. QED
      BY <3>1, <3>3
  <2>3. \A f \in Hooks : f # h /\ On(f)' # NULL => On(f) # NULL
    BY <1>7
  <2>4. QED
    BY <2>1, <2>2, <2>3 DEF OnInv
<1>14. InsideInv' /\ ~fault'
  BY <1>0, <1>2, <1>8, NobodyInside
<1>15. EnableInv' /\ DisableInv'
  BY <1>0, <1>1, <1>2, <1>3, <1>5 DEF EnableInv, DisableInv, client
<1>16. Whole(obj[h].backup)
  BY <1>4, Kept, Different
<1>17. job.hook = h /\ On(job.hook)' = t
  <2>1. job'.hook = h /\ job.hook = h
    BY <1>0, <1>2
  <2>2. On(job.hook)' = On(h)'
    BY <2>1 DEF On, Installing, Removing
  <2>3. QED
    BY <1>6, <2>1, <2>2
<1>18. QED
  BY <1>17, <1>0, <1>1, <1>3, <1>4, <1>6, <1>7, <1>12, <1>13, <1>14, <1>15,
     <1>16

(* The operand of the backup takes the object off, which was on top.       *)
LEMMA OldOperandProper ==
  ASSUME TInv, TInv', ProperInv, proper, proper', Careful',
         Write("old_operand", "rel", obj[job.hook].backup.rel)
  PROVE  /\ ~fault' /\ InsideInv' /\ OnInv' /\ TopInv' /\ EnableInv' /\ DisableInv'
         /\ job # NULL /\ job.hook \in Hooks /\ On(job.hook) = job.target /\ On(job.hook)' = NULL
         /\ \A g \in Hooks : (g # job.hook => On(g)' = On(g)) /\ Sl(g)' = Sl(g)
         /\ code[job.target].rel = Sl(job.hook)
         /\ code' = [code EXCEPT ![job.target] = obj[job.hook].backup]
         /\ Whole(obj[job.hook].backup)
         /\ ~job.on /\ todo' = D2
<1>0. PICK h \in Hooks, t \in Targets : job # NULL /\ h = job.hook /\ t = job.target
  BY OldOperandTyped, JobTyped DEF TInv, Typed
<1>1. /\ ~job.on /\ todo = D3 /\ todo' = D2 /\ Whole(obj[h].backup)
      /\ code' = [code EXCEPT ![t] = obj[h].backup]
  BY <1>0, OldOperandTyped DEF TInv, Typed
<1>2. UNCHANGED <<prot, pool, client, job, cpu>>
  BY DEF Write
<1>3. /\ obj[h].enabled /\ On(h) = t /\ code[t].rel = Sl(h)
      /\ \A g \in Ons(t) : Sl(g) <= Sl(h)
  BY <1>0, <1>1, Kinds DEF ProperInv, DisableInv
<1>4. /\ todo \notin {E2, E1, D2, D1} /\ todo' \in {D2, D1} /\ todo' \notin {E2, E1}
      /\ todo' \notin Halved /\ todo' \notin {D5, D4, D3}
  BY <1>1, Kinds, Apart
<1>5. On(h)' = NULL /\ Sl(h)' = Sl(h)
  BY <1>0, <1>2, <1>4, Phases DEF On, Sl, client
<1>6. \A g \in Hooks : g # h => On(g)' = On(g) /\ Sl(g)' = Sl(g)
  BY <1>0, <1>2, <1>4, Phases DEF On, Sl, client
<1>7. code'[t] = obj[h].backup /\ \A u \in Targets : u # t => code'[u] = code[u]
  BY <1>1 DEF TInv, Typed
<1>8. \A f \in Hooks : On(f) # NULL => Sl(f) \in 1 .. Slots /\ (f # h => Sl(f) # Sl(h))
  BY <1>3, Ranked, Different DEF ProperInv
<1>9. Under(h) = Ons(t) \ {h} /\ Ons(t)' = Ons(t) \ {h} /\ \A g \in Ons(t) : Sl(g)' = Sl(g)
  <2>1. ASSUME NEW g \in Ons(t) PROVE Sl(g) < Sl(h) <=> g # h
    <3>1. g \in Hooks /\ On(g) # NULL /\ On(h) # NULL /\ Sl(g) <= Sl(h)
      BY <1>3, <2>1, Different DEF Ons
    <3>2. Sl(g) \in 1 .. Slots /\ Sl(h) \in 1 .. Slots /\ (g # h => Sl(g) # Sl(h))
      BY <1>8, <3>1
    <3>3. QED
      BY <3>1, <3>2, Different
  <2>2. Under(h) = Ons(t) \ {h}
    BY <1>3, <2>1 DEF Under
  <2>3. Ons(t)' = Ons(t) \ {h}
    BY <1>3, <1>5, <1>6, Different DEF Ons
  <2>4. QED
    BY <1>5, <1>6, <2>2, <2>3 DEF Ons
<1>10. \A u \in Targets : u # t => Ons(u)' = Ons(u) /\ \A g \in Ons(u) : Sl(g)' = Sl(g)
  BY <1>3, <1>5, <1>6, Different DEF Ons
<1>11. TopInv'
  <2>1. TopOf(code[t], Ons(t))'
    <3>1. TopOf(obj[h].backup, Under(h))
      BY <1>3, Different DEF ProperInv, OnInv
    <3>2. QED
      BY <1>7, <1>9, <3>1 DEF TopOf
  <2>2. ASSUME NEW u \in Targets, u # t PROVE TopOf(code[u], Ons(u))'
    <3>1. TopOf(code[u], Ons(u))
      BY <1>0, <2>2 DEF ProperInv, TopInv
    <3>2. QED
      BY <1>7, <1>10, <2>2, <3>1 DEF TopOf
  <2>3. QED
    BY <2>1, <2>2 DEF TopInv
<1>12. OnInv'
  <2>1. ASSUME NEW f \in Hooks, f # h, On(f) # NULL
        PROVE  (/\ Filled(Sl(f)) /\ slot[Sl(f)].hook = f
                /\ slot[Sl(f)].next = After(obj[f].backup, On(f))
                /\ TopOf(obj[f].backup, Under(f)))'
    <3>1. Filled(Sl(f)) /\ slot[Sl(f)].hook = f /\ slot[Sl(f)].next = After(obj[f].backup, On(f))
          /\ TopOf(obj[f].backup, Under(f))
      BY <2>1 DEF ProperInv, OnInv
    <3>2. On(f)' = On(f) /\ Sl(f)' = Sl(f) /\ On(f) \in Targets
      BY <1>6, <2>1, OnTyped
    <3>3. (Filled(Sl(f)) /\ slot[Sl(f)].hook = f /\ slot[Sl(f)].next = After(obj[f].backup, On(f)))'
      BY <1>2, <3>1, <3>2 DEF Filled, After, pool, client
    <3>4. Under(f)' = {g \in Ons(On(f))' : Sl(g)' < Sl(f)}
      BY <3>2 DEF Under, Ons
    <3>5. Under(f)' = Under(f) /\ \A g \in Under(f) : Sl(g)' = Sl(g)
      <4>1. CASE On(f) = t
        <5>1. ~(Sl(h) < Sl(f))
          <6>1. Sl(f) <= Sl(h) /\ Sl(f) \in Nat /\ Sl(h) \in Nat
            BY <1>3, <1>8, <4>1, Different DEF Ons
          <6>2. QED
            BY <6>1
        <5>2. Under(f)' = {g \in Ons(t) \ {h} : Sl(g)' < Sl(f)}
          BY <1>9, <3>2, <3>4, <4>1 DEF Ons
        <5>3. QED
          BY <1>9, <4>1, <5>1, <5>2 DEF Under
      <4>2. CASE On(f) # t
        <5>1. Ons(On(f))' = Ons(On(f))
          BY <1>10, <3>2, <4>2 DEF Ons
        <5>2. QED
          BY <1>10, <3>2, <3>4, <4>2, <5>1 DEF Under
      <4>3. QED
        BY <4>1, <4>2
    <3>6. TopOf(obj[f].backup, Under(f))'
      BY <1>2, <3>1, <3>5 DEF TopOf, client
    <3>7. QED
      BY <3>3, <3>6
  <2>2. \A f \in Hooks : On(f)' # NULL => f # h /\ On(f) # NULL
    BY <1>5, <1>6
  <2>3. QED
    BY <2>1, <2>2 DEF OnInv
<1>13. InsideInv' /\ ~fault'
  BY <1>0, <1>2, <1>7, NobodyInside
<1>14. EnableInv' /\ DisableInv'
  BY <1>0, <1>1, <1>2, <1>3, <1>4 DEF EnableInv, DisableInv, client
<1>15. job.hook = h /\ On(job.hook)' = NULL
  <2>1. job'.hook = h /\ job.hook = h
    BY <1>0, <1>2
  <2>2. On(job.hook)' = On(h)'
    BY <2>1 DEF On, Installing, Removing
  <2>3. QED
    BY <1>5, <2>1, <2>2
<1>16. QED
  BY <1>0, <1>1, <1>3, <1>5, <1>6, <1>11, <1>12, <1>13, <1>14, <1>15

(* A caller that jumps to a filled slot or to a target does not go astray. *)
LEMMA GoesProper ==
  ASSUME TInv, NEW p \in Callers, NEW x, GoesTo(p, x), x \in Targets \/ Filled(x)
  PROVE  \/ x \in Targets /\ Moves(p, "body", x)
         \/ Filled(x) /\ Moves(p, "detour", slot[x].hook)
  BY Different DEF GoesTo, Filled

(* Where the callers go when clients are careful: nothing a caller runs is *)
(* half patched, and no page it runs on is without the right to execute.   *)
LEMMA CallerProper ==
  ASSUME TInv, ProperInv, proper, NEW p \in Callers, CallerStep(p)
  PROVE  \/ \E t \in Targets : at[p] = Nowhere /\ Moves(p, "entry", t)
         \/ /\ at[p].in = "entry" /\ code[at[p].of] = Own
            /\ Moves(p, "inside", at[p].of)
         \/ /\ at[p].in = "entry" /\ code[at[p].of] = Jump(code[at[p].of].rel)
            /\ Filled(code[at[p].of].rel)
            /\ Moves(p, "detour", slot[code[at[p].of].rel].hook)
         \/ at[p].in = "inside" /\ Moves(p, "body", at[p].of)
         \/ at[p].in \in {"body", "detour"} /\ Moves(p, "caller", NULL)
         \/ /\ at[p].in = "detour" /\ at[p].of \in Hooks /\ Filled(origin[at[p].of])
            /\ LET x == slot[origin[at[p].of]].next
               IN  \/ x \in Targets /\ Moves(p, "body", x)
                   \/ Filled(x) /\ Moves(p, "detour", slot[x].hook)
<1> DEFINE t == at[p].of
<1>1. at[p].in \in {"entry", "inside", "body"} => t \in Targets /\ Executable(PageOf[t])
  <2>1. ASSUME at[p].in \in {"entry", "inside", "body"} PROVE t \in Targets /\ Executable(PageOf[t])
    <3>1. t \in Targets /\ PageOf[t] \in Pages
      BY <2>1 DEF TInv, SpotInv, Pages
    <3>2. job # NULL /\ todo = R2 => PageOf[t] # PageOf[job.target]
      BY <2>1, CarefulMeans, Kinds DEF ProperInv
    <3>3. QED
      BY <3>1, <3>2 DEF TInv, ProtInv, Executable
  <2>2. QED
    BY <2>1
<1>2. at[p].in = "entry" => Whole(code[t])
  <2>1. job # NULL /\ at[p].in = "entry" => t # job.target
    BY CarefulMeans DEF ProperInv
  <2>2. QED
    BY <1>1, <2>1 DEF TInv, WholeInv
<1>3. CASE \E u \in Targets : Call(p, u)
  BY <1>3 DEF Call
<1>4. CASE Fetch(p)
  <2>1. CASE code[t] = Own
    BY <1>1, <1>4, <2>1 DEF Fetch
  <2>2. CASE code[t] # Own
    <3>1. PICK s \in 1 .. Slots : Filled(s) /\ code[t] = Jump(s)
      BY <1>2, <1>4, <2>2 DEF Fetch, Whole
    <3>2. code[t].rel = s /\ code[t].op = "jmp"
      BY <3>1 DEF Jump
    <3>3. GoesTo(p, s)
      BY <1>1, <1>4, <2>2, <3>2 DEF Fetch
    <3>4. Moves(p, "detour", slot[s].hook)
      BY <3>1, <3>3, GoesProper, Different
    <3>5. QED
      BY <1>4, <3>1, <3>2, <3>4 DEF Fetch
  <2>3. QED
    BY <2>1, <2>2
<1>5. CASE GoOn(p)
  BY <1>1, <1>5 DEF GoOn, ProperInv, InsideInv
<1>6. CASE CallReturns(p)
  BY <1>1, <1>6 DEF CallReturns
<1>7. CASE CallOrigin(p)
  <2> DEFINE x == slot[origin[t]].next
  <2>1. at[p].in = "detour" /\ t \in Hooks /\ origin[t] # NULL /\ GoesTo(p, x)
    BY <1>7 DEF CallOrigin, TInv, SpotInv
  <2>2. Filled(origin[t])
    BY <2>1 DEF TInv, SlotInv, OriginInv
  <2>3. x \in Targets \/ Filled(x)
    BY <2>2 DEF TInv, SlotInv, NextInv, Filled
  <2> HIDE DEF x
  <2>4. \/ x \in Targets /\ Moves(p, "body", x)
        \/ Filled(x) /\ Moves(p, "detour", slot[x].hook)
    BY <2>1, <2>3, GoesProper
  <2>5. QED
    BY <2>1, <2>2, <2>4 DEF x
<1>8. QED
  BY <1>3, <1>4, <1>5, <1>6, <1>7 DEF CallerStep

-----------------------------------------------------------------------------
(* As long as clients are careful every step keeps what they rely on.      *)
LEMMA StepProper == TInv /\ TInv' /\ ProperInv /\ [Next]_vars => ProperInv'
<1> SUFFICES ASSUME TInv, TInv', ProperInv, [Next]_vars, proper' PROVE ProperInv'
  BY DEF ProperInv
<1>1. CASE UNCHANGED vars
  <2>1. UNCHANGED <<code, prot, slot, free, obj, origin, job, todo, saved, at, fault, proper>>
    BY <1>1 DEF vars, memory, pool, client, call, cpu
  <2>2. \A h \in Hooks : On(h)' = On(h) /\ Sl(h)' = Sl(h)
    BY <2>1 DEF On, Sl, Installing, Removing
  <2>3. OnInv' /\ TopInv' /\ EnableInv' /\ DisableInv'
    <3>1. OnInv /\ TopInv /\ EnableInv /\ DisableInv
      BY <2>1 DEF ProperInv
    <3>2. OnInv'
      BY <3>1, <2>1, <2>2 DEF OnInv, TopOf, Under, Ons, Filled, After
    <3>3. TopInv'
      BY <3>1, <2>1, <2>2 DEF TopInv, TopOf, Ons, Filled, Under
    <3>4. EnableInv'
      BY <3>1, <2>1, <2>2 DEF EnableInv, TopOf, Ons, Filled, Under, After
    <3>5. DisableInv'
      BY <3>1, <2>1 DEF DisableInv, Ons, On, Sl, Installing, Removing
    <3>6. QED
      BY <3>2, <3>3, <3>4, <3>5
  <2>4. Careful' /\ ~fault' /\ InsideInv'
    BY <2>1 DEF ProperInv, Careful, Building, InsideInv
  <2>5. QED
    BY <2>3, <2>4 DEF ProperInv
<1>2. CASE Next
  <2>1. proper /\ Careful'
    BY <1>2 DEF Next
  <2>2. ASSUME NEW p \in Callers, CallerStep(p)
        PROVE  ~fault' /\ InsideInv' /\ OnInv' /\ TopInv' /\ EnableInv' /\ DisableInv'
    <3>1. UNCHANGED <<memory, pool, client, call>>
      BY <2>2 DEF CallerStep
    <3>2. \E i, f : Moves(p, i, f) /\ (i = "inside" => f \in Targets /\ code[f] = Own)
      <4>1. at[p].in = "entry" => at[p].of \in Targets
        BY DEF TInv, SpotInv
      <4>2. QED
        BY <2>1, <2>2, <4>1, CallerProper
    <3>3. ~fault' /\ InsideInv'
      <4>1. PICK i, f : Moves(p, i, f) /\ (i = "inside" => f \in Targets /\ code[f] = Own)
        BY <3>2
      <4> DEFINE s == [in |-> i, of |-> f]
      <4>2. at' = [at EXCEPT ![p] = s] /\ fault' = fault /\ s.in = i /\ s.of = f
        BY <4>1 DEF Moves
      <4> HIDE DEF s
      <4>3. at'[p] = s /\ \A q \in Callers : q # p => at'[q] = at[q]
        BY <4>2 DEF TInv, Typed
      <4>4. QED
        BY <2>1, <3>1, <4>1, <4>2, <4>3 DEF ProperInv, InsideInv, memory
    <3>4. OnInv' /\ TopInv' /\ EnableInv' /\ DisableInv'
      BY SMTT(30), <2>1, <3>1 DEF ProperInv, OnInv, TopInv, EnableInv,
         DisableInv, TopOf,
         Under, Ons, On,
                 Sl, Installing, Removing, Filled, After, memory, pool, client, call
    <3>5. QED
      BY <3>3, <3>4
  <2>3. ASSUME AdminStep
        PROVE  ~fault' /\ InsideInv' /\ OnInv' /\ TopInv' /\ EnableInv' /\ DisableInv'
    <3>1. ASSUME NEW h \in Hooks, Disable(h)
          PROVE  ~fault' /\ InsideInv' /\ OnInv' /\ TopInv' /\ EnableInv' /\ DisableInv'
      BY <2>1, <3>1, DisableProper
    <3>2. ASSUME NEW h \in Hooks, NEW t \in Targets, Enable(h, t)
          PROVE  ~fault' /\ InsideInv' /\ OnInv' /\ TopInv' /\ EnableInv' /\ DisableInv'
      BY <2>1, <3>2, EnableProper
    <3>3. CASE Build \/ BuildGoesOn \/ BuildFails
      BY <2>1, <3>3, BuildProper
    <3>4. CASE Backup
      BY <2>1, <3>4, BackupProper
    <3>5. CASE EnableReturns \/ DisableReturns
      BY <2>1, <3>5, ReturnProper
    <3>6. CASE \/ Restore \/ Protect("protect", "RWX") \/ Protect("read", "RW")
               \/ Write("opcode", "op", "jmp") \/ Write("old_opcode", "op", obj[job.hook].backup.op)
      BY <2>1, <3>6, QuietProper
    <3>7. CASE Write("operand", "rel", job.slot)
      BY <2>1, <3>7, OperandProper
    <3>8. CASE Write("old_operand", "rel", obj[job.hook].backup.rel)
      BY <2>1, <3>8, OldOperandProper
    <3>9. QED
      BY <2>3, <3>1, <3>2, <3>3, <3>4, <3>5, <3>6, <3>7, <3>8 DEF AdminStep
  <2>4. QED
    BY <1>2, <2>1, <2>2, <2>3 DEF Next, ProperInv
<1>3. QED
  BY <1>1, <1>2

(* Careful clients have done nothing yet.                                  *)
LEMMA InitProper == Init => ProperInv
<1> SUFFICES ASSUME Init PROVE ProperInv
  OBVIOUS
<1>1. \A h \in Hooks : On(h) = NULL
  BY DEF Init, On, Installing
<1>2. \A t \in Targets : Ons(t) = {} /\ code[t] = Own
  BY <1>1, Different DEF Ons, Init
<1>3. TopInv
  BY <1>2 DEF TopInv, TopOf
<1>4. OnInv /\ EnableInv /\ DisableInv
  BY <1>1 DEF OnInv, EnableInv, DisableInv, Init
<1>5. Careful /\ ~fault /\ InsideInv
  BY DEF Init, Careful, InsideInv, Nowhere
<1>6. QED
  BY <1>3, <1>4, <1>5 DEF ProperInv

(* Both invariants hold in every state.                                    *)
LEMMA ProperAlways == Spec => [](TInv /\ ProperInv)
<1>1. TInv /\ ProperInv /\ [Next]_vars => (TInv /\ ProperInv)'
  BY StepTyped, StepProper
<1>2. QED
  BY <1>1, InitTyped, InitProper, PTL DEF Spec

(* With careful clients no thread faults: no page it runs on loses the     *)
(* right to execute, no half patched instruction is fetched, and every jump*)
(* leads to a slot that is filled, also the one in the trampoline of an    *)
(* object that was disabled while the thread was in its detour.            *)
THEOREM Survival == Spec => []NoFault
<1>1. TInv /\ ProperInv => NoFault
  BY DEF ProperInv, NoFault
<1>2. QED
  BY <1>1, ProperAlways, PTL

(* With careful clients a target that no object is on has its own bytes    *)
(* back, whatever objects came and went, and between calls every page its  *)
(* own protection.                                                         *)
THEOREM Restoration == Spec => []CodeRestored
<1>1. ASSUME TInv, ProperInv PROVE CodeRestored
  <2>1. ASSUME proper, NEW t \in Targets, job = NULL, \A h \in Hooks : On(h) # t
        PROVE  code[t] = Own
    <3>1. TopOf(code[t], Ons(t)) /\ Ons(t) = {}
      BY <1>1, <2>1 DEF ProperInv, TopInv, Ons
    <3>2. QED
      BY <3>1 DEF TopOf
  <2>2. job = NULL => \A g \in Pages : prot[g] = "RX"
    BY <1>1 DEF TInv, ProtInv
  <2>3. QED
    BY <2>1, <2>2 DEF CodeRestored
<1>2. QED
  BY <1>1, ProperAlways, PTL

-----------------------------------------------------------------------------
(* The stack that callers see, in terms of slots.                          *)
LEMMA BelowSlot ==
  ASSUME TInv, NEW h \in Hooks
  PROVE  /\ Sl(h) = NULL \/ Filled(Sl(h))
         /\ Below(h) = IF Sl(h) = NULL THEN NULL ELSE HookIn(slot[Sl(h)].next)
<1>1. CASE Installing(h)
  <2>1. job # NULL /\ todo \in {E2, E1}
    BY <1>1, Phases
  <2>2. Filled(job.slot) /\ job.slot # NULL
    BY <2>1, CallAt, Kinds, Apart, Different DEF TInv, JobInv, Filled
  <2>3. QED
    BY <1>1, <2>2 DEF Sl, Below
<1>2. CASE ~Installing(h)
  BY <1>2 DEF Sl, Below, TInv, SlotInv, OriginInv
<1>3. QED
  BY <1>1, <1>2

(* Filled slots stay, and so does what they lead to.                       *)
LEMMA HookInSame ==
  ASSUME TInv, \A s \in 1 .. Slots : Filled(s) => slot'[s] = slot[s],
         NEW s \in 1 .. Slots, Filled(s)
  PROVE  HookIn(slot[s].next)' = HookIn(slot[s].next)
<1>1. slot'[s] = slot[s] /\ (slot[s].next \in Targets \/ Filled(slot[s].next))
  BY DEF TInv, SlotInv, NextInv
<1>2. QED
  BY <1>1, Different DEF HookIn, Filled

(* So an object keeps what it was put on.                                  *)
LEMMA BelowSame ==
  ASSUME TInv, TInv', \A s \in 1 .. Slots : Filled(s) => slot'[s] = slot[s],
         NEW h \in Hooks, Sl(h)' = Sl(h)
  PROVE  Below(h)' = Below(h)
<1>1. /\ Sl(h) = NULL \/ Filled(Sl(h))
      /\ Below(h) = IF Sl(h) = NULL THEN NULL ELSE HookIn(slot[Sl(h)].next)
  BY BelowSlot
<1>2. Below(h)' = IF Sl(h)' = NULL THEN NULL ELSE HookIn(slot[Sl(h)].next)'
  <2>1. CASE Installing(h)'
    <3>1. job' # NULL /\ todo' \in {E2, E1}
      BY <2>1, Phases
    <3>2. job'.slot # NULL
      <4>1. job'.on
        BY <3>1, Kinds, Apart DEF TInv, JobInv
      <4>2. QED
        BY <3>1, <4>1, Different DEF TInv, JobInv
    <3>3. QED
      BY <2>1, <3>2 DEF Sl, Below
  <2>2. CASE ~Installing(h)'
    BY <2>2 DEF Sl, Below
  <2>3. QED
    BY <2>1, <2>2
<1>3. CASE Sl(h) = NULL
  BY <1>1, <1>2, <1>3
<1>4. CASE Sl(h) # NULL
  <2>1. PICK n \in 1 .. Slots : n = Sl(h) /\ Filled(n)
    BY <1>1, <1>4 DEF Filled
  <2>2. HookIn(slot[n].next)' = HookIn(slot[n].next)
    BY <2>1, HookInSame
  <2>3. HookIn(slot[Sl(h)].next)' = HookIn(slot[n].next)'
    BY <2>1 DEF HookIn
  <2>4. QED
    BY <1>1, <1>2, <1>4, <2>1, <2>2, <2>3
<1>5. QED
  BY <1>3, <1>4

(* And a target runs what it ran, as long as its operand is the same.      *)
LEMMA InForceSame ==
  ASSUME TInv, \A s \in 1 .. Slots : Filled(s) => slot'[s] = slot[s],
         NEW t \in Targets, code'[t].rel = code[t].rel
  PROVE  InForce(t)' = InForce(t)
<1>1. code[t].rel = NULL \/ (Filled(code[t].rel) /\ code[t].rel \in 1 .. Slots)
  BY DEF TInv, SlotInv, CodeInv, Filled
<1>2. QED
  BY <1>1 DEF InForce

(* What whole bytes put in force.                                          *)
LEMMA InForceAfter ==
  ASSUME NEW t \in Targets, NEW c, Whole(c)
  PROVE  (IF c.rel = NULL THEN t ELSE slot[c.rel].hook) = HookIn(After(c, t))
<1>1. CASE c = Own
  BY <1>1 DEF Own, After, HookIn
<1>2. CASE \E s \in 1 .. Slots : Filled(s) /\ c = Jump(s)
  <2>1. PICK s \in 1 .. Slots : Filled(s) /\ c = Jump(s)
    BY <1>2
  <2>2. c # Own /\ c.rel = s /\ s # NULL /\ s \notin Targets
    <3>1. c.op = "jmp" /\ Own.op = "own" /\ c.rel = s
      BY <2>1 DEF Jump, Own
    <3>2. QED
      BY <3>1, Different
  <2>3. QED
    BY <2>2 DEF After, HookIn
<1>3. QED
  BY <1>1, <1>2 DEF Whole

(* The values of the stack's variables.                                    *)
Runs(p) == IF at[p].in = "entry" THEN NULL ELSE at[p].of

SameHooks == \A h \in Hooks : On(h)' = On(h) /\ Below(h)' = Below(h)
SameTops  == \A t \in Targets : InForce(t)' = InForce(t)
SameRuns  == \A p \in Callers : Runs(p)' = Runs(p)

(* A step of the stack, when its values change like this.                  *)
LEMMA StackStutters ==
  ASSUME SameHooks, SameTops, SameRuns
  PROVE  UNCHANGED Stack!vars
  BY DEF SameHooks, SameTops, SameRuns, Runs, Stack!vars

(* No thread moves.                                                        *)
LEMMA RunsSame == UNCHANGED cpu => SameRuns
  BY DEF cpu, SameRuns, Runs

(* The operand written is Enable of the stack.                             *)
LEMMA OperandEnables ==
  ASSUME TInv, TInv', ProperInv, proper, proper', Careful', Write("operand", "rel", job.slot)
  PROVE  Stack!Next
<1>1. /\ job # NULL /\ On(job.hook) = NULL /\ On(job.hook)' = job.target
      /\ \A g \in Hooks : g # job.hook => On(g)' = On(g) /\ Sl(g)' = Sl(g)
      /\ slot[job.slot].next = After(obj[job.hook].backup, job.target)
      /\ code[job.target].rel = obj[job.hook].backup.rel
      /\ code' = [code EXCEPT ![job.target] = Jump(job.slot)]
      /\ Filled(job.slot) /\ slot[job.slot].hook = job.hook /\ Whole(obj[job.hook].backup)
      /\ todo' = E2
  BY OperandProper
<1>2. PICK h \in Hooks, t \in Targets, n \in 1 .. Slots : h = job.hook /\ t = job.target /\ n = job.slot
  BY <1>1, JobTyped DEF Filled
<1>3. UNCHANGED <<prot, pool, client, job, cpu>>
  BY DEF Write
<1>4. \A s \in 1 .. Slots : Filled(s) => slot'[s] = slot[s]
  BY <1>3 DEF pool
<1>5. \A g \in Hooks : g # h => On(g)' = On(g) /\ Below(g)' = Below(g)
  BY <1>1, <1>2, <1>4, BelowSame
<1>6. On(h) = NULL /\ On(h)' = t
  <2>1. job.hook = h /\ job'.hook = h
    BY <1>2, <1>3
  <2>2. On(h)' = On(job.hook)'
    BY <2>1 DEF On, Installing, Removing
  <2>3. QED
    BY <1>1, <1>2, <2>2
<1>7. code'[t] = Jump(n) /\ \A u \in Targets : u # t => code'[u] = code[u]
  BY <1>1, <1>2 DEF TInv, Typed
<1>8. \A u \in Targets : u # t => InForce(u)' = InForce(u)
  BY <1>4, <1>7, InForceSame
<1>9. InForce(t)' = h
  <2>1. code'[t].rel = n /\ n # NULL /\ slot'[n].hook = h
    BY <1>1, <1>2, <1>3, <1>7, Different DEF Jump, pool
  <2>2. QED
    BY <2>1 DEF InForce
<1>10. Below(h)' = InForce(t)
  <2>1. InForce(t) = HookIn(slot[n].next)
    <3> DEFINE c == obj[h].backup
    <3>1. Whole(c) /\ code[t].rel = c.rel /\ slot[n].next = After(c, t)
      BY <1>1, <1>2
    <3> HIDE DEF c
    <3>2. (IF c.rel = NULL THEN t ELSE slot[c.rel].hook) = HookIn(After(c, t))
      BY <3>1, InForceAfter
    <3>3. QED
      BY <3>1, <3>2 DEF InForce
  <2>2. Installing(h)'
    BY <1>1, <1>2, <1>3, Phases
  <2>3. Below(h)' = HookIn(slot[n].next)'
    <3>1. job'.slot = n
      BY <1>2, <1>3
    <3>2. QED
      BY <2>2, <3>1 DEF Below, HookIn
  <2>4. HookIn(slot[n].next)' = HookIn(slot[n].next)
    BY <1>3 DEF HookIn, pool
  <2>5. QED
    BY <2>1, <2>3, <2>4
<1>11. SameRuns
  BY <1>3, RunsSame
<1>12. Stack!Enable(h, t)
  <2>1. [g \in Hooks |-> On(g)]' = [[g \in Hooks |-> On(g)] EXCEPT ![h] = t]
    BY <1>5, <1>6
  <2>2. [g \in Hooks |-> Below(g)]' = [[g \in Hooks |-> Below(g)] EXCEPT ![h] = InForce(t)]
    BY <1>5, <1>10
  <2>3. [u \in Targets |-> InForce(u)]' = [[u \in Targets |-> InForce(u)] EXCEPT ![t] = h]
    BY <1>8, <1>9
  <2>4. QED
    BY <1>6, <1>11, <2>1, <2>2, <2>3 DEF Stack!Enable, SameRuns, Runs
<1>13. QED
  BY <1>12 DEF Stack!Next

(* The operand put back is Disable of the stack.                           *)
LEMMA OldOperandDisables ==
  ASSUME TInv, TInv', ProperInv, proper, proper', Careful',
         Write("old_operand", "rel", obj[job.hook].backup.rel)
  PROVE  Stack!Next
<1>1. /\ job # NULL /\ job.hook \in Hooks /\ On(job.hook) = job.target /\ On(job.hook)' = NULL
      /\ \A g \in Hooks : (g # job.hook => On(g)' = On(g)) /\ Sl(g)' = Sl(g)
      /\ code[job.target].rel = Sl(job.hook)
      /\ code' = [code EXCEPT ![job.target] = obj[job.hook].backup]
      /\ Whole(obj[job.hook].backup)
  BY OldOperandProper
<1>2. PICK h \in Hooks, t \in Targets : h = job.hook /\ t = job.target
  BY <1>1, JobTyped
<1>3. UNCHANGED <<prot, pool, client, job, cpu>>
  BY DEF Write
<1>4. \A s \in 1 .. Slots : Filled(s) => slot'[s] = slot[s]
  BY <1>3 DEF pool
<1>5. \A g \in Hooks : (g # h => On(g)' = On(g)) /\ Below(g)' = Below(g)
  BY <1>1, <1>2, <1>4, BelowSame
<1>6. On(h) = t /\ On(h)' = NULL /\ t # NULL
  <2>1. job.hook = h /\ job'.hook = h
    BY <1>2, <1>3
  <2>2. On(h)' = On(job.hook)'
    BY <2>1 DEF On, Installing, Removing
  <2>3. QED
    BY <1>1, <1>2, <2>2, Different
<1>7. code'[t] = obj[h].backup /\ \A u \in Targets : u # t => code'[u] = code[u]
  BY <1>1, <1>2 DEF TInv, Typed
<1>8. \A u \in Targets : u # t => InForce(u)' = InForce(u)
  BY <1>4, <1>7, InForceSame
<1>9. Filled(Sl(h)) /\ slot[Sl(h)].hook = h /\ slot[Sl(h)].next = After(obj[h].backup, t)
  BY <1>6 DEF ProperInv, OnInv
<1>10. InForce(t) = h
  BY <1>1, <1>2, <1>9, Different DEF InForce, Filled
<1>11. Below(h) = HookIn(After(obj[h].backup, t))
  BY <1>9, BelowSlot, Different DEF Filled
<1>12. InForce(t)' = Below(h)
  <2> DEFINE c == obj[h].backup
  <2>1. Whole(c) /\ code'[t].rel = c.rel /\ Below(h) = HookIn(After(c, t))
    BY <1>1, <1>2, <1>7, <1>11
  <2> HIDE DEF c
  <2>2. (IF c.rel = NULL THEN t ELSE slot[c.rel].hook) = HookIn(After(c, t))
    BY <2>1, InForceAfter
  <2>3. InForce(t)' = IF c.rel = NULL THEN t ELSE slot[c.rel].hook
    BY <1>3, <2>1 DEF InForce, pool
  <2>4. QED
    BY <2>1, <2>2, <2>3
<1>13. SameRuns
  BY <1>3, RunsSame
<1>14. Stack!Disable(h)
  <2>1. [g \in Hooks |-> On(g)]' = [[g \in Hooks |-> On(g)] EXCEPT ![h] = NULL]
    BY <1>5, <1>6
  <2>2. [g \in Hooks |-> Below(g)]' = [g \in Hooks |-> Below(g)]
    BY <1>5
  <2>3. [u \in Targets |-> InForce(u)]' = [[u \in Targets |-> InForce(u)] EXCEPT ![t] = Below(h)]
    BY <1>8, <1>12
  <2>4. QED
    BY <1>6, <1>10, <1>13, <2>1, <2>2, <2>3 DEF Stack!Disable, SameRuns, Runs
<1>15. QED
  BY <1>14 DEF Stack!Next

(* What callers do is what the stack lets them.                            *)
LEMMA CallerStacks ==
  ASSUME TInv, TInv', ProperInv, proper, NEW p \in Callers, CallerStep(p)
  PROVE  UNCHANGED Stack!vars \/ Stack!Next
<1>1. UNCHANGED <<memory, pool, client, call>>
  BY DEF CallerStep
<1>2. SameHooks /\ SameTops
  BY <1>1 DEF SameHooks, SameTops, On, Below, Installing, Removing, InForce,
     HookIn,
              memory, pool, client, call
<1>3. ASSUME NEW i, NEW f, Moves(p, i, f)
      PROVE  /\ Runs(p)' = IF i = "entry" THEN NULL ELSE f
             /\ \A q \in Callers : q # p => Runs(q)' = Runs(q)
  <2> DEFINE s == [in |-> i, of |-> f]
  <2>1. at' = [at EXCEPT ![p] = s] /\ s.in = i /\ s.of = f
    BY <1>3 DEF Moves
  <2> HIDE DEF s
  <2>2. QED
    BY <2>1 DEF TInv, Typed, Runs
<1>4. ASSUME Runs(p)' = Runs(p), \A q \in Callers : q # p => Runs(q)' = Runs(q)
      PROVE  UNCHANGED Stack!vars
  <2>1. SameRuns
    BY <1>4 DEF SameRuns
  <2>2. QED
    BY <1>2, <2>1, StackStutters
<1>5. ASSUME NEW x, Runs(p)' = x, \A q \in Callers : q # p => Runs(q)' = Runs(q)
      PROVE  /\ [q \in Callers |-> Runs(q)]' = [[q \in Callers |-> Runs(q)] EXCEPT ![p] = x]
             /\ [g \in Hooks |-> On(g)]' = [g \in Hooks |-> On(g)]
             /\ [g \in Hooks |-> Below(g)]' = [g \in Hooks |-> Below(g)]
             /\ [u \in Targets |-> InForce(u)]' = [u \in Targets |-> InForce(u)]
  BY <1>2, <1>5 DEF SameHooks, SameTops
<1>6. CASE \E t \in Targets : at[p] = Nowhere /\ Moves(p, "entry", t)
  <2>1. Runs(p) = NULL
    BY <1>6 DEF Runs, Nowhere
  <2>2. Runs(p)' = NULL
    BY <1>3, <1>6
  <2>3. QED
    BY <1>3, <1>4, <1>6, <2>1, <2>2
<1>7. CASE /\ at[p].in = "entry" /\ code[at[p].of] = Own
           /\ Moves(p, "inside", at[p].of)
  <2>0. PICK t \in Targets : t = at[p].of
    BY <1>7 DEF TInv, SpotInv
  <2>1. Runs(p) = NULL /\ InForce(t) = t
    BY <2>0, <1>7 DEF Runs, InForce, Own
  <2>2. Runs(p)' = t /\ \A q \in Callers : q # p => Runs(q)' = Runs(q)
    BY <1>3, <1>7, <2>0
  <2>3. Stack!Call(p, t)
    BY <1>5, <2>1, <2>2 DEF Stack!Call, Runs
  <2>4. QED
    BY <2>3 DEF Stack!Next
<1>8. CASE /\ at[p].in = "entry" /\ code[at[p].of] = Jump(code[at[p].of].rel)
           /\ Filled(code[at[p].of].rel)
           /\ Moves(p, "detour", slot[code[at[p].of].rel].hook)
  <2>0. PICK t \in Targets : t = at[p].of
    BY <1>8 DEF TInv, SpotInv
  <2>1. Runs(p) = NULL /\ InForce(t) = slot[code[t].rel].hook
    BY <2>0, <1>8, Different DEF Runs, InForce, Filled
  <2>2. Runs(p)' = InForce(t) /\ \A q \in Callers : q # p => Runs(q)' = Runs(q)
    BY <1>3, <1>8, <2>0, <2>1
  <2>3. Stack!Call(p, t)
    BY <1>5, <2>1, <2>2 DEF Stack!Call, Runs
  <2>4. QED
    BY <2>3 DEF Stack!Next
<1>9. CASE at[p].in = "inside" /\ Moves(p, "body", at[p].of)
  <2>1. Runs(p) = at[p].of
    BY <1>9 DEF Runs
  <2>2. Runs(p)' = at[p].of
    BY <1>3, <1>9
  <2>3. QED
    BY <1>3, <1>4, <1>9, <2>1, <2>2
<1>10. CASE at[p].in \in {"body", "detour"} /\ Moves(p, "caller", NULL)
  <2>1. Runs(p) # NULL
    BY <1>10, Different DEF Runs, TInv, SpotInv
  <2>2. Runs(p)' = NULL /\ \A q \in Callers : q # p => Runs(q)' = Runs(q)
    BY <1>3, <1>10
  <2>3. Stack!Return(p)
    BY <1>5, <2>1, <2>2 DEF Stack!Return, Runs
  <2>4. QED
    BY <2>3 DEF Stack!Next
<1>11. CASE /\ at[p].in = "detour" /\ at[p].of \in Hooks /\ Filled(origin[at[p].of])
            /\ LET x == slot[origin[at[p].of]].next
               IN  \/ x \in Targets /\ Moves(p, "body", x)
                   \/ Filled(x) /\ Moves(p, "detour", slot[x].hook)
  <2> DEFINE h == at[p].of
             x == slot[origin[h]].next
  <2>1. h \in Hooks /\ Runs(p) = h
    BY <1>11 DEF Runs
  <2>2. ~Installing(h)
    <3>1. job # NULL /\ todo \in {E2, E1} => job.on
      BY CallAt, Kinds
    <3>2. job # NULL /\ job.hook = h => ~job.on
      BY <1>11, CarefulMeans DEF ProperInv
    <3>3. QED
      BY <3>1, <3>2, Phases
  <2>3. Below(h) = HookIn(x)
    BY <1>11, <2>2, Different DEF Below, Filled
  <2>4. Runs(p)' = HookIn(x) /\ \A q \in Callers : q # p => Runs(q)' = Runs(q)
    <3>1. CASE x \in Targets /\ Moves(p, "body", x)
      BY <1>3, <3>1 DEF HookIn
    <3>2. CASE Filled(x) /\ Moves(p, "detour", slot[x].hook)
      <4>1. HookIn(x) = slot[x].hook
        BY <3>2, Different DEF HookIn, Filled
      <4>2. QED
        BY <1>3, <3>2, <4>1
    <3>3. QED
      BY <1>11, <3>1, <3>2
  <2> HIDE DEF h, x
  <2>5. Stack!CallOrigin(p)
    BY <1>5, <2>1, <2>3, <2>4 DEF Stack!CallOrigin, Runs
  <2>6. QED
    BY <2>5 DEF Stack!Next
<1>12. QED
  BY <1>6, <1>7, <1>8, <1>9, <1>10, <1>11, CallerProper

(* A step of the thread that enables and disables.                         *)
LEMMA AdminStacks ==
  ASSUME TInv, TInv', ProperInv, proper, proper', Careful', AdminStep
  PROVE  UNCHANGED Stack!vars \/ Stack!Next
<1>1. ASSUME \A h \in Hooks : On(h)' = On(h) /\ Sl(h)' = Sl(h),
             \A s \in 1 .. Slots : Filled(s) => slot'[s] = slot[s],
             \A t \in Targets : code'[t].rel = code[t].rel, UNCHANGED cpu
      PROVE  UNCHANGED Stack!vars
  <2>1. SameHooks
    BY <1>1, BelowSame DEF SameHooks
  <2>2. SameTops
    BY <1>1, InForceSame DEF SameTops
  <2>3. QED
    BY <1>1, <2>1, <2>2, RunsSame, StackStutters
<1>2. ASSUME NEW h \in Hooks, Disable(h) PROVE UNCHANGED Stack!vars
  <2>1. UNCHANGED <<memory, pool, cpu>>
    BY <1>2 DEF Disable
  <2>2. \A g \in Hooks : On(g)' = On(g) /\ Sl(g)' = Sl(g)
    BY <1>2, DisableProper
  <2>3. QED
    BY <1>1, <2>1, <2>2 DEF memory, pool
<1>3. ASSUME NEW h \in Hooks, NEW t \in Targets, Enable(h, t) PROVE UNCHANGED Stack!vars
  <2>1. UNCHANGED <<memory, slot, cpu>>
    BY <1>3 DEF Enable
  <2>2. \A g \in Hooks : On(g)' = On(g) /\ Sl(g)' = Sl(g)
    BY <1>3, EnableProper
  <2>3. QED
    BY <1>1, <2>1, <2>2 DEF memory
<1>4. CASE Build \/ BuildGoesOn \/ BuildFails
  <2>1. UNCHANGED <<memory, cpu>>
    BY <1>4 DEF Build, BuildGoesOn, BuildFails
  <2>2. /\ \A g \in Hooks : On(g)' = On(g) /\ Sl(g)' = Sl(g)
        /\ \A s \in 1 .. Slots : Filled(s) => slot'[s] = slot[s]
    BY <1>4, BuildProper
  <2>3. QED
    BY <1>1, <2>1, <2>2 DEF memory
<1>5. CASE Backup \/ EnableReturns \/ DisableReturns
  <2>1. UNCHANGED <<memory, pool, cpu>>
    BY <1>5 DEF Backup, EnableReturns, DisableReturns
  <2>2. \A g \in Hooks : On(g)' = On(g) /\ Sl(g)' = Sl(g)
    BY <1>5, BackupProper, ReturnProper
  <2>3. QED
    BY <1>1, <2>1, <2>2 DEF memory, pool
<1>6. CASE \/ Restore \/ Protect("protect", "RWX") \/ Protect("read", "RW")
           \/ Write("opcode", "op", "jmp") \/ Write("old_opcode", "op", obj[job.hook].backup.op)
  <2>1. UNCHANGED <<pool, cpu>>
    BY <1>6 DEF Restore, Protect, Write
  <2>2. /\ \A g \in Hooks : On(g)' = On(g) /\ Sl(g)' = Sl(g)
        /\ \A t \in Targets : code'[t].rel = code[t].rel
    BY <1>6, QuietProper
  <2>3. QED
    BY <1>1, <2>1, <2>2 DEF pool
<1>7. CASE Write("operand", "rel", job.slot)
  BY <1>7, OperandEnables
<1>8. CASE Write("old_operand", "rel", obj[job.hook].backup.rel)
  BY <1>8, OldOperandDisables
<1>9. QED
  BY <1>2, <1>3, <1>4, <1>5, <1>6, <1>7, <1>8 DEF AdminStep

(* At the start no target is hooked.                                       *)
LEMMA InitStack == Init => Stack!Init
<1> SUFFICES ASSUME Init PROVE Stack!Init
  OBVIOUS
<1>1. \A h \in Hooks : On(h) = NULL /\ Below(h) = NULL
  BY DEF Init, On, Below, Installing
<1>2. \A t \in Targets : InForce(t) = t
  BY DEF Init, InForce, Own
<1>3. \A p \in Callers : Runs(p) = NULL
  BY DEF Init, Runs, Nowhere
<1>4. QED
  BY <1>1, <1>2, <1>3 DEF Stack!Init, Runs

(* What class Hook promises several objects on one target: as long as      *)
(* clients are careful every step of Enable, of Disable and of the threads *)
(* is a step of a stack of hooks, or one that its callers do not see.      *)
THEOREM StackImplemented == Spec => ImplementsStack
<1>1. TInv /\ ProperInv /\ TInv' /\ [Next]_vars =>
        [proper' => (UNCHANGED Stack!vars \/ Stack!Next)]_vars
  <2> SUFFICES ASSUME TInv, ProperInv, TInv', Next, proper'
               PROVE  UNCHANGED Stack!vars \/ Stack!Next
    OBVIOUS
  <2>1. proper /\ Careful'
    BY DEF Next
  <2>2. CASE AdminStep
    BY <2>1, <2>2, AdminStacks
  <2>3. ASSUME NEW p \in Callers, CallerStep(p) PROVE UNCHANGED Stack!vars \/ Stack!Next
    BY <2>1, <2>3, CallerStacks
  <2>4. QED
    BY <2>2, <2>3 DEF Next
<1>2. QED
  BY <1>1, InitStack, ProperAlways, PTL DEF Spec, ImplementsStack
=============================================================================
