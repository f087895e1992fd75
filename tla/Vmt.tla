-------------------------------- MODULE Vmt --------------------------------
(***************************************************************************)
(* The vtable hook of src/src/vmt.cpp, x64 internal build.  Enable finds   *)
(* the entry of its target in the vtable of an instance, from the          *)
(* displacement in a vcall thunk or by a search, and writes the detour into*)
(* it; Disable writes the old value back.                                  *)
(*                                                                         *)
(* The read-only data of the program is a sequence of words, and a vtable a*)
(* place in it.  An object has a detour and a variable for the original    *)
(* address of its own, both called by the object's name.  Objects are used *)
(* by one thread at a time; the threads that call methods are not stopped, *)
(* so a step of the search, the write and what follows it are actions.  The*)
(* write is two: Memory::Patch copies the address byte by byte, and a call *)
(* between the first byte that differs and the last jumps to a mixture.    *)
(***************************************************************************)
EXTENDS Naturals, Sequences

CONSTANTS
  Callers, Hooks,
  Rdata,        \* the words as linked: addresses of functions, or Data
  Vtables,      \* places where vtables begin
  Jump,         \* functions that only load the vtable and jump through it
                \* -> the displacement they jump through
  Data, NULL,
  MaxOps        \* bound on the calls of Enable

Ptr     == 8      \* sizeof(uintptr_t)
DispMod == 256    \* disp_ is a uint8_t

Places == 1 .. Len(Rdata)
Code   == ({Rdata[i] : i \in Places} \ {Data}) \cup DOMAIN Jump

(* A vtable ends at the next word of data, or where its neighbour begins.  *)
Ends(v) == {i \in Places : i > v /\ (Rdata[i] = Data \/ i \in Vtables)}
End == [v \in Vtables |-> CHOOSE i \in Ends(v) : \A j \in Ends(v) : i <= j]

(* The functions of every vtable.                                          *)
Methods == [v \in Vtables |-> {Rdata[i] : i \in v .. End[v] - 1}]

(* A thunk is used with classes that have the method it is for.            *)
Usable(t, v) == t \in DOMAIN Jump => v + Jump[t] \div Ptr < End[v]

ASSUME WordsAssumption ==
  /\ \A v \in Vtables : /\ v + DispMod \div Ptr - 1 \in Places /\ v \in Places
                         /\ Rdata[v] # Data
                         /\ \E i \in Ends(v) : \A j \in Ends(v) : i <= j
  /\ Rdata \in Seq(Code \cup {Data})
  /\ \A f \in DOMAIN Jump : Jump[f] \in Nat /\ Jump[f] % Ptr = 0
  /\ {Data, NULL} \cap (Hooks \cup Code) = {} /\ Hooks \cap Code = {} /\ NULL # Data
  /\ NULL \notin Places /\ MaxOps \in Nat

VARIABLES
  word,     \* the words as they are, or as the write that goes on leaves them
  torn,     \* the place Memory::Patch is writing, NULL for none
  obj,      \* enabled_, target_, vtabel_, disp_ and origin_ of every object
  origin,   \* the clients' variables: what Enable returned in *origin
  op, pc,   \* the object Enable works on, and where it is
  running,  \* the function a caller runs, NULL when it runs none, Data when
            \* it jumped to the mixture of two addresses
  proper,   \* history: objects on one entry were disabled last first, no
            \* detour used the original address before Enable had returned it,
            \* and nobody called through an entry that was being written
  ops       \* calls of Enable made so far

vars == <<word, torn, obj, origin, op, pc, running, proper, ops>>

NoHook == [enabled |-> FALSE, target |-> NULL, vt |-> NULL, disp |-> 0, origin |-> NULL]

Init == /\ word = Rdata /\ torn = NULL
        /\ obj = [h \in Hooks |-> NoHook]
        /\ origin = [h \in Hooks |-> NULL]
        /\ op = NULL /\ pc = "idle"
        /\ running = [p \in Callers |-> NULL]
        /\ proper = TRUE /\ ops = 0

-----------------------------------------------------------------------------
(* The entry vtabel_ + disp_.                                              *)
Entry(h) == obj[h].vt + obj[h].disp \div Ptr

(* Enable(target, detour, inst) passes its checks: the object is not       *)
(* enabled, the addresses are executable and disassemble.  A call that is  *)
(* refused, or a Disable of an object that is not enabled, changes nothing *)
(* but fields the next Enable writes before it reads them.                 *)
Start(h) == /\ op = NULL /\ torn = NULL /\ ~obj[h].enabled
            /\ ops < MaxOps /\ ops' = ops + 1

Called(h, t, v, disp) == [obj[h] EXCEPT !.target = t, !.vt = v, !.disp = disp]

(* Memory::Patch begins to write the word a over the one at place e ...    *)
Patch(e, a) == word' = [word EXCEPT ![e] = a] /\ torn' = e

(* ... and has written its last byte.                                      *)
PatchEnds == /\ torn # NULL /\ torn' = NULL
             /\ UNCHANGED <<word, obj, origin, op, pc, running, proper, ops>>

(* Save the word at place e and write the detour of h over it.             *)
PatchEntry(h, o, e) ==
  /\ Patch(e, h)
  /\ obj' = [obj EXCEPT ![h] = [o EXCEPT !.origin = word[e]]]
  /\ op' = h /\ pc' = "publish"

(* A bug to compare with: the displacement of the jump is not looked at.   *)
EnableThunkFirst(h, t, v) ==
  /\ t \in DOMAIN Jump /\ Usable(t, v)
  /\ Start(h)
  /\ PatchEntry(h, Called(h, t, v, 0), v)
  /\ UNCHANGED <<origin, running, proper>>

(* A thunk (mov rax, [rcx]; jmp [rax + disp]): the low byte of its         *)
(* displacement tells the entry.                                           *)
EnableThunk(h, t, v) ==
  LET disp == Jump[t] % DispMod
  IN  /\ t \in DOMAIN Jump /\ Usable(t, v)
      /\ Start(h)
      /\ PatchEntry(h, Called(h, t, v, disp), v + disp \div Ptr)
      /\ UNCHANGED <<origin, running, proper>>

(* Any other function: the search begins at the first entry.               *)
EnableSearch(h, t, v) ==
  /\ t \in Code \ DOMAIN Jump
  /\ Start(h)
  /\ obj' = [obj EXCEPT ![h] = Called(h, t, v, 0)]
  /\ op' = h /\ pc' = "search"
  /\ UNCHANGED <<word, torn, origin, running, proper>>

Searching(h) == op = h /\ pc = "search"

(* The word is no address of code: the vtable has ended, return false, with*)
(* disp_ left where the search ended (what else is left is never read).    *)
SearchFails(h) ==
  /\ Searching(h) /\ word[Entry(h)] = Data
  /\ obj' = [obj EXCEPT ![h] = [NoHook EXCEPT !.disp = obj[h].disp]]
  /\ op' = NULL /\ pc' = "idle"
  /\ UNCHANGED <<word, torn, origin, running, proper, ops>>

(* A bug to compare with: words that are no code are passed over.          *)
SearchNextAny(h) ==
  /\ Searching(h) /\ word[Entry(h)] # obj[h].target
  /\ obj' = [obj EXCEPT ![h].disp = (@ + Ptr) % DispMod]
  /\ UNCHANGED <<word, torn, origin, op, pc, running, proper, ops>>

SearchNext(h) ==
  /\ Searching(h) /\ word[Entry(h)] \notin {Data, obj[h].target}
  /\ obj' = [obj EXCEPT ![h].disp = (@ + Ptr) % DispMod]
  /\ UNCHANGED <<word, torn, origin, op, pc, running, proper, ops>>

SearchFinds(h) ==
  /\ Searching(h) /\ word[Entry(h)] = obj[h].target
  /\ PatchEntry(h, obj[h], Entry(h))
  /\ UNCHANGED <<origin, running, proper, ops>>

(* A bug to compare with: the client is told the target.                   *)
EnableReturnsTarget(h) ==
  /\ op = h /\ pc = "publish" /\ torn = NULL
  /\ origin' = [origin EXCEPT ![h] = obj[h].target]
  /\ obj' = [obj EXCEPT ![h].enabled = TRUE]
  /\ op' = NULL /\ pc' = "idle"
  /\ UNCHANGED <<word, torn, running, proper, ops>>

(* *origin and enabled_ are set after the entry: return true.              *)
EnableReturns(h) ==
  /\ op = h /\ pc = "publish" /\ torn = NULL
  /\ origin' = [origin EXCEPT ![h] = obj[h].origin]
  /\ obj' = [obj EXCEPT ![h].enabled = TRUE]
  /\ op' = NULL /\ pc' = "idle"
  /\ UNCHANGED <<word, torn, running, proper, ops>>

(* A bug to compare with: the function the object was asked to hook goes   *)
(* back, whatever the entry held.                                          *)
DisableToTarget(h) ==
  /\ op = NULL /\ torn = NULL /\ obj[h].enabled
  /\ Patch(Entry(h), obj[h].target)
  /\ obj' = [obj EXCEPT ![h] = NoHook]
  /\ proper' = (proper /\ word[Entry(h)] = h)
  /\ UNCHANGED <<origin, op, pc, running, ops>>

(* A bug to compare with: the fields are reset before the entry is written.*)
DisableReset(h) ==
  /\ op = NULL /\ torn = NULL /\ obj[h].enabled
  /\ Patch(Entry(h), NULL)
  /\ obj' = [obj EXCEPT ![h] = NoHook]
  /\ proper' = (proper /\ word[Entry(h)] = h)
  /\ UNCHANGED <<origin, op, pc, running, ops>>

(* Also the body of ~Vmt: origin_ goes back, whatever the entry holds now. *)
Disable(h) ==
  /\ op = NULL /\ torn = NULL /\ obj[h].enabled
  /\ Patch(Entry(h), obj[h].origin)
  /\ obj' = [obj EXCEPT ![h] = NoHook]
  /\ proper' = (proper /\ word[Entry(h)] = h)
  /\ UNCHANGED <<origin, op, pc, running, ops>>

-----------------------------------------------------------------------------
(* A virtual call through the entry at place e.                            *)
Call(p, e) ==
  /\ running[p] = NULL /\ Rdata[e] # Data /\ e # torn
  /\ running' = [running EXCEPT ![p] = word[e]]
  /\ UNCHANGED <<word, torn, obj, origin, op, pc, proper, ops>>

(* One through the entry that is being written.                            *)
CallTorn(p) ==
  /\ running[p] = NULL /\ torn # NULL
  /\ running' = [running EXCEPT ![p] = Data]
  /\ proper' = FALSE
  /\ UNCHANGED <<word, torn, obj, origin, op, pc, ops>>

(* A detour calls the original if its variable holds an address.           *)
CallOrigin(p) ==
  LET h == running[p]
  IN  /\ h \in Hooks /\ origin[h] # NULL
      /\ running' = [running EXCEPT ![p] = origin[h]]
      /\ proper' = (proper /\ op # h)
      /\ UNCHANGED <<word, torn, obj, origin, op, pc, ops>>

Return(p) ==
  /\ running[p] # NULL
  /\ running' = [running EXCEPT ![p] = NULL]
  /\ UNCHANGED <<word, torn, obj, origin, op, pc, proper, ops>>

-----------------------------------------------------------------------------
EnableStep(h) == \/ SearchFails(h) \/ SearchNext(h) \/ SearchFinds(h) \/ EnableReturns(h)

Enable(h, t, v) == EnableThunk(h, t, v) \/ EnableSearch(h, t, v)

Next == \/ \E h \in Hooks : \/ EnableStep(h) \/ Disable(h)
                            \/ \E t \in Code, v \in Vtables : Enable(h, t, v)
        \/ PatchEnds
        \/ \E p \in Callers : \/ CallOrigin(p) \/ Return(p) \/ CallTorn(p)
                              \/ \E e \in Places : Call(p, e)

Spec == Init /\ [][Next]_vars

(* An Enable that has begun keeps running.                                 *)
FairSpec == /\ Spec /\ WF_vars(PatchEnds)
            /\ \A h \in Hooks : WF_vars(EnableStep(h))

-----------------------------------------------------------------------------
(* The entry of h holds its detour, or did before others came on top.      *)
Patched(h) == obj[h].enabled \/ (op = h /\ pc = "publish")

Range(v) == v .. v + DispMod \div Ptr - 1    \* what disp_ can reach

IsRight(h) ==
  LET t == obj[h].target
      v == obj[h].vt
  IN  /\ Entry(h) \in v .. End[v] - 1
      /\ IF t \in Methods[v]
         THEN Rdata[Entry(h)] = t ELSE Entry(h) = v + Jump[t] \div Ptr

(* What a search needs to go right: a word of data behind the vtable ...   *)
Closed(v) == Rdata[End[v]] = Data

(* ... and a thunk that is one, no method of the class that jumps to       *)
(* another, with a displacement of a byte.                                 *)
IsThunk(t, v) == /\ t \notin Methods[v]
                 /\ Jump[t] < DispMod

(* Every variable has its type; no search leaves the words disp_ can reach.*)
TypeOK ==
  /\ word \in [Places -> Code \cup Hooks \cup {Data}]
  /\ torn \in Places \cup {NULL}
  /\ obj \in [Hooks -> [enabled : BOOLEAN, target : Code \cup {NULL},
                        vt : Vtables \cup {NULL}, disp : 0 .. DispMod - 1,
                        origin : Code \cup Hooks \cup {NULL}]]
  /\ origin \in [Hooks -> Code \cup Hooks \cup {NULL}]
  /\ op \in Hooks \cup {NULL} /\ pc \in {"idle", "search", "publish"}
  /\ running \in [Callers -> Code \cup Hooks \cup {Data, NULL}]
  /\ proper \in BOOLEAN /\ ops \in 0 .. MaxOps

(* The entry an object patches is the one of its target, in the vtable of  *)
(* its instance, however many other hooks the search passes, and for a     *)
(* target in the far part of a long vtable as well.                        *)
RightEntry ==
  \A h \in Hooks : Patched(h) =>
    LET t == obj[h].target
        v == obj[h].vt
    IN  (IF t \in DOMAIN Jump THEN IsThunk(t, v) ELSE Closed(v)) => IsRight(h)

HooksOn(e) == {h \in Hooks : Patched(h) /\ Entry(h) = e}

(* A word no object hooks has the value it was linked with, and one that   *)
(* is hooked leads, origin by origin, through the objects on it alone.     *)
EntriesRestored ==
  proper =>
    /\ \A e \in Places : word[e] # Rdata[e] => word[e] \in HooksOn(e)
    /\ \A h \in Hooks : Patched(h) =>
         /\ word[Entry(h)] \in HooksOn(Entry(h))
         /\ obj[h].origin \in (HooksOn(Entry(h)) \ {h}) \cup {Rdata[Entry(h)]}

(* Callers see a stack of hooks on every entry, also in a detour that runs *)
(* on after its object is disabled or enabled elsewhere, as long as none   *)
(* calls through an entry while it is written.                             *)
Stack == INSTANCE HookStack WITH
  Threads <- Callers, Targets <- Places, Body <- Rdata, top <- word, calls <- running,
  on    <- [h \in Hooks |-> IF Patched(h) THEN Entry(h) ELSE NULL],
  below <- [h \in Hooks |-> IF Patched(h) THEN obj[h].origin ELSE origin[h]]

ImplementsStack ==
  Stack!Init /\ [][proper' => (UNCHANGED Stack!vars \/ Stack!Next)]_vars

(* Every word disp_ can reach is code and none is the target.              *)
Endless == /\ pc = "search"
           /\ \A i \in Range(obj[op].vt) : word[i] \notin {Data, obj[op].target}

(* Enable returns, except from a search that meets neither.                *)
EnableCompletes == (op # NULL /\ ~Endless) ~> op = NULL
=============================================================================
