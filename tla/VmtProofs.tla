----------------------------- MODULE VmtProofs -----------------------------
(***************************************************************************)
(* Proofs about Vmt, for any program, any hooks and any number of callers: *)
(* every variable keeps its type, every entry of a vtable gets its value   *)
(* back, an object patches the entry of its target, and the callers see a  *)
(* stack of hooks on every entry.                                          *)
(***************************************************************************)
EXTENDS Vmt, TLAPS

Addresses == Code \cup Hooks      \* what an entry or an origin can hold

Objects == [enabled : BOOLEAN, target : Code \cup {NULL}, vt : Vtables \cup {NULL},
            disp : 0 .. DispMod - 1, origin : Addresses \cup {NULL}]

(* A patched object knows its entry and what was there; the words that are *)
(* no code are where they were linked; one thread uses the objects.        *)
UseInv ==
  /\ \A h \in Hooks : Patched(h) =>
       /\ obj[h].vt \in Vtables /\ obj[h].origin \in Addresses
       /\ Rdata[Entry(h)] # Data
  /\ \A e \in Places : word[e] = Data <=> Rdata[e] = Data
  /\ op = NULL <=> pc = "idle"
  /\ op # NULL => obj[op].vt \in Vtables /\ obj[op].target \in Code /\ ~obj[op].enabled

TInv == TypeOK /\ UseInv

(* What disp_ can reach lies in the read-only data.                        *)
LEMMA Reach ==
  ASSUME NEW v \in Vtables, NEW d \in 0 .. DispMod - 1
  PROVE  v + d \div Ptr \in Places
<1> DEFINE k == d \div Ptr
<1>1. v \in Nat /\ v >= 1 /\ Len(Rdata) \in Nat /\ v + 31 <= Len(Rdata)
  <2>1. v + 31 \in Places /\ v \in Places
    BY WordsAssumption DEF DispMod, Ptr
  <2>2. Len(Rdata) \in Nat
    BY WordsAssumption
  <2>3. QED
    BY <2>1, <2>2 DEF Places
<1>2. k \in 0 .. 31
  BY DEF DispMod, Ptr
<1> HIDE DEF k
<1>3. v + k \in Places
  BY <1>1, <1>2 DEF Places
<1>4. QED
  BY <1>3 DEF k

(* The word a thunk names, with its displacement cut to a byte, is code.   *)
LEMMA ThunkEntry ==
  ASSUME NEW v \in Vtables, NEW t \in DOMAIN Jump, Usable(t, v)
  PROVE  /\ Jump[t] % DispMod \in 0 .. DispMod - 1
         /\ v + (Jump[t] % DispMod) \div Ptr \in Places
         /\ Rdata[v + (Jump[t] % DispMod) \div Ptr] # Data
<1> DEFINE d == Jump[t] % DispMod
<1>1. Jump[t] \in Nat /\ v \in Nat /\ v \in Places /\ Rdata[v] # Data
  BY WordsAssumption DEF Places
<1>2. d \in 0 .. DispMod - 1 /\ d <= Jump[t]
  BY <1>1 DEF DispMod
<1>3. d \div Ptr <= Jump[t] \div Ptr /\ d \div Ptr \in Nat
  BY <1>1, <1>2 DEF Ptr, DispMod
<1>4. v + d \div Ptr \in Places
  BY <1>2, Reach
<1>5. PICK i \in Ends(v) : \A j \in Ends(v) : i <= j
  BY WordsAssumption
<1>6. End[v] \in Ends(v) /\ \A j \in Ends(v) : End[v] <= j
  BY <1>5 DEF End
<1>7. v + d \div Ptr < End[v]
  <2>1. v + Jump[t] \div Ptr < End[v] /\ Jump[t] \div Ptr \in Nat
    BY <1>1 DEF Usable, Ptr
  <2>2. End[v] \in Nat
    BY <1>6 DEF Ends, Places
  <2> HIDE DEF d
  <2>3. QED
    BY <2>1, <2>2, <1>3, <1>1
<1>8. Rdata[v + d \div Ptr] # Data
  <2>1. CASE d \div Ptr = 0
    BY <2>1, <1>1
  <2>2. CASE d \div Ptr # 0
    <3>1. v + d \div Ptr > v /\ ~(v + d \div Ptr >= End[v])
      BY <2>2, <1>3, <1>1, <1>7, <1>6 DEF Ends, Places
    <3>2. v + d \div Ptr \notin Ends(v)
      BY <3>1, <1>6 DEF Ends, Places
    <3>3. QED
      BY <3>1, <3>2, <1>4 DEF Ends
  <2>3. QED
    BY <2>1, <2>2
<1>9. QED
  BY <1>2, <1>4, <1>8

(* What the program is linked with has its type.                           *)
LEMMA InitTyped == Init => TInv
<1>1. Rdata \in [Places -> Code \cup {Data}]
  BY WordsAssumption DEF Places
<1>2. MaxOps \in Nat
  BY WordsAssumption
<1>3. QED
  BY <1>1, <1>2 DEF Init, TInv, TypeOK, UseInv, NoHook, DispMod, Patched

(* A step that changes one object, and no word to or from data.            *)
LEMMA ChangeTyped ==
  ASSUME TInv, TypeOK', NEW h \in Hooks, NEW o \in Objects, obj' = [obj EXCEPT ![h] = o],
         \A i \in Places : word'[i] = Data <=> Rdata[i] = Data,
         o.enabled \/ pc' = "publish" =>
           o.vt \in Vtables /\ o.origin \in Addresses /\ Rdata[o.vt + o.disp \div Ptr] # Data,
         op' = NULL <=> pc' = "idle",
         op' # NULL => op' = h /\ o.vt \in Vtables /\ o.target \in Code /\ ~o.enabled
  PROVE  UseInv'
<1>1. obj \in [Hooks -> Objects] /\ h # NULL
  BY WordsAssumption DEF TInv, TypeOK, Objects, Addresses
<1>2. ASSUME NEW g \in Hooks, Patched(g)'
      PROVE  obj'[g].vt \in Vtables /\ obj'[g].origin \in Addresses /\ Rdata[Entry(g)'] # Data
  <2>1. CASE g = h
    BY <1>1, <1>2, <2>1 DEF Patched, Entry
  <2>2. CASE g # h
    <3>1. obj'[g] = obj[g] /\ Entry(g)' = Entry(g) /\ obj[g].enabled
      BY <1>1, <1>2, <2>2 DEF Patched, Entry
    <3>2. QED
      BY <3>1 DEF TInv, UseInv, Patched
  <2>3. QED
    BY <2>1, <2>2
<1>3. QED
  BY <1>1, <1>2 DEF UseInv

(* What both ways to find an entry have in common.                         *)
LEMMA PatchTyped ==
  ASSUME TInv, NEW h \in Hooks, NEW o \in Objects, NEW e \in Places,
         PatchEntry(h, o, e),
         ~o.enabled, o.target \in Code, o.vt \in Vtables,
         e = o.vt + o.disp \div Ptr, word[e] # Data,
         UNCHANGED <<origin, running, proper>>, ops' \in 0 .. MaxOps
  PROVE  TInv'
<1> USE DEF TInv
<1> DEFINE new == [o EXCEPT !.origin = word[e]]
<1>1. h # NULL /\ h # Data /\ Rdata[e] # Data /\ word[e] \in Addresses
  BY WordsAssumption DEF TypeOK, UseInv, Addresses
<1>2. new \in Objects /\ new.origin = word[e] /\ new.target = o.target /\ new.vt = o.vt
      /\ new.disp = o.disp /\ new.enabled = o.enabled
  BY <1>1 DEF Objects
<1>3. obj' = [obj EXCEPT ![h] = new] /\ op' = h /\ pc' = "publish"
  BY DEF PatchEntry, Patch
<1>4. TypeOK'
  BY <1>1, <1>2 DEF TypeOK, Objects, Addresses, PatchEntry, Patch
<1>5. \A i \in Places : word'[i] = Data <=> Rdata[i] = Data
  BY <1>1 DEF UseInv, TypeOK, PatchEntry, Patch
<1> HIDE DEF new
<1>6. UseInv'
  BY <1>1, <1>2, <1>3, <1>4, <1>5, ChangeTyped
<1>7. QED
  BY <1>4, <1>6

(* An Enable that finds a thunk.                                           *)
LEMMA ThunkTyped ==
  ASSUME TInv, NEW h \in Hooks, NEW t \in Code, NEW v \in Vtables, EnableThunk(h, t, v)
  PROVE  TInv'
<1> DEFINE disp == Jump[t] % DispMod
           o    == Called(h, t, v, disp)
<1>1. t \in DOMAIN Jump /\ Usable(t, v) /\ op = NULL /\ ~obj[h].enabled
      /\ PatchEntry(h, o, v + disp \div Ptr) /\ UNCHANGED <<origin, running, proper>>
  BY DEF EnableThunk, Start
<1>2. ops' \in 0 .. MaxOps
  BY WordsAssumption DEF EnableThunk, Start, TInv, TypeOK
<1>3. disp \in 0 .. DispMod - 1 /\ v + disp \div Ptr \in Places
      /\ Rdata[v + disp \div Ptr] # Data
  BY <1>1, ThunkEntry
<1>4. word[v + disp \div Ptr] # Data
  BY <1>3 DEF TInv, UseInv
<1>5. o \in Objects /\ ~o.enabled /\ o.target = t /\ o.vt = v /\ o.disp = disp
  BY <1>1, <1>3 DEF Called, TInv, TypeOK, Objects, Addresses
<1> HIDE DEF disp, o
<1>6. QED
  BY <1>1, <1>2, <1>3, <1>4, <1>5, PatchTyped

(* A search that meets the target.                                         *)
LEMMA FindsTyped ==
  ASSUME TInv, NEW h \in Hooks, SearchFinds(h)
  PROVE  TInv'
<1>1. op = h /\ word[Entry(h)] = obj[h].target /\ PatchEntry(h, obj[h], Entry(h))
      /\ UNCHANGED <<origin, running, proper, ops>>
  BY DEF SearchFinds, Searching
<1>2. obj[h] \in Objects /\ ops' \in 0 .. MaxOps
  BY <1>1 DEF TInv, TypeOK, Objects, Addresses
<1>3. obj[h].vt \in Vtables /\ obj[h].target \in Code /\ ~obj[h].enabled /\ h # NULL
  BY <1>1, WordsAssumption DEF TInv, UseInv
<1>4. Entry(h) \in Places /\ word[Entry(h)] # Data
  BY <1>1, <1>2, <1>3, Reach, WordsAssumption DEF Entry, Objects
<1>5. QED
  BY <1>1, <1>2, <1>3, <1>4, PatchTyped DEF Entry

(* A search that begins or goes on.                                        *)
LEMMA SearchingTyped ==
  ASSUME TInv, NEW h \in Hooks, NEW o \in Objects, obj' = [obj EXCEPT ![h] = o],
         o.vt \in Vtables, o.target \in Code, ~o.enabled, op' = h, pc' = "search",
         UNCHANGED <<word, torn, origin, running, proper>>, ops' \in 0 .. MaxOps
  PROVE  TInv'
<1>1. TypeOK'
  BY DEF TInv, TypeOK, Objects, Addresses
<1>2. h # NULL /\ \A i \in Places : word'[i] = Data <=> Rdata[i] = Data
  BY WordsAssumption DEF TInv, UseInv
<1>3. UseInv'
  BY <1>1, <1>2, ChangeTyped
<1>4. QED
  BY <1>1, <1>3 DEF TInv

(* A search begins at the first entry.                                     *)
LEMMA StartsTyped ==
  ASSUME TInv, NEW h \in Hooks, NEW t \in Code, NEW v \in Vtables, EnableSearch(h, t, v)
  PROVE  TInv'
<1> DEFINE o == Called(h, t, v, 0)
<1>1. /\ obj' = [obj EXCEPT ![h] = o] /\ op' = h /\ pc' = "search" /\ ~obj[h].enabled
      /\ UNCHANGED <<word, torn, origin, running, proper>>
  BY DEF EnableSearch, Start
<1>2. o \in Objects /\ o.vt = v /\ o.target = t /\ ~o.enabled
  <2>1. obj[h] \in Objects /\ 0 \in 0 .. DispMod - 1
    BY DEF Objects, Addresses, DispMod, TInv, TypeOK
  <2>2. QED
    BY <1>1, <2>1 DEF Called, Objects
<1>3. ops' \in 0 .. MaxOps
  BY WordsAssumption DEF EnableSearch, Start, TInv, TypeOK
<1> HIDE DEF o
<1>4. QED
  BY <1>1, <1>2, <1>3, SearchingTyped

(* A search goes on to the next entry.                                     *)
LEMMA NextTyped ==
  ASSUME TInv, NEW h \in Hooks, SearchNext(h)
  PROVE  TInv'
<1> DEFINE d == (obj[h].disp + Ptr) % DispMod
           o == [obj[h] EXCEPT !.disp = d]
<1>1. /\ obj' = [obj EXCEPT ![h] = o] /\ op' = h /\ pc' = "search" /\ op = h
      /\ UNCHANGED <<word, torn, origin, running, proper, ops>>
  BY DEF SearchNext, Searching
<1>2. obj[h] \in Objects /\ ops' \in 0 .. MaxOps
  BY <1>1 DEF Objects, Addresses, TInv, TypeOK
<1>3. obj[h].vt \in Vtables /\ obj[h].target \in Code /\ ~obj[h].enabled
  BY <1>1, WordsAssumption DEF TInv, UseInv
<1>4. d \in 0 .. DispMod - 1
  BY <1>2 DEF Objects, Ptr, DispMod
<1> HIDE DEF d
<1>5. o \in Objects /\ o.vt \in Vtables /\ o.target \in Code /\ ~o.enabled
  BY <1>2, <1>3, <1>4 DEF Objects
<1> HIDE DEF o
<1>6. QED
  BY <1>1, <1>2, <1>5, SearchingTyped

(* A search ends at a word of data.                                        *)
LEMMA FailsTyped ==
  ASSUME TInv, NEW h \in Hooks, SearchFails(h)
  PROVE  TInv'
<1> DEFINE o == [NoHook EXCEPT !.disp = obj[h].disp]
<1>1. obj' = [obj EXCEPT ![h] = o] /\ op' = NULL /\ pc' = "idle"
  BY DEF SearchFails
<1>2. o \in Objects /\ ~o.enabled
  BY DEF NoHook, Objects, TInv, TypeOK
<1>3. TypeOK'
  BY <1>1, <1>2 DEF SearchFails, TInv, TypeOK, Objects, Addresses
<1>4. \A i \in Places : word'[i] = Data <=> Rdata[i] = Data
  BY DEF SearchFails, TInv, UseInv
<1> HIDE DEF o
<1>5. UseInv'
  BY <1>1, <1>2, <1>3, <1>4, ChangeTyped
<1>6. QED
  BY <1>3, <1>5 DEF TInv

(* Enable returns: the object is patched as before.                        *)
LEMMA ReturnsTyped ==
  ASSUME TInv, NEW h \in Hooks, EnableReturns(h)
  PROVE  TInv'
<1> DEFINE o == [obj[h] EXCEPT !.enabled = TRUE]
<1>1. obj' = [obj EXCEPT ![h] = o] /\ op' = NULL /\ pc' = "idle" /\ Patched(h)
  BY DEF EnableReturns, Patched
<1>2. /\ o \in Objects /\ o.vt = obj[h].vt /\ o.disp = obj[h].disp
      /\ o.origin = obj[h].origin
  BY DEF Objects, Addresses, TInv, TypeOK
<1>3. o.vt \in Vtables /\ o.origin \in Addresses /\ Rdata[o.vt + o.disp \div Ptr] # Data
  BY <1>1, <1>2 DEF TInv, UseInv, Entry
<1>4. TypeOK'
  BY <1>1, <1>2 DEF EnableReturns, TInv, TypeOK, Objects, Addresses
<1>5. \A i \in Places : word'[i] = Data <=> Rdata[i] = Data
  BY DEF EnableReturns, TInv, UseInv
<1> HIDE DEF o
<1>6. UseInv'
  BY <1>1, <1>2, <1>3, <1>4, <1>5, ChangeTyped
<1>7. QED
  BY <1>4, <1>6 DEF TInv

(* What Disable writes back is an address.                                 *)
LEMMA DisableTyped ==
  ASSUME TInv, NEW h \in Hooks, Disable(h)
  PROVE  TInv'
<1>1. obj' = [obj EXCEPT ![h] = NoHook] /\ op' = NULL /\ pc' = "idle" /\ Patched(h)
  BY DEF Disable, Patched, TInv, UseInv
<1>2. NoHook \in Objects /\ ~NoHook.enabled
  BY DEF NoHook, Objects, DispMod
<1>3. obj[h].origin \in Addresses /\ Rdata[Entry(h)] # Data /\ obj[h].origin # Data
  BY <1>1, WordsAssumption DEF TInv, UseInv, Addresses
<1>4. TypeOK'
  <2>1. Entry(h) \in Places
    <3>1. obj[h].disp \in 0 .. DispMod - 1 /\ obj[h].vt \in Vtables
      BY <1>1 DEF TInv, UseInv, TypeOK
    <3> QED
      BY <3>1, Reach DEF Entry
  <2>2. torn' = Entry(h) /\ word' = [word EXCEPT ![Entry(h)] = obj[h].origin]
    BY DEF Disable, Patch
  <2>3. word' \in [Places -> Code \cup Hooks \cup {Data}]
    BY <1>3, <2>2 DEF TInv, TypeOK, Addresses
  <2>4. proper' \in BOOLEAN
    BY Zenon DEF Disable, TInv, TypeOK
  <2>5. UNCHANGED <<origin, op, pc, running, ops>>
    BY DEF Disable
  <2> QED
    BY <1>1, <1>2, <2>1, <2>2, <2>3, <2>4, <2>5 DEF TInv, TypeOK, Objects, Addresses
<1>5. \A i \in Places : word'[i] = Data <=> Rdata[i] = Data
  BY <1>3 DEF Disable, Patch, TInv, UseInv, TypeOK
<1>6. UseInv'
  BY <1>1, <1>2, <1>4, <1>5, ChangeTyped
<1>7. QED
  BY <1>4, <1>6 DEF TInv

(* What leaves the objects and the words alone: the callers, and the end of*)
(* the write.                                                              *)
CallersStep ==
  \/ \E p \in Callers : \/ CallOrigin(p) \/ Return(p) \/ CallTorn(p)
                        \/ \E e \in Places : Call(p, e)
  \/ PatchEnds
  \/ UNCHANGED vars

(* The callers touch nothing but what they run.                            *)
LEMMA CallersTyped ==
  ASSUME TInv,
         CallersStep
  PROVE  TInv'
<1>1. UNCHANGED <<word, obj, op, pc>>
  BY DEF CallersStep, Call, CallTorn, CallOrigin, Return, PatchEnds, vars
<1>2. UseInv'
  BY <1>1 DEF TInv, UseInv, Patched, Entry
<1>3. TypeOK'
  <2>1. ASSUME NEW p \in Callers, NEW e \in Places, Call(p, e) PROVE TypeOK'
    BY <2>1 DEF Call, TInv, TypeOK, UseInv
  <2>2. ASSUME NEW p \in Callers, CallOrigin(p) PROVE TypeOK'
    BY <2>2 DEF CallOrigin, TInv, TypeOK
  <2>3. ASSUME NEW p \in Callers, Return(p) PROVE TypeOK'
    BY <2>3 DEF Return, TInv, TypeOK
  <2>4. CASE UNCHANGED vars
    BY <2>4 DEF vars, TInv, TypeOK
  <2>5. ASSUME NEW p \in Callers, CallTorn(p) PROVE TypeOK'
    BY <2>5 DEF CallTorn, TInv, TypeOK
  <2>6. CASE PatchEnds
    BY <2>6 DEF PatchEnds, TInv, TypeOK
  <2>7. QED
    BY <2>1, <2>2, <2>3, <2>4, <2>5, <2>6 DEF CallersStep
<1>4. QED
  BY <1>2, <1>3 DEF TInv

(* Every step keeps the types.                                             *)
LEMMA StepTyped == TInv /\ [Next]_vars => TInv'
<1> SUFFICES ASSUME TInv, [Next]_vars PROVE TInv'
  OBVIOUS
<1>1. ASSUME NEW h \in Hooks, EnableStep(h) PROVE TInv'
  <2>1. CASE SearchFails(h)
    BY <2>1, FailsTyped
  <2>2. CASE SearchNext(h)
    BY <2>2, NextTyped
  <2>3. CASE SearchFinds(h)
    BY <2>3, FindsTyped
  <2>4. CASE EnableReturns(h)
    BY <2>4, ReturnsTyped
  <2>5. QED
    BY <1>1, <2>1, <2>2, <2>3, <2>4 DEF EnableStep
<1>2. ASSUME NEW h \in Hooks, NEW t \in Code, NEW v \in Vtables, Enable(h, t, v)
      PROVE  TInv'
  BY <1>2, ThunkTyped, StartsTyped DEF Enable
<1>3. ASSUME NEW h \in Hooks, Disable(h) PROVE TInv'
  BY <1>3, DisableTyped
<1>4. QED
  BY <1>1, <1>2, <1>3, CallersTyped DEF Next, CallersStep

(* Every variable of the vtable hook keeps its type, and no search leaves  *)
(* the words that disp_ can reach.                                         *)
THEOREM TypeCorrect == Spec => []TypeOK
<1>1. TInv => TypeOK
  BY DEF TInv
<1>2. QED
  BY InitTyped, StepTyped, <1>1, PTL DEF Spec

-----------------------------------------------------------------------------
(* The hooks of P, patched over the entries at, make a stack on each: the  *)
(* entry holds the one of the highest rank, and under leads from each to   *)
(* the one of the next rank, and from the last to what was linked.         *)
Lowest(P, at, rank, h) == \A g \in P : at[g] = at[h] => rank[h] <= rank[g]

NextBelow(P, at, rank, h, u) ==
  /\ u \in P /\ at[u] = at[h] /\ rank[u] < rank[h]
  /\ \A g \in P : at[g] = at[h] => rank[g] <= rank[u] \/ rank[h] <= rank[g]

Distinct(P, at, rank) == \A g, h \in P : at[g] = at[h] /\ rank[g] = rank[h] => g = h

Unhooked(P, at, w) == \A e \in Places : (\A h \in P : at[h] # e) => w[e] = Rdata[e]

TopIsHighest(P, at, w, rank) ==
  \A h \in P : w[at[h]] \in P /\ at[w[at[h]]] = at[h] /\ rank[h] <= rank[w[at[h]]]

Chained(P, at, under, rank) ==
  \A h \in P : \/ under[h] = Rdata[at[h]] /\ Lowest(P, at, rank, h)
              \/ NextBelow(P, at, rank, h, under[h])

Stacked(P, at, under, w, rank) ==
  /\ Distinct(P, at, rank) /\ Unhooked(P, at, w)
  /\ TopIsHighest(P, at, w, rank) /\ Chained(P, at, under, rank)

(* A hook that comes on top of an entry.                                   *)
LEMMA Push ==
  ASSUME NEW P \in SUBSET Hooks, NEW rank \in [Hooks -> Nat],
         NEW at, DOMAIN at = Hooks, NEW under, DOMAIN under = Hooks, NEW w, DOMAIN w = Places,
         Stacked(P, at, under, w, rank), \A g \in P : at[g] \in Places,
         NEW h \in Hooks \ P, NEW e \in Places, NEW n \in Nat, \A g \in P : rank[g] < n
  PROVE  Stacked(P \cup {h}, [at EXCEPT ![h] = e], [under EXCEPT ![h] = w[e]],
                 [w EXCEPT ![e] = h], [rank EXCEPT ![h] = n])
<1> DEFINE Q      == P \cup {h}
           at2    == [at EXCEPT ![h] = e]
           under2 == [under EXCEPT ![h] = w[e]]
           w2     == [w EXCEPT ![e] = h]
           r2     == [rank EXCEPT ![h] = n]
<1>0. /\ at2[h] = e /\ under2[h] = w[e]
      /\ \A g \in P : at2[g] = at[g] /\ under2[g] = under[g]
  OBVIOUS
<1>1. r2[h] = n /\ \A g \in P : r2[g] = rank[g] /\ rank[g] \in Nat
  OBVIOUS
<1>2. w2[e] = h /\ \A i \in Places : i # e => w2[i] = w[i]
  OBVIOUS
<1> HIDE DEF at2, under2, w2, r2
<1>3. Distinct(Q, at2, r2)
  BY <1>0, <1>1 DEF Distinct, Stacked
<1>4. Unhooked(Q, at2, w2)
  BY <1>0, <1>2 DEF Unhooked, Stacked
<1>5. TopIsHighest(Q, at2, w2, r2)
  BY <1>0, <1>1, <1>2 DEF TopIsHighest, Stacked
<1>6. ASSUME NEW g \in Q
      PROVE  \/ under2[g] = Rdata[at2[g]] /\ Lowest(Q, at2, r2, g)
             \/ NextBelow(Q, at2, r2, g, under2[g])
  <2>1. CASE g = h
    <3>1. CASE \A f \in P : at[f] # e
      BY <1>0, <1>1, <2>1, <3>1 DEF Stacked, Unhooked, Lowest
    <3>2. CASE \E f \in P : at[f] = e
      <4>1. PICK f \in P : at[f] = e
        BY <3>2
      <4>2. w[e] \in P /\ at[w[e]] = e /\ \A i \in P : at[i] = e => rank[i] <= rank[w[e]]
        BY <4>1 DEF Stacked, TopIsHighest
      <4>3. NextBelow(Q, at2, r2, g, under2[g])
        BY <1>0, <1>1, <2>1, <4>2 DEF NextBelow
      <4>4. QED
        BY <4>3
    <3>3. QED
      BY <3>1, <3>2
  <2>2. CASE g # h
    <3>1. CASE under[g] = Rdata[at[g]] /\ Lowest(P, at, rank, g)
      BY <1>0, <1>1, <2>2, <3>1 DEF Lowest
    <3>2. CASE NextBelow(P, at, rank, g, under[g])
      BY <1>0, <1>1, <2>2, <3>2 DEF NextBelow
    <3>3. QED
      BY <1>0, <2>2, <3>1, <3>2 DEF Stacked, Chained
  <2>3. QED
    BY <2>1, <2>2
<1>7. Chained(Q, at2, under2, r2)
  BY <1>6 DEF Chained
<1>8. QED
  BY <1>3, <1>4, <1>5, <1>7 DEF Stacked, at2, under2, w2, r2

(* The hook on top of an entry goes, and what is under it comes back.      *)
LEMMA Pop ==
  ASSUME NEW P \in SUBSET Hooks, NEW at, NEW under, NEW w, NEW rank \in [Hooks -> Nat],
         Stacked(P, at, under, w, rank), DOMAIN w = Places, \A g \in P : at[g] \in Places,
         NEW h \in P, w[at[h]] = h, NEW at2, NEW under2,
         \A g \in P \ {h} : at2[g] = at[g] /\ under2[g] = under[g]
  PROVE  Stacked(P \ {h}, at2, under2, [w EXCEPT ![at[h]] = under[h]], rank)
<1> DEFINE Q  == P \ {h}
           w2 == [w EXCEPT ![at[h]] = under[h]]
<1>1. w2[at[h]] = under[h] /\ \A i \in Places : i # at[h] => w2[i] = w[i]
  OBVIOUS
<1> HIDE DEF w2
<1>2. \A g \in P : rank[g] \in Nat
  OBVIOUS
<1>3. \A g \in Q : at[g] = at[h] => rank[g] < rank[h]
  BY <1>2 DEF Stacked, Distinct, TopIsHighest
<1>4. Distinct(Q, at2, rank)
  BY DEF Distinct, Stacked
<1>5. \/ under[h] = Rdata[at[h]] /\ \A g \in Q : at[g] # at[h]
      \/ under[h] \in Q /\ at[under[h]] = at[h]
         /\ \A g \in Q : at[g] = at[h] => rank[g] <= rank[under[h]]
  <2>1. CASE under[h] = Rdata[at[h]] /\ Lowest(P, at, rank, h)
    BY <1>2, <1>3, <2>1 DEF Lowest
  <2>2. CASE NextBelow(P, at, rank, h, under[h])
    BY <1>2, <1>3, <2>2 DEF NextBelow
  <2>3. QED
    BY <2>1, <2>2 DEF Stacked, Chained
<1>6. Unhooked(Q, at2, w2)
  BY <1>1, <1>5 DEF Unhooked, Stacked
<1>7. ASSUME NEW g \in Q
      PROVE  w2[at2[g]] \in Q /\ at2[w2[at2[g]]] = at2[g] /\ rank[g] <= rank[w2[at2[g]]]
  <2>1. CASE at[g] = at[h]
    BY <1>1, <1>5, <2>1
  <2>2. CASE at[g] # at[h]
    <3>1. w[at[g]] \in Q /\ at[w[at[g]]] = at[g] /\ rank[g] <= rank[w[at[g]]]
      BY <2>2 DEF Stacked, TopIsHighest
    <3>2. QED
      BY <1>1, <2>2, <3>1
  <2>3. QED
    BY <2>1, <2>2
<1>8. TopIsHighest(Q, at2, w2, rank)
  BY <1>7 DEF TopIsHighest
<1>9. ASSUME NEW g \in Q
      PROVE  \/ under2[g] = Rdata[at2[g]] /\ Lowest(Q, at2, rank, g)
             \/ NextBelow(Q, at2, rank, g, under2[g])
  <2>1. CASE under[g] = Rdata[at[g]] /\ Lowest(P, at, rank, g)
    BY <2>1 DEF Lowest
  <2>2. CASE NextBelow(P, at, rank, g, under[g])
    <3>1. under[g] \in Q
      BY <1>2, <1>3, <2>2 DEF NextBelow
    <3>2. QED
      BY <2>2, <3>1 DEF NextBelow
  <2>3. QED
    BY <2>1, <2>2 DEF Stacked, Chained
<1>10. Chained(Q, at2, under2, rank)
  BY <1>9 DEF Chained
<1>11. QED
  BY <1>4, <1>6, <1>8, <1>10 DEF Stacked, w2

(* The objects that are patched, in the order they were: those on one entry*)
(* are a stack as long as they are disabled last first.                    *)
On    == {h \in Hooks : Patched(h)}
At    == [h \in Hooks |-> Entry(h)]
Under == [h \in Hooks |-> obj[h].origin]

InOrder(rank) ==
  /\ Stacked(On, At, Under, word, rank)
  /\ \A h \in On : rank[h] <= ops /\ (pc = "search" => rank[h] < ops)

RankInv == proper => \E rank \in [Hooks -> Nat] : InOrder(rank)

(* Nothing is patched at first.                                            *)
LEMMA InitInOrder == Init => RankInv
<1> SUFFICES ASSUME Init PROVE RankInv
  OBVIOUS
<1>1. On = {} /\ word = Rdata
  BY DEF Init, On, Patched, NoHook
<1>2. [h \in Hooks |-> 0] \in [Hooks -> Nat]
  OBVIOUS
<1>3. InOrder([h \in Hooks |-> 0])
  BY <1>1 DEF InOrder, Stacked, Distinct, Unhooked, TopIsHighest, Chained
<1>4. QED
  BY <1>2, <1>3 DEF RankInv

(* A step that patches and restores nothing.                               *)
LEMMA SameOrder ==
  ASSUME RankInv, word' = word, proper' => proper, On' = On,
         \A h \in On : At'[h] = At[h] /\ Under'[h] = Under[h],
         TInv, ops' \in Nat, ops <= ops',
         pc' = "search" => pc = "search" \/ ops < ops'
  PROVE  RankInv'
<1> SUFFICES ASSUME proper' PROVE \E rank \in [Hooks -> Nat] : InOrder(rank)'
  BY DEF RankInv
<1>1. PICK rank \in [Hooks -> Nat] : InOrder(rank)
  BY DEF RankInv
<1>2. Stacked(On', At', Under', word', rank)
  BY <1>1 DEF InOrder, Stacked, Distinct, Unhooked, TopIsHighest, Chained,
     Lowest, NextBelow
<1>3. ops \in Nat /\ \A h \in On : rank[h] \in Nat
  BY DEF TInv, TypeOK, On
<1>4. \A h \in On' : rank[h] <= ops' /\ (pc' = "search" => rank[h] < ops')
  BY <1>1, <1>3 DEF InOrder
<1>5. InOrder(rank)'
  BY <1>2, <1>4 DEF InOrder
<1>6. QED
  BY <1>5

(* A patched object's entry is a word of the data.                         *)
LEMMA InPlaces ==
  ASSUME TInv, NEW h \in On
  PROVE  At[h] \in Places /\ At[h] = Entry(h) /\ Under[h] = obj[h].origin
<1>1. obj[h].vt \in Vtables /\ obj[h].disp \in 0 .. DispMod - 1
  BY DEF TInv, UseInv, TypeOK, On
<1>2. QED
  BY <1>1, Reach DEF At, Under, On, Entry

(* Enable puts its object on top of the entry.                             *)
LEMMA PatchOrder ==
  ASSUME TInv, RankInv, NEW h \in Hooks, NEW o \in Objects, NEW e \in Places,
         PatchEntry(h, o, e), ~obj[h].enabled, e = o.vt + o.disp \div Ptr,
         \/ op = NULL /\ ops' = ops + 1
         \/ op = h /\ pc = "search" /\ ops' = ops,
         proper' = proper
  PROVE  RankInv'
<1> SUFFICES ASSUME proper' PROVE \E rank \in [Hooks -> Nat] : InOrder(rank)'
  BY DEF RankInv
<1>1. PICK rank \in [Hooks -> Nat] : InOrder(rank)
  BY DEF RankInv
<1>0. PICK n \in Nat : n = ops'
  BY DEF TInv, TypeOK
<1> DEFINE r2  == [rank EXCEPT ![h] = n]
           new == [o EXCEPT !.origin = word[e]]
<1>2. /\ obj \in [Hooks -> Objects] /\ h # NULL /\ DOMAIN word = Places
      /\ ops \in Nat /\ ops' \in Nat /\ pc # "publish"
  BY WordsAssumption DEF TInv, TypeOK, UseInv, Objects, Addresses
<1>3. obj' = [obj EXCEPT ![h] = new] /\ word' = [word EXCEPT ![e] = h]
      /\ op' = h /\ pc' = "publish"
  BY DEF PatchEntry, Patch
<1>4. new.origin = word[e] /\ new.vt = o.vt /\ new.disp = o.disp
  BY DEF Objects
<1> HIDE DEF new
<1>5. On \in SUBSET Hooks /\ h \in Hooks \ On
  BY <1>2 DEF On, Patched
<1>6. \A g \in On : rank[g] < n
  BY <1>1, <1>2, <1>0, <1>5 DEF InOrder
<1>7. On' = On \cup {h}
  BY <1>2, <1>3, <1>5 DEF On, Patched
<1>8. At' = [At EXCEPT ![h] = e]
  BY <1>2, <1>3, <1>4 DEF At, Entry
<1>9. Under' = [Under EXCEPT ![h] = word[e]]
  BY <1>2, <1>3, <1>4 DEF Under
<1>10. \A g \in On : At[g] \in Places
  BY InPlaces
<1>11. Stacked(On', At', Under', word', r2)
  <2>1. Stacked(On, At, Under, word, rank)
    BY <1>1 DEF InOrder
  <2>2. Stacked(On \cup {h}, At', Under', [word EXCEPT ![e] = h], r2)
    <3>1. DOMAIN At = Hooks /\ DOMAIN Under = Hooks
      BY DEF At, Under
    <3> HIDE DEF r2
    <3>2. Stacked(On \cup {h}, [At EXCEPT ![h] = e], [Under EXCEPT ![h] = word[e]],
                  [word EXCEPT ![e] = h], [rank EXCEPT ![h] = n])
      BY <2>1, <3>1, <1>2, <1>5, <1>6, <1>10, Push
    <3>3. QED
      BY <3>2, <1>8, <1>9 DEF r2
  <2>3. QED
    BY <2>2, <1>3, <1>7
<1>12. \A g \in On' : r2[g] <= n
  BY <1>2, <1>5, <1>6, <1>7
<1>13. InOrder(r2)'
  BY <1>3, <1>0, <1>11, <1>12 DEF InOrder
<1>14. r2 \in [Hooks -> Nat]
  BY <1>2
<1>15. QED
  BY <1>13, <1>14

(* Disable takes the top away, or the use is not proper from then on.      *)
LEMMA DisableOrder ==
  ASSUME TInv, RankInv, NEW h \in Hooks, Disable(h)
  PROVE  RankInv'
<1> SUFFICES ASSUME proper' PROVE \E rank \in [Hooks -> Nat] : InOrder(rank)'
  BY DEF RankInv
<1>1. proper /\ word[Entry(h)] = h
  BY DEF Disable
<1>2. PICK rank \in [Hooks -> Nat] : InOrder(rank)
  BY <1>1 DEF RankInv
<1>3. h \in On /\ On \in SUBSET Hooks /\ DOMAIN word = Places
  BY DEF Disable, On, Patched, TInv, TypeOK
<1>4. /\ obj' = [obj EXCEPT ![h] = NoHook] /\ word' = [word EXCEPT ![Entry(h)] = obj[h].origin]
      /\ pc' = "idle" /\ ops' = ops /\ ~NoHook.enabled /\ obj \in [Hooks -> Objects]
  BY DEF Disable, Patch, TInv, TypeOK, UseInv, Objects, Addresses, NoHook
<1>5. On' = On \ {h}
  BY <1>4 DEF On, Patched, Disable, TInv, UseInv
<1>6. \A g \in On \ {h} : At'[g] = At[g] /\ Under'[g] = Under[g]
  BY <1>3, <1>4 DEF At, Under, Entry
<1>7. At[h] = Entry(h) /\ Under[h] = obj[h].origin /\ \A g \in On : At[g] \in Places
  BY <1>3, InPlaces
<1>8. Stacked(On', At', Under', word', rank)
  <2>1. Stacked(On, At, Under, word, rank)
    BY <1>2 DEF InOrder
  <2>2. Stacked(On \ {h}, At', Under', [word EXCEPT ![At[h]] = Under[h]], rank)
    BY <2>1, <1>1, <1>3, <1>6, <1>7, Pop
  <2>3. QED
    BY <2>2, <1>4, <1>5, <1>7
<1>9. \A g \in On' : rank[g] <= ops'
  BY <1>2, <1>4, <1>5 DEF InOrder
<1>10. InOrder(rank)'
  BY <1>4, <1>8, <1>9 DEF InOrder
<1>11. QED
  BY <1>10

(* A search changes an object that is not patched.                         *)
LEMMA SearchOrder ==
  ASSUME TInv, RankInv, NEW h \in Hooks, NEW o \in Objects, obj' = [obj EXCEPT ![h] = o],
         ~o.enabled, ~obj[h].enabled, op \in {NULL, h}, pc # "publish", pc' # "publish",
         UNCHANGED <<word, proper>>,
         \/ pc = "search" /\ ops' = ops
         \/ ops' = ops + 1
  PROVE  RankInv'
<1>1. obj \in [Hooks -> Objects] /\ ops \in Nat
  BY DEF TInv, TypeOK, Objects, Addresses
<1>2. On' = On /\ h \notin On /\ On \in SUBSET Hooks
  BY <1>1 DEF On, Patched
<1>3. \A g \in On : At'[g] = At[g] /\ Under'[g] = Under[g]
  BY <1>1, <1>2 DEF At, Under, Entry
<1>4. QED
  BY <1>1, <1>2, <1>3, SameOrder

(* Enable returns: nothing moves.                                          *)
LEMMA ReturnsOrder ==
  ASSUME TInv, RankInv, NEW h \in Hooks, EnableReturns(h)
  PROVE  RankInv'
<1>1. /\ obj \in [Hooks -> Objects] /\ ops \in Nat /\ op = h /\ pc = "publish"
      /\ obj' = [obj EXCEPT ![h].enabled = TRUE] /\ pc' = "idle"
      /\ UNCHANGED <<word, proper, ops>>
  BY DEF EnableReturns, TInv, TypeOK, Objects, Addresses
<1>2. On' = On
  BY <1>1 DEF On, Patched, Objects
<1>3. \A g \in On : At'[g] = At[g] /\ Under'[g] = Under[g]
  BY <1>1 DEF On, At, Under, Entry, Objects
<1>4. QED
  BY <1>1, <1>2, <1>3, SameOrder

(* Every step keeps the order.                                             *)
LEMMA StepOrder == TInv /\ RankInv /\ [Next]_vars => RankInv'
<1> SUFFICES ASSUME TInv, RankInv, [Next]_vars PROVE RankInv'
  OBVIOUS
<1>1. obj \in [Hooks -> Objects] /\ ops \in Nat
  BY DEF TInv, TypeOK, Objects, Addresses
<1>2. ASSUME NEW h \in Hooks, EnableStep(h) PROVE RankInv'
  <2>1. op = h => /\ obj[h].vt \in Vtables /\ ~obj[h].enabled
                  /\ obj[h].disp \in 0 .. DispMod - 1
    BY <1>1, WordsAssumption DEF TInv, UseInv, Objects
  <2>2. CASE SearchFails(h)
    <3> DEFINE o == [NoHook EXCEPT !.disp = obj[h].disp]
    <3>1. o \in Objects /\ ~o.enabled
      BY <1>1 DEF NoHook, Objects
    <3>2. /\ obj' = [obj EXCEPT ![h] = o] /\ op = h /\ pc = "search" /\ pc' = "idle"
          /\ UNCHANGED <<word, proper, ops>>
      BY <2>2 DEF SearchFails, Searching
    <3> HIDE DEF o
    <3>3. QED
      BY <2>1, <3>1, <3>2, SearchOrder
  <2>3. CASE SearchNext(h)
    <3> DEFINE d == (obj[h].disp + Ptr) % DispMod
               o == [obj[h] EXCEPT !.disp = d]
    <3>1. /\ obj' = [obj EXCEPT ![h] = o] /\ op = h /\ pc = "search" /\ pc' = "search"
          /\ UNCHANGED <<word, proper, ops>>
      BY <2>3 DEF SearchNext, Searching
    <3>2. d \in 0 .. DispMod - 1
      BY <1>1 DEF Objects, Ptr, DispMod
    <3> HIDE DEF d
    <3>3. o \in Objects /\ ~o.enabled
      BY <1>1, <2>1, <3>1, <3>2 DEF Objects
    <3> HIDE DEF o
    <3>4. QED
      BY <2>1, <3>1, <3>3, SearchOrder
  <2>4. CASE SearchFinds(h)
    <3>1. /\ op = h /\ pc = "search" /\ word[Entry(h)] = obj[h].target
          /\ PatchEntry(h, obj[h], Entry(h)) /\ UNCHANGED <<proper, ops>>
      BY <2>4 DEF SearchFinds, Searching
    <3>2. Entry(h) \in Places /\ obj[h] \in Objects
      BY <1>1, <2>1, <3>1, Reach DEF Entry
    <3>3. QED
      BY <2>1, <3>1, <3>2, PatchOrder DEF Entry
  <2>5. CASE EnableReturns(h)
    BY <2>5, ReturnsOrder
  <2>6. QED
    BY <1>2, <2>2, <2>3, <2>4, <2>5 DEF EnableStep
<1>3. ASSUME NEW h \in Hooks, NEW t \in Code, NEW v \in Vtables, EnableThunk(h, t, v)
      PROVE  RankInv'
  <2> DEFINE disp == Jump[t] % DispMod
             o    == Called(h, t, v, disp)
  <2>1. /\ t \in DOMAIN Jump /\ Usable(t, v) /\ op = NULL /\ ~obj[h].enabled
        /\ PatchEntry(h, o, v + disp \div Ptr) /\ ops' = ops + 1 /\ proper' = proper
    BY <1>3 DEF EnableThunk, Start
  <2>2. disp \in 0 .. DispMod - 1 /\ v + disp \div Ptr \in Places
    BY <2>1, ThunkEntry
  <2>3. o \in Objects /\ o.vt = v /\ o.disp = disp
    BY <1>1, <2>2 DEF Called, Objects
  <2> HIDE DEF disp, o
  <2>4. QED
    BY <2>1, <2>2, <2>3, PatchOrder
<1>4. ASSUME NEW h \in Hooks, NEW t \in Code, NEW v \in Vtables, EnableSearch(h, t, v)
      PROVE  RankInv'
  <2> DEFINE o == Called(h, t, v, 0)
  <2>1. /\ obj' = [obj EXCEPT ![h] = o] /\ op = NULL /\ pc = "idle" /\ ~obj[h].enabled
        /\ pc' = "search" /\ ops' = ops + 1 /\ UNCHANGED <<word, proper>>
    BY <1>4 DEF EnableSearch, Start, TInv, UseInv
  <2>2. 0 \in 0 .. DispMod - 1
    BY DEF DispMod
  <2>3. o \in Objects /\ ~o.enabled
    BY <1>1, <2>1, <2>2 DEF Called, Objects
  <2> HIDE DEF o
  <2>4. QED
    BY <2>1, <2>3, SearchOrder
<1>5. ASSUME NEW h \in Hooks, Disable(h) PROVE RankInv'
  BY <1>5, DisableOrder
<1>6. ASSUME CallersStep
      PROVE  RankInv'
  <2>1. UNCHANGED <<word, obj, op, pc, ops>>
    BY <1>6 DEF CallersStep, Call, CallTorn, CallOrigin, Return, PatchEnds, vars
  <2>2. proper' => proper
    <3>1. ASSUME NEW p \in Callers, CallOrigin(p) PROVE proper' => proper
      BY <3>1, Zenon DEF CallOrigin
    <3>2. CASE UNCHANGED proper
      BY <3>2, Zenon
    <3>3. QED
      BY <1>6, <3>1, <3>2 DEF CallersStep, Call, CallTorn, Return, PatchEnds, vars
  <2>3. On' = On /\ At' = At /\ Under' = Under
    BY <2>1 DEF On, Patched, At, Under, Entry
  <2>4. QED
    BY <1>1, <2>1, <2>2, <2>3, SameOrder
<1>7. QED
  BY <1>2, <1>3, <1>4, <1>5, <1>6 DEF Next, Enable, CallersStep

(* As long as the objects on one entry are disabled last first, and no     *)
(* detour is ahead of the Enable that returns its original, a word that no *)
(* object hooks has the value it was linked with, and the origins of the   *)
(* others lead back to it.                                                 *)
THEOREM Restoration == Spec => []EntriesRestored
<1>1. TInv /\ RankInv => EntriesRestored
  <2> SUFFICES ASSUME TInv, proper, NEW rank \in [Hooks -> Nat], InOrder(rank)
               PROVE  EntriesRestored
    BY DEF RankInv, EntriesRestored
  <2>1. ASSUME NEW e \in Places, word[e] # Rdata[e]
        PROVE  word[e] \in HooksOn(e)
    <3>1. PICK h \in On : At[h] = e
      BY <2>1 DEF InOrder, Stacked, Unhooked
    <3>2. word[e] \in On /\ At[word[e]] = e
      BY <3>1 DEF InOrder, Stacked, TopIsHighest
    <3>3. QED
      BY <3>2 DEF On, At, HooksOn
  <2>2. ASSUME NEW h \in Hooks, Patched(h)
        PROVE  /\ word[Entry(h)] \in HooksOn(Entry(h))
               /\ obj[h].origin \in (HooksOn(Entry(h)) \ {h}) \cup {Rdata[Entry(h)]}
    <3>1. h \in On /\ At[h] = Entry(h) /\ Under[h] = obj[h].origin /\ rank[h] \in Nat
      BY <2>2 DEF On, At, Under
    <3>2. word[Entry(h)] \in On /\ At[word[Entry(h)]] = Entry(h)
      BY <3>1 DEF InOrder, Stacked, TopIsHighest
    <3>3. \/ Under[h] = Rdata[At[h]]
          \/ Under[h] \in On /\ At[Under[h]] = At[h] /\ Under[h] # h
      BY <3>1 DEF InOrder, Stacked, Chained, NextBelow
    <3>4. QED
      BY <3>1, <3>2, <3>3 DEF On, At, HooksOn
  <2>3. QED
    BY <2>1, <2>2 DEF EntriesRestored
<1>2. QED
  BY InitTyped, StepTyped, InitInOrder, StepOrder, <1>1, PTL DEF Spec

-----------------------------------------------------------------------------
(* A word and an origin hold a detour, or what was linked at their place;  *)
(* a search looks for no thunk, and not past the end of a closed vtable;   *)
(* what an object patched is the entry of its target.                      *)
PlaceInv ==
  /\ \A e \in Places : word[e] \in Hooks \cup {Rdata[e]}
  /\ \A h \in Hooks : Patched(h) => obj[h].origin \in Hooks \cup {Rdata[Entry(h)]}
  /\ pc = "search" =>
       /\ obj[op].target \notin DOMAIN Jump
       /\ Closed(obj[op].vt) => Entry(op) \in obj[op].vt .. End[obj[op].vt]
  /\ RightEntry

(* The end of a vtable is a place behind its beginning.                    *)
LEMMA EndIsPlace ==
  ASSUME NEW v \in Vtables
  PROVE  v \in Nat /\ End[v] \in Places /\ End[v] \in Nat /\ v < End[v]
<1>1. PICK i \in Ends(v) : \A j \in Ends(v) : i <= j
  BY WordsAssumption
<1>2. End[v] \in Ends(v)
  BY <1>1 DEF End
<1>3. v \in Places
  BY WordsAssumption
<1> QED
  BY <1>2, <1>3 DEF Ends, Places

(* Nothing is patched or searched at first.                                *)
LEMMA InitPlaced == Init => PlaceInv
  BY DEF Init, PlaceInv, NoHook, Patched, RightEntry

(* The entry of an object of the right type.                               *)
LEMMA EntryNat ==
  ASSUME NEW o \in Objects, o.vt \in Vtables
  PROVE  /\ o.disp \div Ptr \in 0 .. 31 /\ o.vt \in Nat
         /\ o.vt + o.disp \div Ptr \in Places
<1>1. o.disp \in 0 .. DispMod - 1
  BY DEF Objects
<1> QED
  BY <1>1, Reach, EndIsPlace DEF DispMod, Ptr

(* A step that changes one object and at most its entry, to a detour or to *)
(* what was linked there.                                                  *)
LEMMA ChangePlaced ==
  ASSUME TInv, PlaceInv, NEW h \in Hooks, NEW o, obj' = [obj EXCEPT ![h] = o],
         \A e \in Places : word'[e] \in Hooks \cup {Rdata[e]},
         op \in {NULL, h}, op' \in {NULL, h},
         LET t == o.target
             v == o.vt
             e == o.vt + o.disp \div Ptr
         IN  /\ o.enabled \/ pc' = "publish" =>
                  /\ o.origin \in Hooks \cup {Rdata[e]}
                  /\ (IF t \in DOMAIN Jump THEN IsThunk(t, v) ELSE Closed(v)) =>
                       /\ e \in v .. End[v] - 1
                       /\ IF t \in Methods[v] THEN Rdata[e] = t
                          ELSE e = v + Jump[t] \div Ptr
             /\ pc' = "search" => /\ op' = h /\ t \notin DOMAIN Jump
                                  /\ Closed(v) => e \in v .. End[v]
  PROVE  PlaceInv'
<1>1. obj \in [Hooks -> Objects] /\ h # NULL
  BY WordsAssumption DEF TInv, TypeOK, Objects, Addresses
<1>2. Entry(h)' = o.vt + o.disp \div Ptr /\ obj'[h] = o
  BY <1>1 DEF Entry
<1>3. ASSUME NEW g \in Hooks, g # h, Patched(g)'
      PROVE  obj'[g] = obj[g] /\ Entry(g)' = Entry(g) /\ Patched(g)
  BY <1>1, <1>3, WordsAssumption DEF Entry, Patched
<1>4. \A g \in Hooks : Patched(g)' => obj'[g].origin \in Hooks \cup {Rdata[Entry(g)']}
  <2> SUFFICES ASSUME NEW g \in Hooks, Patched(g)'
               PROVE  obj'[g].origin \in Hooks \cup {Rdata[Entry(g)']}
    OBVIOUS
  <2>1. CASE g = h
    BY <1>2, <2>1 DEF Patched
  <2>2. CASE g # h
    BY <1>3, <2>2 DEF PlaceInv
  <2> QED
    BY <2>1, <2>2
<1>5. RightEntry'
  <2> SUFFICES ASSUME NEW g \in Hooks, Patched(g)',
                      IF obj'[g].target \in DOMAIN Jump
                        THEN IsThunk(obj'[g].target, obj'[g].vt) ELSE Closed(obj'[g].vt)
               PROVE  IsRight(g)'
    BY DEF RightEntry, IsThunk, Closed
  <2>1. CASE g = h
    BY <1>2, <2>1 DEF Patched, IsRight
  <2>2. CASE g # h
    <3>1. obj'[g] = obj[g] /\ Entry(g)' = Entry(g) /\ Patched(g)
      BY <1>3, <2>2
    <3>2. IsRight(g)
      BY <3>1 DEF PlaceInv, RightEntry
    <3> QED
      BY <3>1, <3>2 DEF IsRight
  <2> QED
    BY <2>1, <2>2
<1>6. pc' = "search" => /\ obj'[op'].target \notin DOMAIN Jump
                        /\ Closed(obj'[op'].vt) => Entry(op)' \in obj'[op'].vt .. End[obj'[op'].vt]
  BY <1>2
<1> QED
  BY <1>4, <1>5, <1>6 DEF PlaceInv, Closed

(* A step that changes no object and no word.                              *)
LEMMA SamePlaced ==
  ASSUME PlaceInv, UNCHANGED <<word, obj, op, pc>>
  PROVE  PlaceInv'
  BY DEF PlaceInv, RightEntry, IsRight, IsThunk, Closed, Patched, Entry

(* The thunk's own entry is the one patched.                               *)
LEMMA ThunkPlaced ==
  ASSUME TInv, PlaceInv, NEW h \in Hooks, NEW t \in Code, NEW v \in Vtables,
         EnableThunk(h, t, v)
  PROVE  PlaceInv'
<1> DEFINE disp == Jump[t] % DispMod
           e    == v + disp \div Ptr
           o    == [Called(h, t, v, disp) EXCEPT !.origin = word[e]]
<1>1. /\ t \in DOMAIN Jump /\ Usable(t, v) /\ op = NULL /\ op' = h /\ pc' = "publish"
      /\ obj' = [obj EXCEPT ![h] = o] /\ word' = [word EXCEPT ![e] = h]
  BY DEF EnableThunk, Start, PatchEntry, Patch
<1>2. e \in Places /\ disp \in 0 .. DispMod - 1
  BY <1>1, ThunkEntry
<1>3. obj[h] \in Objects
  BY DEF TInv, TypeOK, Objects, Addresses
<1>4. o.target = t /\ o.vt = v /\ o.disp = disp /\ o.origin = word[e]
  BY <1>3 DEF Called, Objects
<1>5. word[e] \in Hooks \cup {Rdata[e]}
  BY <1>2 DEF PlaceInv
<1>6. \A i \in Places : word'[i] \in Hooks \cup {Rdata[i]}
  BY <1>1 DEF PlaceInv, TInv, TypeOK
<1>7. ASSUME IsThunk(t, v)
      PROVE  e \in v .. End[v] - 1 /\ t \notin Methods[v] /\ e = v + Jump[t] \div Ptr
  <2>1. Jump[t] \in Nat /\ Jump[t] < DispMod /\ t \notin Methods[v]
    BY <1>1, <1>7, WordsAssumption DEF IsThunk
  <2>2. disp = Jump[t] /\ Jump[t] \div Ptr \in Nat
    BY <2>1 DEF DispMod, Ptr
  <2> HIDE DEF disp
  <2>3. v + Jump[t] \div Ptr < End[v] /\ e = v + Jump[t] \div Ptr
    BY <1>1, <2>2 DEF Usable
  <2> QED
    BY <2>1, <2>2, <2>3, EndIsPlace
<1> HIDE DEF o, disp
<1> QED
  BY <1>1, <1>4, <1>5, <1>6, <1>7, ChangePlaced

(* A search begins at the first entry.                                     *)
LEMMA StartsPlaced ==
  ASSUME TInv, PlaceInv, NEW h \in Hooks, NEW t \in Code, NEW v \in Vtables,
         EnableSearch(h, t, v)
  PROVE  PlaceInv'
<1> DEFINE o == Called(h, t, v, 0)
<1>1. /\ t \notin DOMAIN Jump /\ op = NULL /\ ~obj[h].enabled /\ op' = h /\ pc' = "search"
      /\ obj' = [obj EXCEPT ![h] = o] /\ word' = word
  BY DEF EnableSearch, Start
<1>2. obj[h] \in Objects
  BY DEF TInv, TypeOK, Objects, Addresses
<1>3. o.target = t /\ o.vt = v /\ o.disp = 0 /\ ~o.enabled
  BY <1>1, <1>2 DEF Called, Objects
<1>4. v + 0 \div Ptr \in v .. End[v]
  BY EndIsPlace DEF Ptr
<1> HIDE DEF o
<1> QED
  BY <1>1, <1>3, <1>4, ChangePlaced DEF PlaceInv

(* The next displacement is the next entry, or the first one again.        *)
LEMMA NextDisp ==
  ASSUME NEW x \in 0 .. DispMod - 1
  PROVE  LET d == (x + Ptr) % DispMod
         IN  /\ (d \div Ptr = 0 \/ d \div Ptr = x \div Ptr + 1)
             /\ d \div Ptr \in Nat /\ x \div Ptr \in Nat
  BY DEF DispMod, Ptr

(* The search stays in a closed vtable: at its end it would have stopped.  *)
LEMMA NextPlaced ==
  ASSUME TInv, PlaceInv, NEW h \in Hooks, SearchNext(h)
  PROVE  PlaceInv'
<1> DEFINE d == (obj[h].disp + Ptr) % DispMod
           o == [obj[h] EXCEPT !.disp = d]
           v == obj[h].vt
<1>1. /\ op = h /\ op' = h /\ pc = "search" /\ pc' = "search" /\ word[Entry(h)] # Data
      /\ obj' = [obj EXCEPT ![h] = o] /\ word' = word
  BY DEF SearchNext, Searching
<1>2. obj[h] \in Objects /\ v \in Vtables /\ ~obj[h].enabled
  BY <1>1, WordsAssumption DEF TInv, TypeOK, UseInv, Objects, Addresses
<1>3. o.target = obj[h].target /\ o.vt = v /\ o.disp = d /\ o.enabled = obj[h].enabled
  BY <1>2 DEF Objects
<1>4. Entry(h) \in Places /\ Rdata[Entry(h)] # Data
  BY <1>1, <1>2, EntryNat DEF Entry, TInv, UseInv
<1>5. ASSUME Closed(v) PROVE v + d \div Ptr \in v .. End[v]
  <2>1. Entry(h) \in v .. End[v] /\ Entry(h) # End[v]
    BY <1>1, <1>4, <1>5 DEF PlaceInv, Closed
  <2>2. obj[h].disp \in 0 .. 255 /\ v \in Nat /\ End[v] \in Nat /\ v < End[v]
    BY <1>2, EndIsPlace DEF Objects, DispMod
  <2>3. /\ (d \div Ptr = 0 \/ d \div Ptr = obj[h].disp \div Ptr + 1)
        /\ d \div Ptr \in Nat /\ obj[h].disp \div Ptr \in Nat
    <3>1. obj[h].disp \in 0 .. DispMod - 1
      BY <1>2 DEF Objects
    <3> QED
      BY <3>1, NextDisp
  <2> HIDE DEF d
  <2> QED
    BY <2>1, <2>2, <2>3 DEF Entry
<1>6. obj[h].target \notin DOMAIN Jump
  BY <1>1 DEF PlaceInv
<1> HIDE DEF o, d
<1> QED
  BY <1>1, <1>2, <1>3, <1>5, <1>6, ChangePlaced DEF PlaceInv

(* A search that meets the target has met the entry it was linked at.      *)
LEMMA FindsPlaced ==
  ASSUME TInv, PlaceInv, NEW h \in Hooks, SearchFinds(h)
  PROVE  PlaceInv'
<1> DEFINE t == obj[h].target
           v == obj[h].vt
           e == v + obj[h].disp \div Ptr
           o == [obj[h] EXCEPT !.origin = word[e]]
<1>1. /\ op = h /\ op' = h /\ pc = "search" /\ pc' = "publish" /\ word[e] = t
      /\ obj' = [obj EXCEPT ![h] = o] /\ word' = [word EXCEPT ![e] = h]
  BY DEF SearchFinds, Searching, PatchEntry, Patch, Entry
<1>2. obj[h] \in Objects /\ v \in Vtables /\ t \in Code /\ t # Data /\ t \notin Hooks
  BY <1>1, WordsAssumption DEF TInv, TypeOK, UseInv, Objects, Addresses
<1>3. o.target = t /\ o.vt = v /\ o.disp = obj[h].disp /\ o.origin = word[e]
  BY <1>2 DEF Objects
<1>4. e \in Places /\ Entry(h) = e
  BY <1>2, EntryNat DEF Entry
<1>5. Rdata[e] = t /\ t \notin DOMAIN Jump /\ word[e] \in Hooks \cup {Rdata[e]}
  BY <1>1, <1>2, <1>4 DEF PlaceInv
<1>6. \A i \in Places : word'[i] \in Hooks \cup {Rdata[i]}
  BY <1>1 DEF PlaceInv, TInv, TypeOK
<1>7. ASSUME Closed(v) PROVE e \in v .. End[v] - 1 /\ t \in Methods[v]
  <2>1. e \in v .. End[v] /\ e # End[v]
    BY <1>1, <1>2, <1>4, <1>5, <1>7 DEF PlaceInv, Closed
  <2>2. e \in v .. End[v] - 1
    BY <2>1, <1>2, EndIsPlace
  <2> QED
    BY <2>2, <1>2, <1>5 DEF Methods
<1> HIDE DEF o, e
<1>8. o.vt + o.disp \div Ptr = e
  BY <1>3 DEF e
<1> QED
  BY <1>1, <1>3, <1>5, <1>6, <1>7, <1>8, ChangePlaced

(* The other steps patch nothing.                                          *)
LEMMA OthersPlaced ==
  ASSUME TInv, PlaceInv, NEW h \in Hooks,
         SearchFails(h) \/ EnableReturns(h) \/ Disable(h)
  PROVE  PlaceInv'
<1>1. obj[h] \in Objects /\ h # NULL
  BY WordsAssumption DEF TInv, TypeOK, Objects, Addresses
<1>2. CASE SearchFails(h)
  <2> DEFINE o == [NoHook EXCEPT !.disp = obj[h].disp]
  <2>1. /\ op = h /\ op' = NULL /\ pc' = "idle" /\ word' = word
        /\ obj' = [obj EXCEPT ![h] = o] /\ ~o.enabled
    BY <1>2 DEF SearchFails, Searching, NoHook
  <2> HIDE DEF o
  <2> QED
    BY <2>1, ChangePlaced DEF PlaceInv
<1>3. CASE EnableReturns(h)
  <2> DEFINE o == [obj[h] EXCEPT !.enabled = TRUE]
  <2>1. /\ op = h /\ op' = NULL /\ pc' = "idle" /\ word' = word /\ Patched(h)
        /\ obj' = [obj EXCEPT ![h] = o]
    BY <1>3 DEF EnableReturns, Patched
  <2>2. o.target = obj[h].target /\ o.vt = obj[h].vt /\ o.disp = obj[h].disp
        /\ o.origin = obj[h].origin
    BY <1>1 DEF Objects
  <2> HIDE DEF o
  <2>3. o.origin \in Hooks \cup {Rdata[o.vt + o.disp \div Ptr]}
    BY <2>1, <2>2 DEF PlaceInv, Entry
  <2>4. (IF o.target \in DOMAIN Jump THEN IsThunk(o.target, o.vt) ELSE Closed(o.vt)) =>
          /\ o.vt + o.disp \div Ptr \in o.vt .. End[o.vt] - 1
          /\ IF o.target \in Methods[o.vt] THEN Rdata[o.vt + o.disp \div Ptr] = o.target
             ELSE o.vt + o.disp \div Ptr = o.vt + Jump[o.target] \div Ptr
    BY <2>1, <2>2 DEF PlaceInv, RightEntry, IsRight, Entry
  <2> QED
    BY <2>1, <2>3, <2>4, ChangePlaced DEF PlaceInv
<1>4. CASE Disable(h)
  <2>1. /\ op = NULL /\ op' = NULL /\ pc' = "idle" /\ Patched(h)
        /\ obj' = [obj EXCEPT ![h] = NoHook] /\ ~NoHook.enabled
        /\ word' = [word EXCEPT ![Entry(h)] = obj[h].origin]
    BY <1>4 DEF Disable, Patch, Patched, NoHook, TInv, UseInv
  <2>2. \A i \in Places : word'[i] \in Hooks \cup {Rdata[i]}
    BY <2>1 DEF PlaceInv, TInv, TypeOK
  <2> QED
    BY <2>1, <2>2, ChangePlaced
<1> QED
  BY <1>2, <1>3, <1>4

(* Every step keeps the right entry.                                       *)
LEMMA StepPlaced == TInv /\ PlaceInv /\ [Next]_vars => PlaceInv'
<1> SUFFICES ASSUME TInv, PlaceInv, [Next]_vars PROVE PlaceInv'
  OBVIOUS
<1>1. ASSUME NEW h \in Hooks, EnableStep(h) \/ Disable(h) PROVE PlaceInv'
  BY <1>1, NextPlaced, FindsPlaced, OthersPlaced DEF EnableStep
<1>2. ASSUME NEW h \in Hooks, NEW t \in Code, NEW v \in Vtables, Enable(h, t, v)
      PROVE  PlaceInv'
  BY <1>2, ThunkPlaced, StartsPlaced DEF Enable
<1>3. ASSUME CallersStep
      PROVE  PlaceInv'
  BY <1>3, SamePlaced DEF CallersStep, Call, CallTorn, CallOrigin, Return, PatchEnds, vars
<1> QED
  BY <1>1, <1>2, <1>3 DEF Next, CallersStep

(* The entry an object patches is the one its target has in the vtable of  *)
(* its instance, for any program and however many hooks the search passes. *)
THEOREM RightPlace == Spec => []RightEntry
<1>1. PlaceInv => RightEntry
  BY DEF PlaceInv
<1> QED
  BY InitTyped, StepTyped, InitPlaced, StepPlaced, <1>1, PTL DEF Spec

-----------------------------------------------------------------------------
(* The refinement of HookStack: what the client was told is what the object*)
(* writes back.                                                            *)
ToldInv == \A h \in Hooks : obj[h].enabled => origin[h] = obj[h].origin

(* Every step keeps it.                                                    *)
LEMMA StepTold == TInv /\ ToldInv /\ [Next]_vars => ToldInv'
<1> SUFFICES ASSUME TInv, ToldInv, [Next]_vars PROVE ToldInv'
  OBVIOUS
<1>1. obj \in [Hooks -> Objects] /\ \A h \in Hooks : op = h => ~obj[h].enabled
  BY WordsAssumption DEF TInv, TypeOK, UseInv, Objects, Addresses
<1>2. ASSUME NEW h \in Hooks, NEW o, obj' = [obj EXCEPT ![h] = o], ~o.enabled,
             origin' = origin
      PROVE  ToldInv'
  BY <1>1, <1>2 DEF ToldInv
<1>4. ASSUME NEW h \in Hooks, EnableStep(h) PROVE ToldInv'
  <2>1. CASE SearchFails(h)
    <3> DEFINE o == [NoHook EXCEPT !.disp = obj[h].disp]
    <3>1. obj' = [obj EXCEPT ![h] = o] /\ origin' = origin /\ ~o.enabled
      BY <2>1 DEF SearchFails, NoHook
    <3> HIDE DEF o
    <3> QED
      BY <1>2, <3>1
  <2>2. CASE SearchNext(h)
    <3> DEFINE d == (obj[h].disp + Ptr) % DispMod
               o == [obj[h] EXCEPT !.disp = d]
    <3>1. op = h /\ obj' = [obj EXCEPT ![h] = o] /\ origin' = origin
      BY <2>2 DEF SearchNext, Searching
    <3> HIDE DEF d
    <3>2. ~o.enabled
      BY <1>1, <3>1 DEF Objects
    <3> HIDE DEF o
    <3> QED
      BY <1>2, <3>1, <3>2
  <2>3. CASE SearchFinds(h)
    BY <1>1, <2>3 DEF SearchFinds, Searching, PatchEntry, ToldInv, Objects
  <2>4. CASE EnableReturns(h)
    BY <1>1, <2>4 DEF EnableReturns, ToldInv, Objects, TInv, TypeOK
  <2> QED
    BY <1>4, <2>1, <2>2, <2>3, <2>4 DEF EnableStep
<1>5. ASSUME NEW h \in Hooks, Disable(h) PROVE ToldInv'
  <2>1. obj' = [obj EXCEPT ![h] = NoHook] /\ origin' = origin /\ ~NoHook.enabled
    BY <1>5 DEF Disable, NoHook
  <2> QED
    BY <1>2, <2>1
<1>6. ASSUME NEW h \in Hooks, NEW t \in Code, NEW v \in Vtables, Enable(h, t, v)
      PROVE  ToldInv'
  <2>1. CASE EnableThunk(h, t, v)
    <3> DEFINE disp == Jump[t] % DispMod
               o    == [Called(h, t, v, disp) EXCEPT !.origin = word[v + disp \div Ptr]]
    <3>1. obj' = [obj EXCEPT ![h] = o] /\ origin' = origin /\ ~obj[h].enabled
      BY <2>1 DEF EnableThunk, Start, PatchEntry, Patch
    <3> HIDE DEF disp
    <3>2. ~o.enabled
      BY <1>1, <3>1 DEF Called, Objects
    <3> HIDE DEF o
    <3> QED
      BY <1>2, <3>1, <3>2
  <2>2. CASE EnableSearch(h, t, v)
    <3> DEFINE o == Called(h, t, v, 0)
    <3>1. obj' = [obj EXCEPT ![h] = o] /\ origin' = origin /\ ~obj[h].enabled
      BY <2>2 DEF EnableSearch, Start
    <3>2. ~o.enabled
      BY <1>1, <3>1 DEF Called, Objects
    <3> HIDE DEF o
    <3> QED
      BY <1>2, <3>1, <3>2
  <2> QED
    BY <1>6, <2>1, <2>2 DEF Enable
<1>7. ASSUME CallersStep
      PROVE  ToldInv'
  BY <1>7 DEF CallersStep, Call, CallTorn, CallOrigin, Return, PatchEnds, vars, ToldInv
<1> QED
  BY <1>4, <1>5, <1>6, <1>7 DEF Next, CallersStep

(* The abstract variables that are computed.                               *)
OnEntry  == [h \in Hooks |-> IF Patched(h) THEN Entry(h) ELSE NULL]
BelowOf  == [h \in Hooks |-> IF Patched(h) THEN obj[h].origin ELSE origin[h]]

StackStep == UNCHANGED Stack!vars \/ Stack!Next

SInv == TInv /\ ToldInv

(* A patch of h over entry e is Enable(h, e) of the stack.                 *)
LEMMA PatchStacks ==
  ASSUME SInv, NEW h \in Hooks, NEW o \in Objects, NEW e \in Places,
         PatchEntry(h, o, e), ~obj[h].enabled, e = o.vt + o.disp \div Ptr,
         op = NULL \/ (op = h /\ pc = "search"), UNCHANGED <<origin, running>>
  PROVE  StackStep
<1> DEFINE new == [o EXCEPT !.origin = word[e]]
<1>1. /\ obj \in [Hooks -> Objects] /\ h # NULL /\ pc # "publish"
      /\ obj' = [obj EXCEPT ![h] = new] /\ word' = [word EXCEPT ![e] = h]
      /\ op' = h /\ pc' = "publish"
  BY WordsAssumption DEF SInv, TInv, TypeOK, UseInv, Objects, Addresses,
     PatchEntry, Patch
<1>2. new.origin = word[e] /\ new.vt = o.vt /\ new.disp = o.disp
  BY DEF Objects
<1> HIDE DEF new
<1>3. ~Patched(h) /\ Patched(h)' /\ \A g \in Hooks : g # h => (Patched(g)' <=> Patched(g))
  BY <1>1, WordsAssumption DEF Patched
<1>4. \A g \in Hooks : g # h => obj'[g] = obj[g] /\ Entry(g)' = Entry(g)
  BY <1>1 DEF Entry
<1>5. Entry(h)' = e /\ obj'[h].origin = word[e]
  BY <1>1, <1>2 DEF Entry
<1>6. OnEntry' = [OnEntry EXCEPT ![h] = e] /\ OnEntry[h] = NULL
  BY <1>3, <1>4, <1>5 DEF OnEntry
<1>7. BelowOf' = [BelowOf EXCEPT ![h] = word[e]]
  BY <1>3, <1>4, <1>5 DEF BelowOf
<1>8. Stack!Enable(h, e)
  BY <1>1, <1>6, <1>7 DEF Stack!Enable, OnEntry, BelowOf
<1> QED
  BY <1>8 DEF StackStep, Stack!Next

(* A change of an object that is not patched is nothing to the stack.      *)
LEMMA SearchStacks ==
  ASSUME SInv, NEW h \in Hooks, NEW o, obj' = [obj EXCEPT ![h] = o],
         ~o.enabled, ~obj[h].enabled, pc # "publish", pc' # "publish",
         UNCHANGED <<word, origin, running>>
  PROVE  StackStep
<1>1. obj \in [Hooks -> Objects]
  BY DEF SInv, TInv, TypeOK, Objects, Addresses
<1>2. \A g \in Hooks : Patched(g)' <=> Patched(g)
  BY <1>1 DEF Patched
<1>3. \A g \in Hooks : Patched(g) => obj'[g] = obj[g] /\ Entry(g)' = Entry(g)
  BY <1>1 DEF Patched, Entry
<1>4. OnEntry' = OnEntry /\ BelowOf' = BelowOf
  BY <1>2, <1>3 DEF OnEntry, BelowOf
<1> QED
  BY <1>4 DEF StackStep, Stack!vars, OnEntry, BelowOf

(* Enable returns: the client's variable gets what the object keeps.       *)
LEMMA ReturnsStacks ==
  ASSUME SInv, NEW h \in Hooks, EnableReturns(h)
  PROVE  StackStep
<1>1. /\ obj \in [Hooks -> Objects] /\ op = h /\ pc = "publish" /\ h # NULL
      /\ obj' = [obj EXCEPT ![h].enabled = TRUE] /\ pc' = "idle"
      /\ origin' = [origin EXCEPT ![h] = obj[h].origin] /\ DOMAIN origin = Hooks
      /\ UNCHANGED <<word, running>>
  BY WordsAssumption DEF EnableReturns, SInv, TInv, TypeOK, Objects, Addresses
<1>2. \A g \in Hooks : /\ Patched(g)' <=> Patched(g)
                       /\ Entry(g)' = Entry(g) /\ obj'[g].origin = obj[g].origin
  BY <1>1 DEF Patched, Entry, Objects
<1>3. Patched(h)
  BY <1>1 DEF Patched
<1>4. OnEntry' = OnEntry /\ BelowOf' = BelowOf
  BY <1>1, <1>2, <1>3 DEF OnEntry, BelowOf
<1> QED
  BY <1>1, <1>4 DEF StackStep, Stack!vars, OnEntry, BelowOf

(* Disable of the object enabled last takes it off the stack.              *)
LEMMA DisableStacks ==
  ASSUME SInv, NEW h \in Hooks, Disable(h), proper'
  PROVE  StackStep
<1>1. /\ obj \in [Hooks -> Objects] /\ op = NULL /\ obj[h].enabled
      /\ word' = [word EXCEPT ![Entry(h)] = obj[h].origin]
      /\ obj' = [obj EXCEPT ![h] = NoHook] /\ word[Entry(h)] = h
      /\ UNCHANGED <<origin, op, pc, running>> /\ pc # "publish" /\ h # NULL
  BY WordsAssumption DEF Disable, Patch, SInv, TInv, UseInv, TypeOK, Objects, Addresses
<1>2. Patched(h) /\ ~Patched(h)'
  BY <1>1 DEF Patched, NoHook
<1>3. \A g \in Hooks : g # h => /\ Patched(g)' <=> Patched(g)
                                /\ Entry(g)' = Entry(g) /\ obj'[g] = obj[g]
  BY <1>1 DEF Patched, Entry
<1>4. Entry(h) \in Places
  BY <1>1, <1>2, EntryNat DEF SInv, TInv, UseInv, Entry
<1>5. Entry(h) # NULL
  BY <1>4, WordsAssumption
<1>6. OnEntry[h] = Entry(h) /\ OnEntry' = [OnEntry EXCEPT ![h] = NULL]
  BY <1>2, <1>3 DEF OnEntry
<1>7. BelowOf[h] = obj[h].origin /\ BelowOf' = BelowOf
  BY <1>1, <1>2, <1>3 DEF BelowOf, SInv, ToldInv
<1>8. Stack!Disable(h)
  BY <1>1, <1>5, <1>6, <1>7 DEF Stack!Disable, OnEntry, BelowOf
<1> QED
  BY <1>8 DEF StackStep, Stack!Next

(* The callers' steps are the stack's.                                     *)
LEMMA CallersStack ==
  ASSUME SInv, NEW p \in Callers,
         \/ CallOrigin(p) /\ proper'
         \/ Return(p)
         \/ \E e \in Places : Call(p, e)
  PROVE  StackStep
<1>1. UNCHANGED <<word, obj, origin, op, pc>>
  BY DEF CallOrigin, Return, Call
<1>2. OnEntry' = OnEntry /\ BelowOf' = BelowOf
  BY <1>1 DEF OnEntry, BelowOf, Patched, Entry
<1>3. CASE CallOrigin(p) /\ proper'
  <2> DEFINE h == running[p]
  <2>1. h \in Hooks /\ op # h /\ running' = [running EXCEPT ![p] = origin[h]]
    BY <1>3 DEF CallOrigin
  <2>2. BelowOf[h] = origin[h]
    BY <2>1 DEF BelowOf, Patched, SInv, ToldInv
  <2>3. Stack!CallOrigin(p)
    BY <1>1, <1>2, <2>1, <2>2 DEF Stack!CallOrigin, OnEntry, BelowOf
  <2> QED
    BY <2>3 DEF StackStep, Stack!Next
<1>4. CASE Return(p)
  <2>1. Stack!Return(p)
    BY <1>1, <1>2, <1>4 DEF Return, Stack!Return, OnEntry, BelowOf
  <2> QED
    BY <2>1 DEF StackStep, Stack!Next
<1>5. ASSUME NEW e \in Places, Call(p, e) PROVE StackStep
  <2>1. Stack!Call(p, e)
    BY <1>1, <1>2, <1>5 DEF Call, Stack!Call, OnEntry, BelowOf
  <2> QED
    BY <2>1 DEF StackStep, Stack!Next
<1> QED
  BY <1>3, <1>4, <1>5

(* Nor is the end of the write one: the stack had it when it began.        *)
LEMMA PatchEndsStacks == PatchEnds => StackStep
  BY DEF PatchEnds, StackStep, Stack!vars, Patched, Entry

(* Every step of the objects, used last first, is a step of the stack.     *)
LEMMA NextStacks == SInv /\ [Next]_vars => [proper' => StackStep]_vars
<1> SUFFICES ASSUME SInv, Next, proper' PROVE StackStep
  OBVIOUS
<1>1. obj \in [Hooks -> Objects] /\ (op = NULL <=> pc = "idle")
  BY DEF SInv, TInv, UseInv, TypeOK, Objects, Addresses
<1>2. ASSUME NEW h \in Hooks, EnableStep(h) PROVE StackStep
  <2>1. op = h => /\ obj[h].vt \in Vtables /\ ~obj[h].enabled /\ obj[h] \in Objects
    BY <1>1, WordsAssumption DEF SInv, TInv, UseInv
  <2>2. CASE SearchFails(h)
    <3> DEFINE o == [NoHook EXCEPT !.disp = obj[h].disp]
    <3>1. /\ obj' = [obj EXCEPT ![h] = o] /\ op = h /\ pc = "search" /\ pc' = "idle"
          /\ ~o.enabled /\ UNCHANGED <<word, origin, running>>
      BY <2>2 DEF SearchFails, Searching, NoHook
    <3> HIDE DEF o
    <3> QED
      BY <2>1, <3>1, SearchStacks
  <2>3. CASE SearchNext(h)
    <3> DEFINE d == (obj[h].disp + Ptr) % DispMod
               o == [obj[h] EXCEPT !.disp = d]
    <3>1. /\ obj' = [obj EXCEPT ![h] = o] /\ op = h /\ pc = "search" /\ pc' = "search"
          /\ UNCHANGED <<word, origin, running>>
      BY <2>3 DEF SearchNext, Searching
    <3> HIDE DEF d
    <3>2. ~o.enabled
      BY <2>1, <3>1 DEF Objects
    <3> HIDE DEF o
    <3> QED
      BY <2>1, <3>1, <3>2, SearchStacks
  <2>4. CASE SearchFinds(h)
    <3>1. /\ op = h /\ pc = "search" /\ PatchEntry(h, obj[h], Entry(h))
          /\ UNCHANGED <<origin, running>>
      BY <2>4 DEF SearchFinds, Searching
    <3>2. Entry(h) \in Places
      BY <2>1, <3>1, EntryNat DEF Entry
    <3> QED
      BY <2>1, <3>1, <3>2, PatchStacks DEF Entry
  <2>5. CASE EnableReturns(h)
    BY <2>5, ReturnsStacks
  <2> QED
    BY <1>2, <2>2, <2>3, <2>4, <2>5 DEF EnableStep
<1>3. ASSUME NEW h \in Hooks, NEW t \in Code, NEW v \in Vtables, EnableThunk(h, t, v)
      PROVE  StackStep
  <2> DEFINE disp == Jump[t] % DispMod
             o    == Called(h, t, v, disp)
  <2>1. /\ t \in DOMAIN Jump /\ Usable(t, v) /\ op = NULL /\ ~obj[h].enabled
        /\ PatchEntry(h, o, v + disp \div Ptr) /\ UNCHANGED <<origin, running>>
    BY <1>3 DEF EnableThunk, Start
  <2>2. disp \in 0 .. DispMod - 1 /\ v + disp \div Ptr \in Places
    BY <2>1, ThunkEntry
  <2>3. o \in Objects /\ o.vt = v /\ o.disp = disp
    BY <1>1, <2>2 DEF Called, Objects
  <2> HIDE DEF disp, o
  <2> QED
    BY <2>1, <2>2, <2>3, PatchStacks
<1>4. ASSUME NEW h \in Hooks, NEW t \in Code, NEW v \in Vtables, EnableSearch(h, t, v)
      PROVE  StackStep
  <2> DEFINE o == Called(h, t, v, 0)
  <2>1. /\ obj' = [obj EXCEPT ![h] = o] /\ op = NULL /\ ~obj[h].enabled
        /\ pc' = "search" /\ UNCHANGED <<word, origin, running>>
    BY <1>4 DEF EnableSearch, Start
  <2>2. ~o.enabled
    BY <1>1, <2>1 DEF Called, Objects
  <2> HIDE DEF o
  <2> QED
    BY <1>1, <2>1, <2>2, SearchStacks
<1>5. ~ \E p \in Callers : CallTorn(p)
  BY DEF CallTorn
<1> QED
  BY <1>2, <1>3, <1>4, <1>5, DisableStacks, CallersStack, PatchEndsStacks DEF Next, Enable

(* For any program, hooks and callers: as long as the objects on an entry  *)
(* are disabled last first, no detour is ahead of its Enable and none calls*)
(* through an entry while it is written, callers see a stack of hooks on   *)
(* every entry.                                                            *)
THEOREM StackImplemented == Spec => ImplementsStack
<1>1. Init => Stack!Init /\ ToldInv
  BY DEF Init, Stack!Init, ToldInv, NoHook, Patched
<1>2. SInv /\ [Next]_vars => SInv'
  BY StepTyped, StepTold DEF SInv
<1>3. TInv /\ ToldInv => SInv
  BY DEF SInv
<1>4. [proper' => StackStep]_vars <=> [proper' => (UNCHANGED Stack!vars \/ Stack!Next)]_vars
  BY DEF StackStep
<1> QED
  BY InitTyped, <1>1, <1>2, <1>3, <1>4, NextStacks, PTL DEF Spec,
     ImplementsStack
=============================================================================
