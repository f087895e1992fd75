--------------------------- MODULE VehChainProofs ---------------------------
(***************************************************************************)
(* Proofs about VehChain, for any callers, targets and pages.  As long as  *)
(* hooks are changed as Quiet says no exception goes unhandled, and with   *)
(* the INT 3 hooks begun first every page-guard hook stays armed, and a    *)
(* hooked target only runs its own code while a guard is being restored.   *)
(*                                                                         *)
(* QuietInv says of each variable what it is for which statements are left *)
(* of the call in progress; Pending is all it says of those.               *)
(***************************************************************************)
EXTENDS VehChain, TLAPS

(* The statements of the calls of either kind, and what is left of them.   *)
VehScripts == {<<"add", "guard">>, <<"guard">>, <<"remove", "unguard">>, <<"unguard">>}

Int3Scripts ==
  {<<"read", "protect", "write", "restore", "add">>, <<"read", "protect", "write", "restore">>,
   <<"step", "protect", "write", "restore", "add">>, <<"step", "protect", "write", "restore">>,
   <<"protect", "write", "restore", "add">>, <<"write", "restore", "add">>,
   <<"restore", "add">>, <<"add">>,
   <<"protect", "write", "restore", "remove">>, <<"write", "restore", "remove">>,
   <<"restore", "remove">>, <<"remove">>,
   <<"protect", "write", "restore">>, <<"write", "restore">>, <<"restore">>}

(* The call is of the kind its statements are.                             *)
JobInv ==
  \/ job = NULL /\ todo = <<>>
  \/ /\ job \in Calls
     /\ todo \in IF job.kind = "veh" THEN VehScripts ELSE Int3Scripts

(* What it does with the map, it has done.                                 *)
HookInv ==
  /\ Pending("guard") => job.target \in hooked["veh"]
  /\ Pending("unguard") => \A t \in hooked["veh"] : PageOf[t] # Page
  /\ Pending("add") => hooked[job.kind] = {job.target}
  /\ Pending("remove") => hooked[job.kind] = {}
  /\ Pending("write") /\ job.target \notin hooked["int3"] =>
       hooked["int3"] # {} \/ Pending("remove")

(* A kind has its handler while it has hooks, one statement aside.         *)
ChainInv ==
  \A k \in Kinds :
    Registered(k) <=> \/ hooked[k] # {} /\ ~(Pending("add") /\ job.kind = k)
                      \/ Pending("remove") /\ job.kind = k

Writing(t) == Pending("write") /\ job.target = t

(* INT 3 is at the hooked targets, one statement aside.                    *)
PatchedInv ==
  \A t \in Targets : t \in patched <=> IF Writing(t) THEN t \notin hooked["int3"]
                                                     ELSE t \in hooked["int3"]

HookOn(g) == \E t \in hooked["veh"] : PageOf[t] = g

(* Patch has made the page writable and not restored it.                   *)
Opened(g) == Pending("restore") /\ ~Pending("protect") /\ g = Page

(* A guarded page has a hook, whose Enable guarded it, or had the one that *)
(* Disable is about to unguard; no other hook is on the page of a call.    *)
PageInv ==
  /\ \A g \in Pages : prot[g] = "GUARD" =>
       \/ HookOn(g) /\ ~(Pending("guard") /\ g = Page)
       \/ Pending("unguard") /\ g = Page
  /\ \A g \in Pages : prot[g] = "RWX" <=> Opened(g)
  /\ \A t \in Targets : old[t] = "RX"
  /\ Pending("restore") /\ ~Pending("protect") =>
       saved = "RX" \/ (saved = "GUARD" /\ HookOn(Page))
  /\ Pending("step") => Registered("veh")

(* An exception has its handler, and its thread is where it was raised.    *)
FlightInv ==
  \A p \in Callers :
    /\ at[p].in # "caller" => at[p].of \in Targets
    /\ InFlight(p) => chain # <<>>
    /\ pc[p] = "guard" => Registered("veh")
    /\ pc[p] = "break" => Registered("int3")
    /\ tf[p] \/ pc[p] \in {"guard", "veh"} => at[p].in # "caller"
    /\ pc[p] \in {"step", "rearm"} => ~tf[p]
    /\ pc[p] \in {"break", "int3"} =>
         at[p].in = "entry" /\ (at[p].of \in hooked["veh"] => at[p].of \in hooked["int3"])
    /\ tf[p] /\ pc[p] = "run" /\ at[p].in = "entry" => at[p].of \notin hooked["veh"]

(* The page of t is guarded, or somebody is about to guard it: of the call *)
(* in progress, its own page.                                              *)
Guarded(t) ==
  \/ prot[PageOf[t]] = "GUARD"
  \/ \E p \in Callers : InFlight(p)
  \/ Pending("guard") /\ t = job.target
  \/ Pending("step")
  \/ Opened(PageOf[t]) /\ saved = "GUARD"

ArmedInv == \A t \in hooked["veh"] : Guarded(t)

(* The handler that sets the guards comes before the other.                *)
VehFirst == Registered("veh") /\ Registered("int3") => Head(chain) = "veh"

(* What holds as long as hooks are changed as Quiet says.                  *)
Shape == JobInv /\ HookInv /\ ChainInv /\ PatchedInv /\ PageInv /\ FlightInv
QuietInv == ~dead /\ Quiet /\ Shape /\ (ordered => Ordered /\ VehFirst /\ ArmedInv)

IInv == TypeOK /\ ordered \in BOOLEAN /\ quiet \in BOOLEAN /\ (quiet => QuietInv)

-----------------------------------------------------------------------------
(* What is in a list.                                                      *)
Has(s, x) == \E i \in DOMAIN s : s[i] = x

(* The lists of statements are short.                                      *)
LEMMA HasTuple ==
  /\ \A x : ~Has(<<>>, x)
  /\ \A a, x : Has(<<a>>, x) <=> x = a
  /\ \A a, b, x : Has(<<a, b>>, x) <=> x = a \/ x = b
  /\ \A a, b, c, x : Has(<<a, b, c>>, x) <=> x = a \/ x = b \/ x = c
  /\ \A a, b, c, d, x : Has(<<a, b, c, d>>, x) <=> x = a \/ x = b \/ x = c \/ x = d
  /\ \A a, b, c, d, e, x :
       Has(<<a, b, c, d, e>>, x) <=> x = a \/ x = b \/ x = c \/ x = d \/ x = e
<1>0. \A x : ~Has(<<>>, x)
  BY DEF Has
<1>1. \A a, x : Has(<<a>>, x) <=> x = a
  BY DEF Has
<1>2. \A a, b, x : Has(<<a, b>>, x) <=> x = a \/ x = b
  BY DEF Has
<1>3. \A a, b, c, x : Has(<<a, b, c>>, x) <=> x = a \/ x = b \/ x = c
  BY DEF Has
<1>4. \A a, b, c, d, x : Has(<<a, b, c, d>>, x) <=> x = a \/ x = b \/ x = c \/ x = d
  BY DEF Has
<1>5. \A a, b, c, d, e, x :
        Has(<<a, b, c, d, e>>, x) <=> x = a \/ x = b \/ x = c \/ x = d \/ x = e
  BY DEF Has
<1> QED
  BY <1>0, <1>1, <1>2, <1>3, <1>4, <1>5

(* Their heads.                                                            *)
LEMMA TailTuple ==
  /\ \A a : Head(<<a>>) = a
  /\ \A a, b : Head(<<a, b>>) = a
  /\ \A a, b, c : Head(<<a, b, c>>) = a
  /\ \A a, b, c, d : Head(<<a, b, c, d>>) = a
  /\ \A a, b, c, d, e : Head(<<a, b, c, d, e>>) = a
OBVIOUS

(* A list loses its head, and goes on in the order of the code.            *)
Follows(s) ==
  /\ s # <<>> /\ Has(s, Head(s))
  /\ \A x : Has(Tail(s), x) <=> Has(s, x) /\ x # Head(s)
  /\ Has(s, "guard") => \A x : Has(s, x) => x \in {"add", "guard"}
  /\ Has(s, "unguard") => \A x : Has(s, x) => x \in {"remove", "unguard"}
  /\ Has(s, "read") => ~Has(s, "step")
  /\ Has(s, "read") \/ Has(s, "step") => Has(s, "protect") /\ Head(s) # "protect"
  /\ Has(s, "protect") => Has(s, "write") /\ Head(s) # "write"
  /\ Has(s, "write") => Has(s, "restore") /\ Head(s) # "restore"
  /\ Has(s, "add") => ~Has(s, "remove")
  /\ Head(s) \in {"add", "remove"} => ~Has(s, "restore")

(* So do those of page guards ...                                          *)
LEMMA VehFollows ==
  ASSUME NEW s \in VehScripts
  PROVE  /\ Follows(s) /\ Tail(s) \in {<<>>} \cup VehScripts
         /\ \A x : Has(s, x) => x \in {"add", "guard", "remove", "unguard"}
<1>1. CASE s = <<"add", "guard">>
  <2>0. PICK r : r = <<"guard">>
    OBVIOUS
  <2>1. Head(s) = "add" /\ Tail(s) = r /\ s # <<>>
    BY <1>1, <2>0
  <2>2. \A x : Has(s, x) <=> x = "add" \/ x = "guard"
    BY <1>1, HasTuple
  <2>3. \A x : Has(r, x) <=> x = "guard"
    BY <2>0, HasTuple
  <2> QED
    BY <2>0, <2>1, <2>2, <2>3 DEF Follows, VehScripts
<1>2. CASE s = <<"guard">>
  <2>0. PICK r : r = <<>>
    OBVIOUS
  <2>1. Head(s) = "guard" /\ Tail(s) = r /\ s # <<>>
    BY <1>2, <2>0
  <2>2. \A x : Has(s, x) <=> x = "guard"
    BY <1>2, HasTuple
  <2>3. \A x : Has(r, x) <=> FALSE
    BY <2>0, HasTuple
  <2> QED
    BY <2>0, <2>1, <2>2, <2>3 DEF Follows, VehScripts
<1>3. CASE s = <<"remove", "unguard">>
  <2>0. PICK r : r = <<"unguard">>
    OBVIOUS
  <2>1. Head(s) = "remove" /\ Tail(s) = r /\ s # <<>>
    BY <1>3, <2>0
  <2>2. \A x : Has(s, x) <=> x = "remove" \/ x = "unguard"
    BY <1>3, HasTuple
  <2>3. \A x : Has(r, x) <=> x = "unguard"
    BY <2>0, HasTuple
  <2> QED
    BY <2>0, <2>1, <2>2, <2>3 DEF Follows, VehScripts
<1>4. CASE s = <<"unguard">>
  <2>0. PICK r : r = <<>>
    OBVIOUS
  <2>1. Head(s) = "unguard" /\ Tail(s) = r /\ s # <<>>
    BY <1>4, <2>0
  <2>2. \A x : Has(s, x) <=> x = "unguard"
    BY <1>4, HasTuple
  <2>3. \A x : Has(r, x) <=> FALSE
    BY <2>0, HasTuple
  <2> QED
    BY <2>0, <2>1, <2>2, <2>3 DEF Follows, VehScripts
<1> QED
  BY <1>1, <1>2, <1>3, <1>4 DEF VehScripts

(* ... and those of breakpoints.                                           *)
LEMMA Int3Follows ==
  ASSUME NEW s \in Int3Scripts
  PROVE  Follows(s) /\ Tail(s) \in {<<>>} \cup Int3Scripts /\ ~Has(s, "guard") /\ ~Has(s, "unguard")
<1>1. CASE s = <<"read", "protect", "write", "restore", "add">>
  <2>0. PICK r : r = <<"protect", "write", "restore", "add">>
    OBVIOUS
  <2>1. Head(s) = "read" /\ Tail(s) = r /\ s # <<>>
    BY <1>1, <2>0
  <2>2. \A x : Has(s, x) <=>
                x = "read" \/ x = "protect" \/ x = "write" \/ x = "restore" \/ x = "add"
    BY <1>1, HasTuple
  <2>3. \A x : Has(r, x) <=> x = "protect" \/ x = "write" \/ x = "restore" \/ x = "add"
    BY <2>0, HasTuple
  <2> QED
    BY <2>0, <2>1, <2>2, <2>3 DEF Follows, Int3Scripts
<1>2. CASE s = <<"read", "protect", "write", "restore">>
  <2>0. PICK r : r = <<"protect", "write", "restore">>
    OBVIOUS
  <2>1. Head(s) = "read" /\ Tail(s) = r /\ s # <<>>
    BY <1>2, <2>0
  <2>2. \A x : Has(s, x) <=> x = "read" \/ x = "protect" \/ x = "write" \/ x = "restore"
    BY <1>2, HasTuple
  <2>3. \A x : Has(r, x) <=> x = "protect" \/ x = "write" \/ x = "restore"
    BY <2>0, HasTuple
  <2> QED
    BY <2>0, <2>1, <2>2, <2>3 DEF Follows, Int3Scripts
<1>3. CASE s = <<"step", "protect", "write", "restore", "add">>
  <2>0. PICK r : r = <<"protect", "write", "restore", "add">>
    OBVIOUS
  <2>1. Head(s) = "step" /\ Tail(s) = r /\ s # <<>>
    BY <1>3, <2>0
  <2>2. \A x : Has(s, x) <=>
                x = "step" \/ x = "protect" \/ x = "write" \/ x = "restore" \/ x = "add"
    BY <1>3, HasTuple
  <2>3. \A x : Has(r, x) <=> x = "protect" \/ x = "write" \/ x = "restore" \/ x = "add"
    BY <2>0, HasTuple
  <2> QED
    BY <2>0, <2>1, <2>2, <2>3 DEF Follows, Int3Scripts
<1>4. CASE s = <<"step", "protect", "write", "restore">>
  <2>0. PICK r : r = <<"protect", "write", "restore">>
    OBVIOUS
  <2>1. Head(s) = "step" /\ Tail(s) = r /\ s # <<>>
    BY <1>4, <2>0
  <2>2. \A x : Has(s, x) <=> x = "step" \/ x = "protect" \/ x = "write" \/ x = "restore"
    BY <1>4, HasTuple
  <2>3. \A x : Has(r, x) <=> x = "protect" \/ x = "write" \/ x = "restore"
    BY <2>0, HasTuple
  <2> QED
    BY <2>0, <2>1, <2>2, <2>3 DEF Follows, Int3Scripts
<1>5. CASE s = <<"protect", "write", "restore", "add">>
  <2>0. PICK r : r = <<"write", "restore", "add">>
    OBVIOUS
  <2>1. Head(s) = "protect" /\ Tail(s) = r /\ s # <<>>
    BY <1>5, <2>0
  <2>2. \A x : Has(s, x) <=> x = "protect" \/ x = "write" \/ x = "restore" \/ x = "add"
    BY <1>5, HasTuple
  <2>3. \A x : Has(r, x) <=> x = "write" \/ x = "restore" \/ x = "add"
    BY <2>0, HasTuple
  <2> QED
    BY <2>0, <2>1, <2>2, <2>3 DEF Follows, Int3Scripts
<1>6. CASE s = <<"write", "restore", "add">>
  <2>0. PICK r : r = <<"restore", "add">>
    OBVIOUS
  <2>1. Head(s) = "write" /\ Tail(s) = r /\ s # <<>>
    BY <1>6, <2>0
  <2>2. \A x : Has(s, x) <=> x = "write" \/ x = "restore" \/ x = "add"
    BY <1>6, HasTuple
  <2>3. \A x : Has(r, x) <=> x = "restore" \/ x = "add"
    BY <2>0, HasTuple
  <2> QED
    BY <2>0, <2>1, <2>2, <2>3 DEF Follows, Int3Scripts
<1>7. CASE s = <<"restore", "add">>
  <2>0. PICK r : r = <<"add">>
    OBVIOUS
  <2>1. Head(s) = "restore" /\ Tail(s) = r /\ s # <<>>
    BY <1>7, <2>0
  <2>2. \A x : Has(s, x) <=> x = "restore" \/ x = "add"
    BY <1>7, HasTuple
  <2>3. \A x : Has(r, x) <=> x = "add"
    BY <2>0, HasTuple
  <2> QED
    BY <2>0, <2>1, <2>2, <2>3 DEF Follows, Int3Scripts
<1>8. CASE s = <<"add">>
  <2>0. PICK r : r = <<>>
    OBVIOUS
  <2>1. Head(s) = "add" /\ Tail(s) = r /\ s # <<>>
    BY <1>8, <2>0
  <2>2. \A x : Has(s, x) <=> x = "add"
    BY <1>8, HasTuple
  <2>3. \A x : Has(r, x) <=> FALSE
    BY <2>0, HasTuple
  <2> QED
    BY <2>0, <2>1, <2>2, <2>3 DEF Follows, Int3Scripts
<1>9. CASE s = <<"protect", "write", "restore", "remove">>
  <2>0. PICK r : r = <<"write", "restore", "remove">>
    OBVIOUS
  <2>1. Head(s) = "protect" /\ Tail(s) = r /\ s # <<>>
    BY <1>9, <2>0
  <2>2. \A x : Has(s, x) <=> x = "protect" \/ x = "write" \/ x = "restore" \/ x = "remove"
    BY <1>9, HasTuple
  <2>3. \A x : Has(r, x) <=> x = "write" \/ x = "restore" \/ x = "remove"
    BY <2>0, HasTuple
  <2> QED
    BY <2>0, <2>1, <2>2, <2>3 DEF Follows, Int3Scripts
<1>10. CASE s = <<"write", "restore", "remove">>
  <2>0. PICK r : r = <<"restore", "remove">>
    OBVIOUS
  <2>1. Head(s) = "write" /\ Tail(s) = r /\ s # <<>>
    BY <1>10, <2>0
  <2>2. \A x : Has(s, x) <=> x = "write" \/ x = "restore" \/ x = "remove"
    BY <1>10, HasTuple
  <2>3. \A x : Has(r, x) <=> x = "restore" \/ x = "remove"
    BY <2>0, HasTuple
  <2> QED
    BY <2>0, <2>1, <2>2, <2>3 DEF Follows, Int3Scripts
<1>11. CASE s = <<"restore", "remove">>
  <2>0. PICK r : r = <<"remove">>
    OBVIOUS
  <2>1. Head(s) = "restore" /\ Tail(s) = r /\ s # <<>>
    BY <1>11, <2>0
  <2>2. \A x : Has(s, x) <=> x = "restore" \/ x = "remove"
    BY <1>11, HasTuple
  <2>3. \A x : Has(r, x) <=> x = "remove"
    BY <2>0, HasTuple
  <2> QED
    BY <2>0, <2>1, <2>2, <2>3 DEF Follows, Int3Scripts
<1>12. CASE s = <<"remove">>
  <2>0. PICK r : r = <<>>
    OBVIOUS
  <2>1. Head(s) = "remove" /\ Tail(s) = r /\ s # <<>>
    BY <1>12, <2>0
  <2>2. \A x : Has(s, x) <=> x = "remove"
    BY <1>12, HasTuple
  <2>3. \A x : Has(r, x) <=> FALSE
    BY <2>0, HasTuple
  <2> QED
    BY <2>0, <2>1, <2>2, <2>3 DEF Follows, Int3Scripts
<1>13. CASE s = <<"protect", "write", "restore">>
  <2>0. PICK r : r = <<"write", "restore">>
    OBVIOUS
  <2>1. Head(s) = "protect" /\ Tail(s) = r /\ s # <<>>
    BY <1>13, <2>0
  <2>2. \A x : Has(s, x) <=> x = "protect" \/ x = "write" \/ x = "restore"
    BY <1>13, HasTuple
  <2>3. \A x : Has(r, x) <=> x = "write" \/ x = "restore"
    BY <2>0, HasTuple
  <2> QED
    BY <2>0, <2>1, <2>2, <2>3 DEF Follows, Int3Scripts
<1>14. CASE s = <<"write", "restore">>
  <2>0. PICK r : r = <<"restore">>
    OBVIOUS
  <2>1. Head(s) = "write" /\ Tail(s) = r /\ s # <<>>
    BY <1>14, <2>0
  <2>2. \A x : Has(s, x) <=> x = "write" \/ x = "restore"
    BY <1>14, HasTuple
  <2>3. \A x : Has(r, x) <=> x = "restore"
    BY <2>0, HasTuple
  <2> QED
    BY <2>0, <2>1, <2>2, <2>3 DEF Follows, Int3Scripts
<1>15. CASE s = <<"restore">>
  <2>0. PICK r : r = <<>>
    OBVIOUS
  <2>1. Head(s) = "restore" /\ Tail(s) = r /\ s # <<>>
    BY <1>15, <2>0
  <2>2. \A x : Has(s, x) <=> x = "restore"
    BY <1>15, HasTuple
  <2>3. \A x : Has(r, x) <=> FALSE
    BY <2>0, HasTuple
  <2> QED
    BY <2>0, <2>1, <2>2, <2>3 DEF Follows, Int3Scripts
<1> QED
  BY <1>1, <1>2, <1>3, <1>4, <1>5, <1>6, <1>7, <1>8, <1>9, <1>10, <1>11, <1>12,
     <1>13, <1>14, <1>15 DEF Int3Scripts

-----------------------------------------------------------------------------
(* What a call in progress is, and what it has still to do.                *)
LEMMA CallFacts ==
  ASSUME JobInv
  PROVE  /\ job = NULL => todo = <<>> /\ \A x : ~Pending(x)
         /\ job # NULL => /\ todo # <<>> /\ job \in Calls /\ job.kind \in Kinds
                          /\ job.target \in Targets /\ Page \in Pages
         /\ Pending("guard") => /\ job.kind = "veh" /\ ~Pending("unguard")
                                /\ ~Pending("restore") /\ ~Pending("remove")
         /\ Pending("unguard") => /\ job.kind = "veh" /\ ~Pending("guard")
                                  /\ ~Pending("restore") /\ ~Pending("add")
         /\ Pending("restore") => job.kind = "int3" /\ ~Pending("guard") /\ ~Pending("unguard")
         /\ Pending("read") => ~Pending("step")
         /\ Pending("read") \/ Pending("step") => Pending("protect")
         /\ Pending("protect") => Pending("write")
         /\ Pending("write") => Pending("restore")
         /\ Pending("add") => ~Pending("remove") /\ (job.kind = "veh" => Pending("guard"))
<1>1. \A x : Pending(x) <=> Has(todo, x)
  BY DEF Pending, Has
<1>2. CASE job = NULL /\ todo = <<>>
  BY <1>1, <1>2, HasTuple
<1>3. CASE job # NULL /\ job \in Calls /\ todo \in VehScripts /\ job.kind = "veh"
  <2>1. Follows(todo) /\ \A x : Has(todo, x) => x \in {"add", "guard", "remove", "unguard"}
    BY <1>3, VehFollows
  <2>2. job.kind \in Kinds /\ job.target \in Targets /\ Page \in Pages
    BY <1>3 DEF Calls, Page, Pages
  <2>3. Has(todo, "add") => Has(todo, "guard")
    BY <1>3, HasTuple DEF VehScripts
  <2> QED
    BY <1>1, <1>3, <2>1, <2>2, <2>3 DEF Follows
<1>4. CASE job # NULL /\ job \in Calls /\ todo \in Int3Scripts /\ job.kind = "int3"
  <2>1. Follows(todo) /\ ~Has(todo, "guard") /\ ~Has(todo, "unguard")
    BY <1>4, Int3Follows
  <2>2. job.kind \in Kinds /\ job.target \in Targets /\ Page \in Pages
    BY <1>4 DEF Calls, Page, Pages
  <2> QED
    BY <1>1, <1>4, <2>1, <2>2 DEF Follows
<1> QED
  BY <1>2, <1>3, <1>4, PagesAssumption DEF JobInv, PagesAssumption, Calls, Kinds

(* A statement is done; the others are left.                               *)
LEMMA Advance ==
  ASSUME JobInv, NEW x, At(x)
  PROVE  /\ job # NULL /\ Pending(x) /\ JobInv'
         /\ \A y : Pending(y)' <=> Pending(y) /\ y # x
         /\ job' = job \/ (job' = NULL /\ \A y : ~Pending(y)')
         /\ x = "protect" => ~Pending("read") /\ ~Pending("step")
         /\ x = "write" => ~Pending("protect")
         /\ x = "restore" => ~Pending("write") /\ ~Pending("protect")
         /\ x \in {"add", "remove"} => ~Pending("restore")
<1>1. PICK r : r = Tail(todo) /\ todo' = r
  BY DEF At
<1>2. (\A y : Pending(y) <=> Has(todo, y)) /\ \A y : Pending(y)' <=> Has(r, y)
  BY <1>1 DEF Pending, Has
<1>3. todo # <<>> /\ Head(todo) = x /\ job' = IF r = <<>> THEN NULL ELSE job
  BY <1>1 DEF At
<1>4. job # NULL /\ job \in Calls
  BY <1>3, PagesAssumption DEF JobInv, PagesAssumption
<1>5. Follows(todo)
  BY <1>3, VehFollows, Int3Follows DEF JobInv
<1>6. r \in {<<>>} \cup IF job.kind = "veh" THEN VehScripts ELSE Int3Scripts
  BY <1>1, <1>3, VehFollows, Int3Follows DEF JobInv
<1>7. JobInv'
  BY <1>1, <1>3, <1>4, <1>6 DEF JobInv
<1>8. Pending(x) /\ \A y : Pending(y)' <=> Pending(y) /\ y # x
  BY <1>1, <1>2, <1>3, <1>5 DEF Follows
<1>9. job' = job \/ (job' = NULL /\ \A y : ~Pending(y)')
  BY <1>2, <1>3, HasTuple
<1>10. /\ x = "protect" => ~Pending("read") /\ ~Pending("step")
       /\ x = "write" => ~Pending("protect")
       /\ x = "restore" => ~Pending("write") /\ ~Pending("protect")
       /\ x \in {"add", "remove"} => ~Pending("restore")
  BY <1>2, <1>3, <1>5 DEF Follows
<1> QED
  BY <1>4, <1>7, <1>8, <1>9, <1>10

(* The read traps: its single step is left to be taken.                    *)
LEMMA Trapped ==
  ASSUME JobInv, todo # <<>>, Head(todo) = "read", todo' = [todo EXCEPT ![1] = "step"], job' = job
  PROVE  /\ JobInv' /\ job # NULL /\ Pending("read") /\ Pending("protect")
         /\ \A y : Pending(y)' <=> (Pending(y) /\ y # "read") \/ y = "step"
<1>1. PICK s : s = todo'
  OBVIOUS
<1>2. (\A y : Pending(y) <=> Has(todo, y)) /\ \A y : Pending(y)' <=> Has(s, y)
  BY <1>1 DEF Pending, Has
<1>3. job \in Calls /\ todo \in VehScripts \cup Int3Scripts
  BY DEF JobInv
<1>4. CASE todo = <<"read", "protect", "write", "restore", "add">>
  <2>1. s = <<"step", "protect", "write", "restore", "add">>
    BY <1>1, <1>4
  <2>2. s \in Int3Scripts /\ todo \notin VehScripts
    BY <2>1, <1>4 DEF Int3Scripts, VehScripts
  <2>3. \A y : Has(s, y) <=>
                y = "step" \/ y = "protect" \/ y = "write" \/ y = "restore" \/ y = "add"
    BY <2>1, HasTuple
  <2>4. \A y : Has(todo, y) <=>
                y = "read" \/ y = "protect" \/ y = "write" \/ y = "restore" \/ y = "add"
    BY <1>4, HasTuple
  <2> QED
    BY <1>1, <1>2, <1>3, <2>2, <2>3, <2>4, PagesAssumption DEF JobInv,
       PagesAssumption
<1>5. CASE todo = <<"read", "protect", "write", "restore">>
  <2>1. s = <<"step", "protect", "write", "restore">>
    BY <1>1, <1>5
  <2>2. s \in Int3Scripts /\ todo \notin VehScripts
    BY <2>1, <1>5 DEF Int3Scripts, VehScripts
  <2>3. \A y : Has(s, y) <=> y = "step" \/ y = "protect" \/ y = "write" \/ y = "restore"
    BY <2>1, HasTuple
  <2>4. \A y : Has(todo, y) <=> y = "read" \/ y = "protect" \/ y = "write" \/ y = "restore"
    BY <1>5, HasTuple
  <2> QED
    BY <1>1, <1>2, <1>3, <2>2, <2>3, <2>4, PagesAssumption DEF JobInv,
       PagesAssumption
<1>6. todo \in {<<"read", "protect", "write", "restore", "add">>,
               <<"read", "protect", "write", "restore">>}
  BY <1>3, TailTuple DEF VehScripts, Int3Scripts
<1> QED
  BY <1>4, <1>5, <1>6

(* A call begins.                                                          *)
LEMMA Begun ==
  ASSUME TypeOK, JobInv, NEW k \in Kinds, NEW t \in Targets, NEW T \in SUBSET Targets, NEW s,
         s \in IF k = "veh" THEN VehScripts ELSE Int3Scripts, Begin(k, t, T, s)
  PROVE  /\ job = NULL /\ (\A x : ~Pending(x)) /\ JobInv'
         /\ job' # NULL /\ job'.kind = k /\ job'.target = t /\ Page' = PageOf[t]
         /\ \A x : Pending(x)' <=> Has(s, x)
         /\ hooked'[k] = T /\ (\A j \in Kinds \ {k} : hooked'[j] = hooked[j])
         /\ hooked' \in [Kinds -> SUBSET Targets]
         /\ UNCHANGED <<chain, patched, prot, old, saved, dead>>
<1>1. PICK j : j = [kind |-> k, target |-> t]
  OBVIOUS
<1>2. j.kind = k /\ j.target = t /\ j \in Calls /\ j # NULL
  BY <1>1, PagesAssumption DEF Calls, PagesAssumption
<1>3. job = NULL /\ job' = j /\ hooked' = [hooked EXCEPT ![k] = T] /\ todo' = s
      /\ UNCHANGED <<chain, patched, prot, old, saved, dead>>
  BY <1>1 DEF Begin, memory
<1>4. JobInv'
  BY <1>2, <1>3 DEF JobInv
<1>5. \A x : Pending(x)' <=> Has(s, x)
  BY <1>3 DEF Pending, Has
<1>6. \A x : ~Pending(x)
  BY <1>3, CallFacts
<1>7. /\ hooked'[k] = T /\ (\A l \in Kinds \ {k} : hooked'[l] = hooked[l])
      /\ hooked' \in [Kinds -> SUBSET Targets]
  BY <1>3 DEF TypeOK
<1> QED
  BY <1>2, <1>3, <1>4, <1>5, <1>6, <1>7 DEF Page

-----------------------------------------------------------------------------
(* The list of handlers, its first one, and the handlers there are.        *)
LEMMA ChainFacts ==
  ASSUME TypeOK
  PROVE  /\ chain \in Seq(Kinds) /\ Len(chain) \in Nat /\ DOMAIN chain = 1 .. Len(chain)
         /\ \A i, j \in DOMAIN chain : chain[i] = chain[j] => i = j
         /\ chain # <<>> => Head(chain) \in Kinds /\ Registered(Head(chain))
         /\ \A k : Registered(k) => chain # <<>> /\ k \in Kinds
<1>1. /\ chain \in Seq(Kinds) /\ Len(chain) \in Nat /\ DOMAIN chain = 1 .. Len(chain)
      /\ \A i, j \in DOMAIN chain : chain[i] = chain[j] => i = j
  BY DEF TypeOK
<1>2. ASSUME chain # <<>> PROVE Head(chain) \in Kinds /\ Registered(Head(chain))
  <2>1. 1 \in DOMAIN chain /\ Head(chain) = chain[1]
    BY <1>1, <1>2
  <2> QED
    BY <2>1, <1>1 DEF Registered
<1>3. \A k : Registered(k) => chain # <<>> /\ k \in Kinds
  BY <1>1 DEF Registered
<1> QED
  BY <1>1, <1>2, <1>3

(* A handler that is not registered yet is put first ...                   *)
LEMMA Added ==
  ASSUME TypeOK, NEW k \in Kinds, ~Registered(k), chain' = <<k>> \o chain
  PROVE  /\ chain' \in Seq(Kinds) /\ \A i, j \in DOMAIN chain' : chain'[i] = chain'[j] => i = j
         /\ Head(chain') = k /\ chain' # <<>>
         /\ \A l : Registered(l)' <=> Registered(l) \/ l = k
<1>1. PICK c : c = chain'
  OBVIOUS
<1>2. PICK n : n = Len(chain)
  OBVIOUS
<1>3. n \in Nat /\ chain \in Seq(Kinds) /\ DOMAIN chain = 1 .. n
      /\ \A i, j \in 1 .. n : chain[i] = chain[j] => i = j
  BY <1>2, ChainFacts
<1>4. <<k>> \in Seq(Kinds)
  OBVIOUS
<1>5. c \in Seq(Kinds) /\ Len(c) = n + 1 /\ c[1] = k /\ \A i \in 1 .. n : c[i + 1] = chain[i]
  BY <1>1, <1>2, <1>3, <1>4
<1>6. DOMAIN c = 1 .. n + 1 /\ \A i \in 2 .. n + 1 : i - 1 \in 1 .. n /\ c[i] = chain[i - 1]
  BY <1>3, <1>5
<1>7. \A i \in 1 .. n : chain[i] # k
  BY <1>3 DEF Registered
<1>8. ASSUME NEW i \in 1 .. n + 1, NEW j \in 1 .. n + 1, c[i] = c[j] PROVE i = j
  <2>1. CASE i = 1 /\ j = 1
    BY <2>1
  <2>2. CASE i # 1 /\ j # 1
    <3>1. i \in 2 .. n + 1 /\ j \in 2 .. n + 1
      BY <1>3, <2>2
    <3>2. i - 1 = j - 1
      BY <3>1, <1>3, <1>6, <1>8
    <3> QED
      BY <3>1, <3>2
  <2>3. CASE i = 1 /\ j # 1
    <3>1. j \in 2 .. n + 1
      BY <1>3, <2>3
    <3> QED
      BY <3>1, <1>5, <1>6, <1>7, <1>8, <2>3
  <2>4. CASE i # 1 /\ j = 1
    <3>1. i \in 2 .. n + 1
      BY <1>3, <2>4
    <3> QED
      BY <3>1, <1>5, <1>6, <1>7, <1>8, <2>4
  <2> QED
    BY <2>1, <2>2, <2>3, <2>4
<1>9. ASSUME NEW l PROVE Has(c, l) <=> Has(chain, l) \/ l = k
  <2>1. ASSUME Has(c, l) PROVE Has(chain, l) \/ l = k
    <3>1. PICK i \in 1 .. n + 1 : c[i] = l
      BY <2>1, <1>6 DEF Has
    <3>2. CASE i = 1
      BY <3>1, <3>2, <1>5
    <3>3. CASE i # 1
      <4>1. i \in 2 .. n + 1
        BY <1>3, <3>3
      <4> QED
        BY <4>1, <3>1, <1>3, <1>6 DEF Has
    <3> QED
      BY <3>2, <3>3
  <2>2. ASSUME Has(chain, l) PROVE Has(c, l)
    <3>1. PICK i \in 1 .. n : chain[i] = l
      BY <2>2, <1>3 DEF Has
    <3>2. i + 1 \in 1 .. n + 1 /\ c[i + 1] = l
      BY <3>1, <1>3, <1>5
    <3> QED
      BY <3>2, <1>6 DEF Has
  <2>3. ASSUME l = k PROVE Has(c, l)
    BY SMTT(30), <2>3, <1>3, <1>5, <1>6 DEF Has
  <2> QED
    BY <2>1, <2>2, <2>3
<1>10. \A l : (Registered(l) <=> Has(chain, l)) /\ (Registered(l)' <=> Has(c, l))
  BY <1>1 DEF Registered, Has
<1>11. Head(c) = k /\ c # <<>>
  BY <1>3, <1>5
<1> QED
  BY <1>1, <1>5, <1>6, <1>8, <1>9, <1>10, <1>11

(* ... and one that is removed is not there any more.                      *)
LEMMA Removed ==
  ASSUME TypeOK, NEW k, NEW i \in DOMAIN chain, chain[i] = k,
         chain' = [j \in 1 .. Len(chain) - 1 |-> chain[IF j < i THEN j ELSE j + 1]]
  PROVE  /\ chain' \in Seq(Kinds) /\ \A a, b \in DOMAIN chain' : chain'[a] = chain'[b] => a = b
         /\ \A l : Registered(l)' <=> Registered(l) /\ l # k
<1>1. PICK c : c = chain'
  OBVIOUS
<1>2. PICK n : n = Len(chain) - 1
  OBVIOUS
<1>3. /\ n \in Nat /\ Len(chain) = n + 1 /\ chain \in Seq(Kinds) /\ DOMAIN chain = 1 .. n + 1
      /\ i \in 1 .. n + 1
      /\ \A a, b \in 1 .. n + 1 : chain[a] = chain[b] => a = b
  <2>1. Len(chain) \in Nat \ {0}
    BY ChainFacts
  <2>2. n \in Nat /\ Len(chain) = n + 1
    BY <2>1, <1>2
  <2> QED
    BY <2>2, ChainFacts
<1>4. \A j \in 1 .. n : c[j] = chain[IF j < i THEN j ELSE j + 1]
  BY <1>1, <1>2
<1>5. DOMAIN c = 1 .. n /\ \A j \in 1 .. n : (IF j < i THEN j ELSE j + 1) \in 1 .. n + 1
  BY <1>1, <1>2, <1>3
<1>6. c \in Seq(Kinds)
  BY <1>1, <1>2, <1>3, <1>5
<1>7. ASSUME NEW a \in 1 .. n, NEW b \in 1 .. n, c[a] = c[b] PROVE a = b
  <2>1. (IF a < i THEN a ELSE a + 1) = (IF b < i THEN b ELSE b + 1)
    BY <1>3, <1>4, <1>5, <1>7
  <2> QED
    BY <2>1, <1>3
<1>8. ASSUME NEW l PROVE Has(c, l) <=> Has(chain, l) /\ l # k
  <2>1. ASSUME Has(c, l) PROVE Has(chain, l) /\ l # k
    <3>1. PICK a \in 1 .. n : c[a] = l
      BY <2>1, <1>5 DEF Has
    <3>2. PICK b \in 1 .. n + 1 : b = (IF a < i THEN a ELSE a + 1) /\ b # i
      BY <1>3, <1>5
    <3>3. chain[b] = l
      BY <3>1, <3>2, <1>4
    <3> QED
      BY <3>2, <3>3, <1>3 DEF Has
  <2>2. ASSUME Has(chain, l), l # k PROVE Has(c, l)
    <3>1. PICK a \in 1 .. n + 1 : chain[a] = l /\ a # i
      BY <2>2, <1>3 DEF Has
    <3>2. CASE a < i
      <4>1. a \in 1 .. n /\ c[a] = l
        BY <3>1, <3>2, <1>3, <1>4
      <4> QED
        BY <4>1, <1>5 DEF Has
    <3>3. CASE a > i
      <4>1. a - 1 \in 1 .. n /\ ~(a - 1 < i) /\ a - 1 + 1 = a
        BY <3>1, <3>3, <1>3
      <4>2. c[a - 1] = l
        BY <4>1, <3>1, <1>4
      <4> QED
        BY <4>1, <4>2, <1>5 DEF Has
    <3> QED
      BY <3>1, <3>2, <3>3, <1>3
  <2> QED
    BY <2>1, <2>2
<1>9. \A l : (Registered(l) <=> Has(chain, l)) /\ (Registered(l)' <=> Has(c, l))
  BY <1>1 DEF Registered, Has
<1>10. \A l : Registered(l)' <=> Registered(l) /\ l # k
  BY <1>8, <1>9
<1>11. \A a, b \in DOMAIN c : c[a] = c[b] => a = b
  BY <1>5, <1>7
<1> QED
  BY <1>1, <1>6, <1>10, <1>11

-----------------------------------------------------------------------------
(* While a statement is pending that needs the handlers, or writes to a    *)
(* page with a hook, no exception is in progress ...                       *)
LEMMA Flying ==
  ASSUME Quiet, job # NULL, NEW p \in Callers, InFlight(p)
  PROVE  /\ ~Pending("guard") /\ ~Pending("remove") /\ (job.kind = "int3" => ~HookOn(Page))
         /\ Pending("unguard") => hooked["veh"] # {}
         /\ Pending("add") => job.kind # "int3"
BY DEF Quiet, FirstOrLast, HookOn

(* ... and no thread is on the page.                                       *)
LEMMA Landed ==
  ASSUME Quiet, job # NULL, NEW p \in Callers, at[p].in \in {"entry", "body"}
  PROVE  /\ ~Pending("remove") /\ (job.kind = "int3" /\ HookOn(Page) => PageOf[at[p].of] # Page)
         /\ Pending("unguard") => hooked["veh"] # {}
         /\ Pending("add") => job.kind # "int3"
BY DEF Quiet, FirstOrLast, HookOn

(* The same of the next state.                                             *)
LEMMA FlyingNext ==
  ASSUME Quiet', job' # NULL, NEW p \in Callers, InFlight(p)'
  PROVE  /\ ~Pending("guard")' /\ ~Pending("remove")' /\ (job'.kind = "int3" => ~HookOn(Page)')
         /\ Pending("unguard")' => hooked'["veh"] # {}
         /\ Pending("add")' => job'.kind # "int3"
BY DEF Quiet, FirstOrLast, HookOn

(* The handler of page guards is there for a thread that meets one or is   *)
(* about to handle an exception.                                           *)
LEMMA VehThere ==
  ASSUME TypeOK, Quiet, Shape, NEW p \in Callers, hooked["veh"] # {},
         InFlight(p) \/ (at[p].in \in {"entry", "body"} /\ ~Pending("guard"))
  PROVE  Registered("veh")
<1>1. job # NULL /\ InFlight(p) => ~Pending("guard")
  BY Flying
<1>2. job = NULL => ~Pending("guard")
  BY CallFacts DEF Shape
<1>3. ~Pending("guard")
  BY <1>1, <1>2
<1>4. ~(Pending("add") /\ job.kind = "veh")
  BY <1>3, CallFacts DEF Shape
<1> QED
  BY <1>4 DEF Shape, ChainInv, Kinds

(* In order, a single step goes to it.                                     *)
LEMMA First ==
  ASSUME TypeOK, VehFirst, Registered("veh")
  PROVE  chain # <<>> /\ Head(chain) = "veh"
<1>1. chain # <<>> /\ Head(chain) \in Kinds /\ Registered(Head(chain))
  BY ChainFacts
<1> QED
  BY <1>1 DEF VehFirst, Kinds

-----------------------------------------------------------------------------
(* A statement that leaves the map alone has done with it what it does ... *)
LEMMA HookKept ==
  ASSUME JobInv, HookInv, NEW x, At(x), UNCHANGED hooked
  PROVE  HookInv'
<1>1. /\ \A y : Pending(y)' <=> Pending(y) /\ y # x
      /\ job' = job \/ (job' = NULL /\ \A y : ~Pending(y)')
      /\ x \in {"add", "remove"} => ~Pending("restore")
  BY Advance
<1>2. Pending("write") => Pending("restore")
  BY CallFacts
<1>3. CASE job' = NULL /\ \A y : ~Pending(y)'
  BY <1>3 DEF HookInv
<1>4. CASE job' = job
  <2>1. Page' = Page
    BY <1>4 DEF Page
  <2>2. /\ Pending("guard")' => job'.target \in hooked'["veh"]
        /\ Pending("add")' => hooked'[job'.kind] = {job'.target}
        /\ Pending("remove")' => hooked'[job'.kind] = {}
    BY <1>1, <1>4 DEF HookInv
  <2>3. Pending("unguard")' => \A t \in hooked'["veh"] : PageOf[t] # Page'
    BY <1>1, <2>1 DEF HookInv
  <2>4. Pending("write")' /\ job'.target \notin hooked'["int3"] =>
          hooked'["int3"] # {} \/ Pending("remove")'
    BY <1>1, <1>2, <1>4 DEF HookInv
  <2> QED
    BY <2>2, <2>3, <2>4 DEF HookInv
<1> QED
  BY <1>1, <1>3, <1>4

(* ... one that leaves the list of handlers alone keeps them ...           *)
LEMMA ChainKept ==
  ASSUME JobInv, ChainInv, NEW x, At(x), x \notin {"add", "remove"}, UNCHANGED <<hooked, chain>>
  PROVE  ChainInv'
<1>1. /\ \A y : Pending(y)' <=> Pending(y) /\ y # x
      /\ job' = job \/ (job' = NULL /\ \A y : ~Pending(y)')
  BY Advance
<1>2. \A k \in Kinds : Registered(k)' <=> Registered(k)
  BY DEF Registered
<1>3. (Pending("add")' <=> Pending("add")) /\ (Pending("remove")' <=> Pending("remove"))
  BY <1>1
<1>4. CASE job' = job
  BY <1>2, <1>3, <1>4 DEF ChainInv
<1>5. CASE job' = NULL /\ \A y : ~Pending(y)'
  BY <1>2, <1>3, <1>5 DEF ChainInv
<1> QED
  BY <1>1, <1>4, <1>5

(* ... one that does not write leaves INT 3 where it is ...                *)
LEMMA PatchedKept ==
  ASSUME JobInv, PatchedInv, NEW x, At(x), x # "write", UNCHANGED <<hooked, patched>>
  PROVE  PatchedInv'
<1>1. /\ \A y : Pending(y)' <=> Pending(y) /\ y # x
      /\ job' = job \/ (job' = NULL /\ \A y : ~Pending(y)')
  BY Advance
<1>2. \A t \in Targets : Writing(t)' <=> Writing(t)
  BY <1>1 DEF Writing
<1> QED
  BY <1>2 DEF PatchedInv

(* ... one that protects no page leaves them as they are ...               *)
LEMMA PageKept ==
  ASSUME JobInv, PageInv, NEW x, At(x), x \notin {"protect", "restore", "guard", "unguard"},
         UNCHANGED <<hooked, prot, old, saved>>,
         Registered("veh") => Registered("veh")' \/ ~Pending("step")
  PROVE  PageInv' /\ \A g : Opened(g)' <=> Opened(g)
<1>1. /\ \A y : Pending(y)' <=> Pending(y) /\ y # x
      /\ job' = job \/ (job' = NULL /\ \A y : ~Pending(y)')
  BY Advance
<1>2. /\ (Pending("guard")' <=> Pending("guard")) /\ (Pending("unguard")' <=> Pending("unguard"))
      /\ (Pending("restore")' <=> Pending("restore"))
      /\ (Pending("protect")' <=> Pending("protect")) /\ (Pending("step")' => Pending("step"))
  BY <1>1
<1>3. Page' = Page \/ (~Pending("guard") /\ ~Pending("unguard") /\ ~Pending("restore"))
  BY <1>1, <1>2 DEF Page
<1>4. \A g : Opened(g)' <=> Opened(g)
  BY <1>2, <1>3 DEF Opened
<1>5. \A g : HookOn(g)' <=> HookOn(g)
  BY DEF HookOn
<1>6. \A g \in Pages : prot'[g] = "GUARD" =>
        \/ HookOn(g)' /\ ~(Pending("guard")' /\ g = Page')
        \/ Pending("unguard")' /\ g = Page'
  BY <1>2, <1>3, <1>5 DEF PageInv
<1>7. Pending("restore")' /\ ~Pending("protect")' =>
        saved' = "RX" \/ (saved' = "GUARD" /\ HookOn(Page)')
  BY <1>2, <1>3, <1>5 DEF PageInv, HookOn
<1>8. Pending("step")' => Registered("veh")'
  BY <1>2 DEF PageInv
<1>9. (\A g \in Pages : prot'[g] = "RWX" <=> Opened(g)') /\ \A t \in Targets : old'[t] = "RX"
  BY <1>4 DEF PageInv
<1> QED
  BY <1>4, <1>6, <1>7, <1>8, <1>9 DEF PageInv

(* ... and the hooks' pages guarded.                                       *)
LEMMA ArmedKept ==
  ASSUME JobInv, ArmedInv, NEW x, At(x), x \notin {"guard", "step"},
         UNCHANGED <<hooked, prot, saved, cpu>>, \A g : Opened(g)' <=> Opened(g)
  PROVE  ArmedInv'
<1>1. /\ \A y : Pending(y)' <=> Pending(y) /\ y # x
      /\ job' = job \/ (job' = NULL /\ \A y : ~Pending(y)')
  BY Advance
<1>2. (Pending("guard")' <=> Pending("guard")) /\ (Pending("step")' <=> Pending("step"))
  BY <1>1
<1>3. \A p \in Callers : InFlight(p)' <=> InFlight(p)
  BY DEF InFlight, cpu
<1>4. job' = job \/ ~Pending("guard")
  BY <1>1, <1>2
<1>5. ASSUME NEW t \in hooked["veh"], Guarded(t) PROVE Guarded(t)'
  BY <1>2, <1>3, <1>4, <1>5 DEF Guarded
<1> QED
  BY <1>5 DEF ArmedInv

(* Threads that are where they were are fine with the same handlers.       *)
LEMMA FlightKept ==
  ASSUME FlightInv, UNCHANGED <<hooked, chain, cpu>>
  PROVE  FlightInv'
<1>1. \A k : Registered(k)' <=> Registered(k)
  BY DEF Registered
<1>2. \A p \in Callers : InFlight(p)' <=> InFlight(p)
  BY DEF InFlight, cpu
<1> QED
  BY <1>1, <1>2 DEF FlightInv, cpu

(* A thread changes nothing of the call in progress, the maps and the code.*)
LEMMA CallerKeeps ==
  ASSUME JobInv, HookInv, ChainInv, PatchedInv, UNCHANGED <<maps, patched, admin>>
  PROVE  /\ JobInv' /\ HookInv' /\ ChainInv' /\ PatchedInv'
         /\ (\A x : Pending(x)' <=> Pending(x)) /\ (\A k : Registered(k)' <=> Registered(k))
         /\ Page' = Page /\ (\A g : Opened(g)' <=> Opened(g)) /\ \A g : HookOn(g)' <=> HookOn(g)
<1>1. UNCHANGED <<hooked, chain, patched, old, job, todo, saved>>
  BY DEF maps, admin
<1>2. (\A x : Pending(x)' <=> Pending(x)) /\ \A k : Registered(k)' <=> Registered(k)
  BY <1>1 DEF Pending, Registered
<1>3. Page' = Page /\ \A g : HookOn(g)' <=> HookOn(g)
  BY <1>1 DEF Page, HookOn
<1>4. \A g : Opened(g)' <=> Opened(g)
  BY <1>2, <1>3 DEF Opened
<1>5. JobInv' /\ HookInv'
  BY <1>1, <1>2, <1>3 DEF JobInv, HookInv
<1>6. ChainInv'
  BY <1>1, <1>2 DEF ChainInv
<1>7. PatchedInv'
  <2>1. \A t \in Targets : Writing(t)' <=> Writing(t)
    BY <1>1, <1>2 DEF Writing
  <2> QED
    BY <1>1, <2>1 DEF PatchedInv
<1> QED
  BY <1>2, <1>3, <1>4, <1>5, <1>6, <1>7

-----------------------------------------------------------------------------
(* What a step does to the invariant, if hooks are still changed as Quiet  *)
(* says.                                                                   *)
Stays == TypeOK' /\ (Quiet' => ~dead' /\ Shape' /\ (VehFirst /\ ArmedInv => ArmedInv'))

(* Enabling a page guard hook is begun: no other is on its page.           *)
LEMMA EnableVehStep ==
  ASSUME TypeOK, QuietInv, NEW t \in Targets, EnableVeh(t), UNCHANGED cpu
  PROVE  Stays
<1> DEFINE T == hooked["veh"] \cup {t}
<1>1. PICK s : /\ s = IF Registered("veh") THEN <<"guard">> ELSE <<"add", "guard">>
               /\ Begin("veh", t, T, s)
  BY DEF EnableVeh
<1>2. s \in VehScripts /\ T \in SUBSET Targets /\ t \notin hooked["veh"]
  BY <1>1 DEF VehScripts, TypeOK, Kinds, EnableVeh
<1>3. JobInv /\ HookInv /\ ChainInv /\ PatchedInv /\ PageInv /\ FlightInv /\ Quiet /\ ~dead
  BY DEF QuietInv, Shape
<1>4. /\ job = NULL /\ (\A x : ~Pending(x)) /\ JobInv'
      /\ job' # NULL /\ job'.kind = "veh" /\ job'.target = t /\ Page' = PageOf[t]
      /\ \A x : Pending(x)' <=> Has(s, x)
      /\ hooked'["veh"] = T /\ hooked'["int3"] = hooked["int3"]
      /\ hooked' \in [Kinds -> SUBSET Targets]
      /\ UNCHANGED <<chain, patched, prot, old, saved, dead>>
  BY <1>1, <1>2, <1>3, Begun DEF Kinds
<1> HIDE DEF T
<1>5. TypeOK'
  BY <1>4 DEF TypeOK, cpu
<1>6. Pending("guard")' /\ (Pending("add")' <=> ~Registered("veh"))
      /\ \A x : Pending(x)' => x \in {"guard", "add"}
  BY <1>1, <1>4, HasTuple
<1>7. Registered("veh") <=> hooked["veh"] # {}
  BY <1>3, <1>4 DEF ChainInv, Kinds
<1>8. \A k : Registered(k)' <=> Registered(k)
  BY <1>4 DEF Registered
<1>9. HookInv'
  BY <1>4, <1>6, <1>7 DEF HookInv, T
<1>10. ChainInv'
  BY <1>3, <1>4, <1>6, <1>7, <1>8 DEF ChainInv, Kinds, T
<1>11. PatchedInv'
  <2>1. \A u \in Targets : ~Writing(u) /\ ~Writing(u)'
    BY <1>4, <1>6 DEF Writing
  <2> QED
    BY <2>1, <1>3, <1>4 DEF PatchedInv
<1>12. ASSUME Quiet' PROVE Shape' /\ (ArmedInv => ArmedInv')
  <2>1. \A p \in Callers : ~InFlight(p)' /\ ~InFlight(p)
    BY <1>4, <1>6, <1>12, FlyingNext DEF InFlight, cpu
  <2>2. PageInv'
    <3>1. \A g : ~Opened(g) /\ ~Opened(g)'
      BY <1>4, <1>6 DEF Opened
    <3>2. ASSUME NEW g \in Pages, prot[g] = "GUARD" PROVE HookOn(g)' /\ g # Page'
      <4>1. PICK u \in hooked["veh"] : PageOf[u] = g
        BY <3>2, <1>3, <1>4 DEF PageInv, HookOn
      <4>2. u \in hooked'["veh"] /\ t \in hooked'["veh"] /\ u # t
        BY <4>1, <1>2, <1>4 DEF T
      <4>3. PageOf[u] # PageOf[t]
        BY <4>2, <1>12 DEF Quiet
      <4> QED
        BY <4>1, <4>2, <4>3, <1>4 DEF HookOn
    <3> QED
      BY <3>1, <3>2, <1>3, <1>4, <1>6 DEF PageInv
  <2>3. FlightInv'
    BY <1>3, <1>4, <1>8, <2>1 DEF FlightInv, cpu, InFlight
  <2>4. ASSUME ArmedInv PROVE ArmedInv'
    <3>1. ASSUME NEW u \in hooked["veh"] PROVE prot'[PageOf[u]] = "GUARD"
      BY <2>1, <2>4, <1>4 DEF ArmedInv, Guarded, Opened
    <3> QED
      BY <3>1, <1>4, <1>6 DEF ArmedInv, Guarded, T
  <2> QED
    BY <1>4, <1>9, <1>10, <1>11, <2>2, <2>3, <2>4 DEF Shape
<1> QED
  BY <1>3, <1>4, <1>5, <1>12 DEF Stays

(* Disabling one is begun: its page is the one still guarded.              *)
LEMMA DisableVehStep ==
  ASSUME TypeOK, QuietInv, NEW t \in Targets, DisableVeh(t), UNCHANGED cpu
  PROVE  Stays
<1> DEFINE T == hooked["veh"] \ {t}
<1>1. PICK s : /\ s = IF hooked["veh"] = {t} THEN <<"remove", "unguard">> ELSE <<"unguard">>
               /\ Begin("veh", t, T, s)
  BY DEF DisableVeh
<1>2. s \in VehScripts /\ T \in SUBSET Targets /\ t \in hooked["veh"]
  BY <1>1 DEF VehScripts, TypeOK, Kinds, DisableVeh
<1>3. JobInv /\ HookInv /\ ChainInv /\ PatchedInv /\ PageInv /\ FlightInv /\ Quiet /\ ~dead
  BY DEF QuietInv, Shape
<1>4. /\ job = NULL /\ (\A x : ~Pending(x)) /\ JobInv'
      /\ job' # NULL /\ job'.kind = "veh" /\ job'.target = t /\ Page' = PageOf[t]
      /\ \A x : Pending(x)' <=> Has(s, x)
      /\ hooked'["veh"] = T /\ hooked'["int3"] = hooked["int3"]
      /\ hooked' \in [Kinds -> SUBSET Targets]
      /\ UNCHANGED <<chain, patched, prot, old, saved, dead>>
  BY <1>1, <1>2, <1>3, Begun DEF Kinds
<1>5. T = {} <=> hooked["veh"] = {t}
  BY <1>2
<1>6. \A u : u \in T <=> u \in hooked["veh"] /\ u # t
  OBVIOUS
<1> HIDE DEF T
<1>7. TypeOK'
  BY <1>4 DEF TypeOK, cpu
<1>8. Pending("unguard")' /\ (Pending("remove")' <=> T = {})
      /\ \A x : Pending(x)' => x \in {"unguard", "remove"}
  BY <1>1, <1>4, <1>5, HasTuple
<1>9. Registered("veh") /\ \A k : Registered(k)' <=> Registered(k)
  BY <1>2, <1>3, <1>4 DEF ChainInv, Kinds, Registered
<1>10. HookInv'
  <2>1. \A u \in T : PageOf[u] # PageOf[t]
    BY <1>2, <1>3, <1>6 DEF Quiet
  <2> QED
    BY <2>1, <1>4, <1>8 DEF HookInv
<1>11. ChainInv'
  BY <1>3, <1>4, <1>8, <1>9 DEF ChainInv, Kinds
<1>12. PatchedInv'
  <2>1. \A u \in Targets : ~Writing(u) /\ ~Writing(u)'
    BY <1>4, <1>8 DEF Writing
  <2> QED
    BY <2>1, <1>3, <1>4 DEF PatchedInv
<1>13. PageInv'
  <2>1. \A g : ~Opened(g) /\ ~Opened(g)'
    BY <1>4, <1>8 DEF Opened
  <2>2. ASSUME NEW g \in Pages, prot[g] = "GUARD" PROVE HookOn(g)' \/ g = Page'
    <3>1. PICK u \in hooked["veh"] : PageOf[u] = g
      BY <2>2, <1>3, <1>4 DEF PageInv, HookOn
    <3> QED
      BY <3>1, <1>4, <1>6 DEF HookOn
  <2> QED
    BY <2>1, <2>2, <1>3, <1>4, <1>8 DEF PageInv
<1>14. FlightInv'
  <2>1. \A p \in Callers : InFlight(p)' <=> InFlight(p)
    BY DEF InFlight, cpu
  <2> QED
    BY <1>3, <1>4, <1>6, <1>9, <2>1 DEF FlightInv, cpu
<1>15. ASSUME ArmedInv PROVE ArmedInv'
  <2>1. \A p \in Callers : InFlight(p)' <=> InFlight(p)
    BY DEF InFlight, cpu
  <2> QED
    BY <2>1, <1>4, <1>6, <1>15 DEF ArmedInv, Guarded, Opened
<1> QED
  BY <1>3, <1>4, <1>7, <1>10, <1>11, <1>12, <1>13, <1>14, <1>15 DEF Stays, Shape

(* Enabling a breakpoint is begun.                                         *)
LEMMA EnableInt3Step ==
  ASSUME TypeOK, QuietInv, NEW t \in Targets, EnableInt3(t), UNCHANGED cpu
  PROVE  Stays
<1> DEFINE T == hooked["int3"] \cup {t}
<1>1. PICK s : /\ s = IF Registered("int3")
                      THEN <<"read", "protect", "write", "restore">>
                      ELSE <<"read", "protect", "write", "restore", "add">>
               /\ Begin("int3", t, T, s)
  BY DEF EnableInt3
<1>2. s \in Int3Scripts /\ T \in SUBSET Targets /\ t \notin hooked["int3"]
  BY <1>1 DEF Int3Scripts, TypeOK, Kinds, EnableInt3
<1>3. JobInv /\ HookInv /\ ChainInv /\ PatchedInv /\ PageInv /\ FlightInv /\ Quiet /\ ~dead
  BY DEF QuietInv, Shape
<1>4. /\ job = NULL /\ (\A x : ~Pending(x)) /\ JobInv'
      /\ job' # NULL /\ job'.kind = "int3" /\ job'.target = t /\ Page' = PageOf[t]
      /\ \A x : Pending(x)' <=> Has(s, x)
      /\ hooked'["int3"] = T /\ hooked'["veh"] = hooked["veh"]
      /\ hooked' \in [Kinds -> SUBSET Targets]
      /\ UNCHANGED <<chain, patched, prot, old, saved, dead>>
  BY <1>1, <1>2, <1>3, Begun DEF Kinds
<1>5. t \in T /\ (\A u : u \in T <=> u \in hooked["int3"] \/ u = t)
  OBVIOUS
<1>6. hooked["int3"] = {} => T = {t}
  OBVIOUS
<1> HIDE DEF T
<1>7. TypeOK'
  BY <1>4 DEF TypeOK, cpu
<1>8. Pending("write")' /\ Pending("protect")' /\ (Pending("add")' <=> ~Registered("int3"))
      /\ \A x : Pending(x)' => x \in {"read", "protect", "write", "restore", "add"}
  BY <1>1, <1>4, HasTuple
<1>9. /\ Registered("int3") <=> hooked["int3"] # {}
      /\ \A k : Registered(k)' <=> Registered(k)
  BY <1>3, <1>4 DEF ChainInv, Kinds, Registered
<1>10. HookInv'
  BY <1>4, <1>5, <1>6, <1>8, <1>9 DEF HookInv
<1>11. ChainInv'
  BY <1>3, <1>4, <1>5, <1>8, <1>9 DEF ChainInv, Kinds
<1>12. PatchedInv'
  <2>1. \A u \in Targets : ~Writing(u) /\ (Writing(u)' <=> u = t)
    BY <1>4, <1>8 DEF Writing
  <2> QED
    BY <2>1, <1>2, <1>3, <1>4, <1>5 DEF PatchedInv
<1>13. PageInv'
  <2>1. \A g : ~Opened(g) /\ ~Opened(g)' /\ (HookOn(g)' <=> HookOn(g))
    BY <1>4, <1>8 DEF Opened, HookOn
  <2> QED
    BY <2>1, <1>3, <1>4, <1>8 DEF PageInv
<1>14. FlightInv'
  <2>1. \A p \in Callers : InFlight(p)' <=> InFlight(p)
    BY DEF InFlight, cpu
  <2> QED
    BY <1>3, <1>4, <1>5, <1>9, <2>1 DEF FlightInv, cpu
<1>15. ASSUME ArmedInv PROVE ArmedInv'
  <2>1. \A p \in Callers : InFlight(p)' <=> InFlight(p)
    BY DEF InFlight, cpu
  <2> QED
    BY <2>1, <1>4, <1>15 DEF ArmedInv, Guarded, Opened
<1> QED
  BY <1>3, <1>4, <1>7, <1>10, <1>11, <1>12, <1>13, <1>14, <1>15 DEF Stays, Shape

(* Disabling one is begun: no thread is at a breakpoint on a page with a   *)
(* page guard hook.                                                        *)
LEMMA DisableInt3Step ==
  ASSUME TypeOK, QuietInv, NEW t \in Targets, DisableInt3(t), UNCHANGED cpu
  PROVE  Stays
<1> DEFINE T == hooked["int3"] \ {t}
<1>1. PICK s : /\ s = IF hooked["int3"] = {t}
                      THEN <<"protect", "write", "restore", "remove">>
                      ELSE <<"protect", "write", "restore">>
               /\ Begin("int3", t, T, s)
  BY DEF DisableInt3
<1>2. s \in Int3Scripts /\ T \in SUBSET Targets /\ t \in hooked["int3"]
  BY <1>1 DEF Int3Scripts, TypeOK, Kinds, DisableInt3
<1>3. JobInv /\ HookInv /\ ChainInv /\ PatchedInv /\ PageInv /\ FlightInv /\ Quiet /\ ~dead
  BY DEF QuietInv, Shape
<1>4. /\ job = NULL /\ (\A x : ~Pending(x)) /\ JobInv'
      /\ job' # NULL /\ job'.kind = "int3" /\ job'.target = t /\ Page' = PageOf[t]
      /\ \A x : Pending(x)' <=> Has(s, x)
      /\ hooked'["int3"] = T /\ hooked'["veh"] = hooked["veh"]
      /\ hooked' \in [Kinds -> SUBSET Targets]
      /\ UNCHANGED <<chain, patched, prot, old, saved, dead>>
  BY <1>1, <1>2, <1>3, Begun DEF Kinds
<1>5. (T = {} <=> hooked["int3"] = {t}) /\ \A u : u \in T <=> u \in hooked["int3"] /\ u # t
  BY <1>2
<1> HIDE DEF T
<1>6. TypeOK'
  BY <1>4 DEF TypeOK, cpu
<1>7. Pending("write")' /\ Pending("protect")' /\ (Pending("remove")' <=> T = {})
      /\ \A x : Pending(x)' => x \in {"protect", "write", "restore", "remove"}
  BY <1>1, <1>4, <1>5, HasTuple
<1>8. Registered("int3") /\ \A k : Registered(k)' <=> Registered(k)
  BY <1>2, <1>3, <1>4 DEF ChainInv, Kinds, Registered
<1>9. HookInv'
  BY <1>4, <1>7 DEF HookInv
<1>10. ChainInv'
  BY <1>3, <1>4, <1>7, <1>8 DEF ChainInv, Kinds
<1>11. PatchedInv'
  <2>1. \A u \in Targets : ~Writing(u) /\ (Writing(u)' <=> u = t)
    BY <1>4, <1>7 DEF Writing
  <2> QED
    BY <2>1, <1>2, <1>3, <1>4, <1>5 DEF PatchedInv
<1>12. PageInv'
  <2>1. \A g : ~Opened(g) /\ ~Opened(g)' /\ (HookOn(g)' <=> HookOn(g))
    BY <1>4, <1>7 DEF Opened, HookOn
  <2> QED
    BY <2>1, <1>3, <1>4, <1>7 DEF PageInv
<1>13. ASSUME Quiet' PROVE FlightInv'
  <2>1. \A p \in Callers : InFlight(p)' <=> InFlight(p)
    BY DEF InFlight, cpu
  <2>2. ASSUME NEW p \in Callers, InFlight(p) PROVE t \notin hooked["veh"]
    BY <2>1, <2>2, <1>4, <1>13, FlyingNext DEF HookOn
  <2>3. \A p \in Callers : pc[p] \in {"break", "int3"} => InFlight(p)
    BY DEF InFlight
  <2> QED
    BY <1>3, <1>4, <1>5, <1>8, <2>1, <2>2, <2>3 DEF FlightInv, cpu
<1>14. ASSUME ArmedInv PROVE ArmedInv'
  <2>1. \A p \in Callers : InFlight(p)' <=> InFlight(p)
    BY DEF InFlight, cpu
  <2> QED
    BY <2>1, <1>4, <1>14 DEF ArmedInv, Guarded, Opened
<1> QED
  BY <1>3, <1>4, <1>6, <1>9, <1>10, <1>11, <1>12, <1>13, <1>14 DEF Stays, Shape

-----------------------------------------------------------------------------
(* The parts of the invariant, for the steps that use them.                *)
LEMMA Parts ==
  ASSUME QuietInv
  PROVE  /\ JobInv /\ HookInv /\ ChainInv /\ PatchedInv /\ PageInv /\ FlightInv
         /\ Quiet /\ ~dead /\ Shape
BY DEF QuietInv, Shape

(* A handler is registered that was not.                                   *)
LEMMA AddStep ==
  ASSUME TypeOK, QuietInv, Add, UNCHANGED cpu
  PROVE  Stays
<1>1. /\ At("add") /\ chain' = <<job.kind>> \o chain
      /\ UNCHANGED <<hooked, patched, prot, old, saved, dead, at, pc, tf>>
  BY DEF Add, memory, cpu
<1>2. /\ job # NULL /\ Pending("add") /\ JobInv' /\ ~Pending("restore")
      /\ \A y : Pending(y)' <=> Pending(y) /\ y # "add"
      /\ job' = job \/ (job' = NULL /\ \A y : ~Pending(y)')
  BY <1>1, Parts, Advance
<1>3. job.kind \in Kinds /\ ~Pending("remove") /\ hooked[job.kind] # {}
  BY <1>2, Parts, CallFacts DEF HookInv
<1>4. ~Registered(job.kind)
  BY <1>2, <1>3, Parts DEF ChainInv
<1>5. /\ chain' \in Seq(Kinds) /\ \A i, j \in DOMAIN chain' : chain'[i] = chain'[j] => i = j
      /\ chain' # <<>> /\ \A l : Registered(l)' <=> Registered(l) \/ l = job.kind
  BY <1>1, <1>3, <1>4, Added
<1>6. TypeOK'
  BY <1>1, <1>5 DEF TypeOK
<1>7. HookInv' /\ PatchedInv'
  BY <1>1, Parts, HookKept, PatchedKept
<1>8. ChainInv'
  BY <1>1, <1>2, <1>3, <1>5, Parts DEF ChainInv
<1>9. PageInv' /\ \A g : Opened(g)' <=> Opened(g)
  BY <1>1, <1>5, Parts, PageKept
<1>10. FlightInv'
  BY <1>1, <1>5, Parts DEF FlightInv, InFlight
<1>11. ArmedInv => ArmedInv'
  BY <1>1, <1>9, Parts, ArmedKept DEF cpu
<1> QED
  BY <1>1, <1>2, <1>6, <1>7, <1>8, <1>9, <1>10, <1>11, Parts DEF Stays, Shape

(* A handler is removed while nobody needs it.                             *)
LEMMA RemoveStep ==
  ASSUME TypeOK, QuietInv, Remove, UNCHANGED cpu
  PROVE  Stays
<1>1. /\ At("remove")
      /\ UNCHANGED <<hooked, patched, prot, old, saved, dead, at, pc, tf>>
  BY DEF Remove, memory, cpu
<1>2. PICK i \in DOMAIN chain :
        /\ chain[i] = job.kind
        /\ chain' = [j \in 1 .. Len(chain) - 1 |-> chain[IF j < i THEN j ELSE j + 1]]
  BY DEF Remove
<1>3. /\ job # NULL /\ Pending("remove") /\ JobInv' /\ ~Pending("restore")
      /\ \A y : Pending(y)' <=> Pending(y) /\ y # "remove"
      /\ job' = job \/ (job' = NULL /\ \A y : ~Pending(y)')
  BY <1>1, Parts, Advance
<1>4. job.kind \in Kinds /\ ~Pending("add") /\ hooked[job.kind] = {}
  BY <1>3, Parts, CallFacts DEF HookInv
<1>5. ~Pending("step")
  BY <1>3, Parts, CallFacts
<1>6. /\ chain' \in Seq(Kinds) /\ \A a, b \in DOMAIN chain' : chain'[a] = chain'[b] => a = b
      /\ \A l : Registered(l)' <=> Registered(l) /\ l # job.kind
  BY <1>2, Removed
<1>7. TypeOK'
  BY <1>1, <1>6 DEF TypeOK
<1>8. HookInv' /\ PatchedInv'
  BY <1>1, Parts, HookKept, PatchedKept
<1>9. ChainInv'
  BY <1>1, <1>3, <1>4, <1>6, Parts DEF ChainInv
<1>10. PageInv' /\ \A g : Opened(g)' <=> Opened(g)
  BY <1>1, <1>5, Parts, PageKept
<1>11. \A p \in Callers : ~InFlight(p)
  BY <1>3, Parts, Flying
<1>12. FlightInv'
  BY <1>1, <1>11, Parts DEF FlightInv, InFlight
<1>13. ArmedInv => ArmedInv'
  BY <1>1, <1>10, Parts, ArmedKept DEF cpu
<1> QED
  BY <1>1, <1>3, <1>7, <1>8, <1>9, <1>10, <1>12, <1>13, Parts DEF Stays, Shape

(* A page is guarded that was not; those of other hooks are.               *)
LEMMA GuardStep ==
  ASSUME TypeOK, QuietInv, Guard, UNCHANGED cpu
  PROVE  Stays
<1>1. /\ At("guard") /\ old' = [old EXCEPT ![job.target] = prot[Page]]
      /\ prot' = [prot EXCEPT ![Page] = "GUARD"]
      /\ UNCHANGED <<hooked, chain, patched, saved, dead, at, pc, tf>>
  BY DEF Guard, maps, cpu
<1>2. /\ job # NULL /\ Pending("guard") /\ JobInv'
      /\ \A y : Pending(y)' <=> Pending(y) /\ y # "guard"
  BY <1>1, Parts, Advance
<1>3. /\ job.target \in Targets /\ Page \in Pages /\ job.target \in hooked["veh"]
      /\ ~Pending("unguard") /\ ~Pending("restore") /\ ~Pending("step")
  BY <1>2, Parts, CallFacts DEF HookInv
<1>4. prot[Page] = "RX"
  BY <1>2, <1>3, Parts DEF PageInv, Opened, TypeOK
<1>5. TypeOK' /\ prot'[Page] = "GUARD" /\ \A g \in Pages : g # Page => prot'[g] = prot[g]
  BY <1>1, <1>3, <1>4 DEF TypeOK
<1>6. HookInv' /\ PatchedInv' /\ ChainInv'
  BY <1>1, Parts, HookKept, PatchedKept, ChainKept
<1>7. PageInv'
  <2>1. \A g : ~Opened(g) /\ ~Opened(g)' /\ (HookOn(g)' <=> HookOn(g)) /\ (g = Page => HookOn(g))
    BY <1>1, <1>2, <1>3 DEF Opened, HookOn, Page
  <2>2. \A t \in Targets : old'[t] = "RX"
    BY <1>1, <1>3, <1>4, Parts DEF PageInv, TypeOK
  <2>3. \A g \in Pages : prot'[g] = "GUARD" => HookOn(g)'
    BY <2>1, <1>3, <1>5, Parts DEF PageInv
  <2>4. \A g \in Pages : prot'[g] # "RWX"
    BY <2>1, <1>5, Parts DEF PageInv
  <2> QED
    BY <2>1, <2>2, <2>3, <2>4, <1>2, <1>3 DEF PageInv
<1>8. FlightInv'
  BY <1>1, Parts, FlightKept DEF cpu
<1>9. ASSUME ArmedInv PROVE ArmedInv'
  <2>1. \A p \in Callers : ~InFlight(p)
    BY <1>2, Parts, Flying
  <2>2. ASSUME NEW t \in hooked["veh"] PROVE prot'[PageOf[t]] = "GUARD"
    <3>1. PageOf[t] \in Pages
      BY DEF TypeOK, Pages, Kinds
    <3>2. CASE t = job.target
      BY <3>2, <1>5 DEF Page
    <3>3. CASE t # job.target
      <4>1. prot[PageOf[t]] = "GUARD"
        BY <3>3, <2>1, <1>3, <1>9 DEF ArmedInv, Guarded, Opened
      <4> QED
        BY <4>1, <3>1, <1>5
    <3> QED
      BY <3>2, <3>3
  <2> QED
    BY <2>2, <1>1 DEF ArmedInv, Guarded
<1> QED
  BY <1>1, <1>2, <1>5, <1>6, <1>7, <1>8, <1>9, Parts DEF Stays, Shape

(* The guard of a page without a hook is taken away.                       *)
LEMMA UnguardStep ==
  ASSUME TypeOK, QuietInv, Unguard, UNCHANGED cpu
  PROVE  Stays
<1>1. /\ At("unguard") /\ prot' = [prot EXCEPT ![Page] = old[job.target]]
      /\ UNCHANGED <<hooked, chain, patched, old, saved, dead, at, pc, tf>>
  BY DEF Unguard, maps, cpu
<1>2. /\ job # NULL /\ Pending("unguard") /\ JobInv'
      /\ \A y : Pending(y)' <=> Pending(y) /\ y # "unguard"
  BY <1>1, Parts, Advance
<1>3. /\ job.target \in Targets /\ Page \in Pages
      /\ ~Pending("guard") /\ ~Pending("restore") /\ ~Pending("step")
      /\ \A t \in hooked["veh"] : PageOf[t] # Page
  BY <1>2, Parts, CallFacts DEF HookInv
<1>4. TypeOK' /\ prot'[Page] = "RX" /\ \A g \in Pages : g # Page => prot'[g] = prot[g]
  BY <1>1, <1>3, Parts DEF TypeOK, PageInv
<1>5. HookInv' /\ PatchedInv' /\ ChainInv'
  BY <1>1, Parts, HookKept, PatchedKept, ChainKept
<1>6. PageInv'
  <2>1. \A g : ~Opened(g) /\ ~Opened(g)' /\ (HookOn(g)' <=> HookOn(g))
    BY <1>1, <1>2, <1>3 DEF Opened, HookOn
  <2>2. \A g \in Pages : prot'[g] = "GUARD" => HookOn(g)'
    BY <2>1, <1>4, Parts DEF PageInv
  <2>3. \A g \in Pages : prot'[g] # "RWX"
    BY <2>1, <1>4, Parts DEF PageInv
  <2> QED
    BY <2>1, <2>2, <2>3, <1>1, <1>2, <1>3, Parts DEF PageInv
<1>7. FlightInv'
  BY <1>1, Parts, FlightKept DEF cpu
<1>8. ASSUME ArmedInv PROVE ArmedInv'
  <2>1. \A p \in Callers : InFlight(p)' <=> InFlight(p)
    BY <1>1 DEF InFlight
  <2>2. ASSUME NEW t \in hooked["veh"] PROVE Guarded(t)'
    <3>1. PageOf[t] \in Pages /\ PageOf[t] # Page
      BY <1>3 DEF TypeOK, Pages, Kinds
    <3> QED
      BY <3>1, <2>1, <1>3, <1>4, <1>8 DEF ArmedInv, Guarded, Opened
  <2> QED
    BY <2>2, <1>1 DEF ArmedInv
<1> QED
  BY <1>1, <1>2, <1>4, <1>5, <1>6, <1>7, <1>8, Parts DEF Stays, Shape

(* The byte is read, or the read meets a guard whose handler is there.     *)
LEMMA ReadAction ==
  ASSUME TypeOK, QuietInv, Read, UNCHANGED cpu
  PROVE  Stays
<1>1. CASE At("read") /\ UNCHANGED <<maps, memory, old, saved, dead>>
  <2>1. At("read") /\ UNCHANGED <<hooked, chain, patched, prot, old, saved, dead, at, pc, tf>>
    BY <1>1 DEF maps, memory, cpu
  <2>2. TypeOK'
    BY <2>1 DEF TypeOK
  <2>3. JobInv' /\ HookInv' /\ PatchedInv' /\ ChainInv'
    BY <2>1, Parts, Advance, HookKept, PatchedKept, ChainKept
  <2>4. PageInv' /\ \A g : Opened(g)' <=> Opened(g)
    <3>1. Registered("veh") => Registered("veh")'
      BY <2>1 DEF Registered
    <3> QED
      BY <3>1, <2>1, Parts, PageKept
  <2>5. FlightInv' /\ (ArmedInv => ArmedInv')
    BY <2>1, <2>4, Parts, FlightKept, ArmedKept DEF cpu
  <2> QED
    BY <2>1, <2>2, <2>3, <2>4, <2>5, Parts DEF Stays, Shape
<1>2. CASE /\ todo # <<>> /\ Head(todo) = "read" /\ prot[Page] = "GUARD"
           /\ todo' = [todo EXCEPT ![1] = "step"]
           /\ prot' = [prot EXCEPT ![Page] = "RX"]
           /\ dead' = ~Registered("veh")
           /\ UNCHANGED <<maps, patched, old, job, saved>>
  <2>1. UNCHANGED <<hooked, chain, patched, old, job, saved, at, pc, tf>>
    BY <1>2 DEF maps, cpu
  <2>2. /\ JobInv' /\ job # NULL /\ Pending("read") /\ Pending("protect")
        /\ \A y : Pending(y)' <=> (Pending(y) /\ y # "read") \/ y = "step"
    BY <1>2, Parts, Trapped
  <2>3. /\ Page \in Pages /\ Pending("write") /\ Pending("restore") /\ job.kind = "int3"
        /\ ~Pending("guard") /\ ~Pending("unguard")
    BY <2>2, Parts, CallFacts
  <2>4. Registered("veh") /\ \A k : Registered(k)' <=> Registered(k)
    <3>1. HookOn(Page)
      BY <1>2, <2>3, Parts DEF PageInv
    <3> QED
      BY <3>1, <2>1, <2>3, Parts DEF ChainInv, HookOn, Kinds, Registered
  <2>5. TypeOK' /\ prot'[Page] = "RX" /\ \A g \in Pages : g # Page => prot'[g] = prot[g]
    BY <1>2, <2>1, <2>3, <2>4 DEF TypeOK
  <2>6. Page' = Page
    BY <2>1 DEF Page
  <2>7. HookInv'
    BY <2>1, <2>2, <2>6, Parts DEF HookInv
  <2>8. ChainInv'
    BY <2>1, <2>2, <2>4, Parts DEF ChainInv
  <2>9. PatchedInv'
    <3>1. \A t \in Targets : Writing(t)' <=> Writing(t)
      BY <2>1, <2>2 DEF Writing
    <3> QED
      BY <3>1, <2>1, Parts DEF PatchedInv
  <2>10. PageInv'
    <3>1. \A g : ~Opened(g) /\ ~Opened(g)' /\ (HookOn(g)' <=> HookOn(g))
      BY <2>1, <2>2 DEF Opened, HookOn
    <3>2. \A g \in Pages : prot'[g] = "GUARD" => HookOn(g)'
      BY <3>1, <2>3, <2>5, Parts DEF PageInv
    <3>3. \A g \in Pages : prot'[g] # "RWX"
      BY <3>1, <2>5, Parts DEF PageInv
    <3> QED
      BY <3>1, <3>2, <3>3, <2>1, <2>2, <2>3, <2>4, Parts DEF PageInv
  <2>11. FlightInv'
    BY <2>1, Parts, FlightKept DEF cpu
  <2>12. ArmedInv'
    BY <2>2 DEF ArmedInv, Guarded
  <2> QED
    BY <1>2, <2>2, <2>4, <2>5, <2>7, <2>8, <2>9, <2>10, <2>11, <2>12 DEF Stays,
       Shape
<1> QED
  BY <1>1, <1>2 DEF Read

(* Its single step, in order, guards all pages with hooks.                 *)
LEMMA ReadStepAction ==
  ASSUME TypeOK, QuietInv, ReadStep, UNCHANGED cpu
  PROVE  Stays
<1>1. /\ At("step") /\ dead' = (chain = <<>>)
      /\ prot' = IF chain # <<>> /\ Head(chain) = "veh" THEN Rearmed ELSE prot
      /\ UNCHANGED <<hooked, chain, patched, old, saved, at, pc, tf>>
  BY DEF ReadStep, maps, cpu
<1>2. /\ job # NULL /\ Pending("step") /\ JobInv'
      /\ \A y : Pending(y)' <=> Pending(y) /\ y # "step"
  BY <1>1, Parts, Advance
<1>3. /\ Pending("protect") /\ Pending("restore") /\ Registered("veh")
      /\ ~Pending("guard") /\ ~Pending("unguard")
  BY <1>2, Parts, CallFacts DEF PageInv
<1>4. chain # <<>>
  BY <1>3, ChainFacts
<1>5. /\ \A g \in Pages : Rearmed[g] = IF HookOn(g) THEN "GUARD" ELSE prot[g]
      /\ Rearmed \in [Pages -> {"RX", "GUARD", "RWX"}]
  BY DEF Rearmed, HookOn, TypeOK
<1>6. TypeOK'
  BY <1>1, <1>4, <1>5 DEF TypeOK
<1>7. HookInv' /\ PatchedInv' /\ ChainInv'
  BY <1>1, Parts, HookKept, PatchedKept, ChainKept
<1>8. PageInv'
  <2>1. \A g : ~Opened(g) /\ ~Opened(g)' /\ (HookOn(g)' <=> HookOn(g))
    BY <1>1, <1>2, <1>3 DEF Opened, HookOn
  <2>2. \A g \in Pages : (prot'[g] = "GUARD" => HookOn(g)') /\ prot'[g] # "RWX"
    BY <2>1, <1>1, <1>3, <1>5, Parts DEF PageInv
  <2> QED
    BY <2>1, <2>2, <1>1, <1>2, <1>3, Parts DEF PageInv
<1>9. FlightInv'
  BY <1>1, Parts, FlightKept DEF cpu
<1>10. ASSUME VehFirst PROVE ArmedInv'
  <2>1. ASSUME NEW t \in hooked["veh"] PROVE prot'[PageOf[t]] = "GUARD"
    <3>1. PageOf[t] \in Pages /\ HookOn(PageOf[t])
      BY DEF TypeOK, Pages, Kinds, HookOn
    <3>2. Head(chain) = "veh"
      BY <1>3, <1>10, First
    <3> QED
      BY <3>1, <3>2, <1>1, <1>4, <1>5
  <2> QED
    BY <2>1, <1>1 DEF ArmedInv, Guarded
<1> QED
  BY <1>1, <1>2, <1>4, <1>6, <1>7, <1>8, <1>9, <1>10 DEF Stays, Shape

(* The page is made writable; its protection is saved, the guard included. *)
LEMMA ProtectStep ==
  ASSUME TypeOK, QuietInv, Protect, UNCHANGED cpu
  PROVE  Stays
<1>1. /\ At("protect") /\ saved' = prot[Page] /\ prot' = [prot EXCEPT ![Page] = "RWX"]
      /\ UNCHANGED <<hooked, chain, patched, old, dead, at, pc, tf>>
  BY DEF Protect, maps, cpu
<1>2. /\ job # NULL /\ Pending("protect") /\ JobInv' /\ ~Pending("step")
      /\ \A y : Pending(y)' <=> Pending(y) /\ y # "protect"
      /\ job' = job \/ (job' = NULL /\ \A y : ~Pending(y)')
  BY <1>1, Parts, Advance
<1>3. /\ Page \in Pages /\ Pending("write") /\ Pending("restore") /\ job.kind = "int3"
      /\ ~Pending("guard") /\ ~Pending("unguard")
  BY <1>2, Parts, CallFacts
<1>4. job' = job /\ Page' = Page
  BY <1>2, <1>3 DEF Page
<1>5. /\ \A g : ~Opened(g) /\ (Opened(g)' <=> g = Page) /\ (HookOn(g)' <=> HookOn(g))
  BY <1>1, <1>2, <1>3, <1>4 DEF Opened, HookOn
<1>6. saved' = "RX" \/ (saved' = "GUARD" /\ HookOn(Page))
  BY <1>1, <1>3, <1>5, Parts DEF PageInv, TypeOK
<1>7. TypeOK' /\ prot'[Page] = "RWX" /\ \A g \in Pages : g # Page => prot'[g] = prot[g]
  BY <1>1, <1>3 DEF TypeOK
<1>8. HookInv' /\ PatchedInv' /\ ChainInv'
  BY <1>1, Parts, HookKept, PatchedKept, ChainKept
<1>9. PageInv'
  <2>1. \A g \in Pages : prot'[g] = "GUARD" => HookOn(g)' /\ g # Page
    BY <1>3, <1>5, <1>7, Parts DEF PageInv
  <2>2. \A g \in Pages : prot'[g] = "RWX" <=> g = Page
    BY <1>5, <1>7, Parts DEF PageInv
  <2> QED
    BY <2>1, <2>2, <1>1, <1>2, <1>3, <1>4, <1>5, <1>6, Parts DEF PageInv
<1>10. FlightInv'
  BY <1>1, Parts, FlightKept DEF cpu
<1>11. ASSUME ArmedInv PROVE ArmedInv'
  <2>1. \A p \in Callers : InFlight(p)' <=> InFlight(p)
    BY <1>1 DEF InFlight
  <2>2. ASSUME NEW t \in hooked["veh"] PROVE Guarded(t)'
    <3>1. PageOf[t] \in Pages /\ HookOn(PageOf[t])
      BY DEF TypeOK, Pages, Kinds, HookOn
    <3>2. prot[PageOf[t]] = "GUARD" \/ \E p \in Callers : InFlight(p)
      BY <1>2, <1>3, <1>5, <1>11 DEF ArmedInv, Guarded
    <3>3. CASE \E p \in Callers : InFlight(p)
      BY <3>3, <2>1 DEF Guarded
    <3>4. CASE prot[PageOf[t]] = "GUARD" /\ PageOf[t] = Page
      BY <3>4, <1>1, <1>5 DEF Guarded
    <3>5. CASE prot[PageOf[t]] = "GUARD" /\ PageOf[t] # Page
      BY <3>1, <3>5, <1>7 DEF Guarded
    <3> QED
      BY <3>2, <3>3, <3>4, <3>5
  <2> QED
    BY <2>2, <1>1 DEF ArmedInv
<1> QED
  BY <1>1, <1>2, <1>7, <1>8, <1>9, <1>10, <1>11, Parts DEF Stays, Shape

(* INT 3 is written, or the byte that was there, on a writable page.       *)
LEMMA WriteStep ==
  ASSUME TypeOK, QuietInv, Write, UNCHANGED cpu
  PROVE  Stays
<1>1. /\ At("write") /\ dead' = (prot[Page] # "RWX")
      /\ patched' = IF job.target \in hooked["int3"] THEN patched \cup {job.target}
                                                     ELSE patched \ {job.target}
      /\ UNCHANGED <<hooked, chain, prot, old, saved, at, pc, tf>>
  BY DEF Write, maps, cpu
<1>2. /\ job # NULL /\ Pending("write") /\ JobInv' /\ ~Pending("protect")
      /\ \A y : Pending(y)' <=> Pending(y) /\ y # "write"
      /\ job' = job \/ (job' = NULL /\ \A y : ~Pending(y)')
  BY <1>1, Parts, Advance
<1>3. /\ Page \in Pages /\ job.target \in Targets /\ Pending("restore") /\ ~Pending("step")
  BY <1>2, Parts, CallFacts
<1>4. ~dead'
  BY <1>1, <1>2, <1>3, Parts DEF PageInv, Opened
<1>5. TypeOK'
  BY <1>1, <1>3 DEF TypeOK
<1>6. HookInv' /\ ChainInv'
  BY <1>1, Parts, HookKept, ChainKept
<1>7. PatchedInv'
  <2>1. \A t \in Targets : ~Writing(t)' /\ (Writing(t) <=> t = job.target)
    BY <1>2 DEF Writing
  <2> QED
    BY <2>1, <1>1, Parts DEF PatchedInv
<1>8. PageInv' /\ \A g : Opened(g)' <=> Opened(g)
  BY <1>1, <1>3, Parts, PageKept
<1>9. FlightInv' /\ (ArmedInv => ArmedInv')
  BY <1>1, <1>8, Parts, FlightKept, ArmedKept DEF cpu
<1> QED
  BY <1>2, <1>4, <1>5, <1>6, <1>7, <1>8, <1>9 DEF Stays, Shape

(* The protection is restored, a guard with it.                            *)
LEMMA RestoreStep ==
  ASSUME TypeOK, QuietInv, Restore, UNCHANGED cpu
  PROVE  Stays
<1>1. /\ At("restore") /\ prot' = [prot EXCEPT ![Page] = saved] /\ saved' = NULL
      /\ UNCHANGED <<hooked, chain, patched, old, dead, at, pc, tf>>
  BY DEF Restore, maps, cpu
<1>2. /\ job # NULL /\ Pending("restore") /\ JobInv' /\ ~Pending("protect")
      /\ \A y : Pending(y)' <=> Pending(y) /\ y # "restore"
  BY <1>1, Parts, Advance
<1>3. /\ Page \in Pages /\ ~Pending("guard") /\ ~Pending("unguard") /\ ~Pending("step")
  BY <1>2, Parts, CallFacts
<1>4. saved = "RX" \/ (saved = "GUARD" /\ HookOn(Page))
  BY <1>2, Parts DEF PageInv
<1>5. TypeOK' /\ prot'[Page] = saved /\ \A g \in Pages : g # Page => prot'[g] = prot[g]
  BY <1>1, <1>3, <1>4 DEF TypeOK
<1>6. HookInv' /\ PatchedInv' /\ ChainInv'
  BY <1>1, Parts, HookKept, PatchedKept, ChainKept
<1>7. /\ \A g : ~Opened(g)' /\ (Opened(g) <=> g = Page) /\ (HookOn(g)' <=> HookOn(g))
  BY <1>1, <1>2 DEF Opened, HookOn
<1>8. PageInv'
  <2>1. \A g \in Pages : prot'[g] = "GUARD" => HookOn(g)'
    BY <1>3, <1>4, <1>5, <1>7, Parts DEF PageInv
  <2>2. \A g \in Pages : prot'[g] # "RWX"
    BY <1>4, <1>5, <1>7, Parts DEF PageInv
  <2> QED
    BY <2>1, <2>2, <1>1, <1>2, <1>3, <1>7, Parts DEF PageInv
<1>9. FlightInv'
  BY <1>1, Parts, FlightKept DEF cpu
<1>10. ASSUME ArmedInv PROVE ArmedInv'
  <2>1. \A p \in Callers : InFlight(p)' <=> InFlight(p)
    BY <1>1 DEF InFlight
  <2>2. ASSUME NEW t \in hooked["veh"] PROVE Guarded(t)'
    <3>1. PageOf[t] \in Pages
      BY DEF TypeOK, Pages, Kinds
    <3>2. \/ prot[PageOf[t]] = "GUARD" \/ \E p \in Callers : InFlight(p)
          \/ PageOf[t] = Page /\ saved = "GUARD"
      BY <1>3, <1>7, <1>10 DEF ArmedInv, Guarded
    <3>3. prot[Page] = "RWX"
      BY <1>3, <1>7, Parts DEF PageInv
    <3> QED
      BY <3>1, <3>2, <3>3, <2>1, <1>5 DEF Guarded
  <2> QED
    BY <2>2, <1>1 DEF ArmedInv
<1> QED
  BY <1>1, <1>2, <1>5, <1>6, <1>8, <1>9, <1>10, Parts DEF Stays, Shape

-----------------------------------------------------------------------------
(* A thread enters a target.                                               *)
LEMMA CallStep ==
  ASSUME TypeOK, QuietInv, NEW p \in Callers, NEW t \in Targets, Call(p, t), UNCHANGED admin
  PROVE  Stays
<1>1. /\ at[p] = Nowhere /\ pc[p] = "run" /\ at' = [at EXCEPT ![p] = [in |-> "entry", of |-> t]]
      /\ UNCHANGED <<hooked, chain, patched, prot, old, saved, pc, tf, dead>>
  BY DEF Call, MovesTo, maps, memory, admin
<1>2. /\ JobInv' /\ HookInv' /\ ChainInv' /\ PatchedInv'
      /\ (\A x : Pending(x)' <=> Pending(x)) /\ (\A k : Registered(k)' <=> Registered(k))
      /\ Page' = Page /\ (\A g : Opened(g)' <=> Opened(g)) /\ \A g : HookOn(g)' <=> HookOn(g)
  BY <1>1, Parts, CallerKeeps DEF maps, admin
<1>3. at'[p] = [in |-> "entry", of |-> t] /\ \A q \in Callers : q # p => at'[q] = at[q]
  BY <1>1 DEF TypeOK
<1>4. TypeOK'
  BY <1>1 DEF TypeOK
<1>5. \A q \in Callers : InFlight(q)' <=> InFlight(q)
  BY <1>1 DEF InFlight
<1>6. PageInv'
  BY <1>1, <1>2, Parts DEF PageInv
<1>7. FlightInv'
  <2>1. ~tf[p]
    BY <1>1, Parts DEF FlightInv, Nowhere, TypeOK
  <2> QED
    BY <2>1, <1>1, <1>2, <1>3, <1>5, Parts DEF FlightInv
<1>8. ArmedInv => ArmedInv'
  BY <1>1, <1>2, <1>5 DEF ArmedInv, Guarded, admin
<1> QED
  BY <1>1, <1>2, <1>4, <1>6, <1>7, <1>8, Parts DEF Stays, Shape

(* A thread meets a guard and takes it away; the handler is there.         *)
LEMMA TrapGuardStep ==
  ASSUME TypeOK, QuietInv, NEW p \in Callers, TrapGuard(p), UNCHANGED admin
  PROVE  Stays
<1> DEFINE g == PageOf[at[p].of]
<1>1. /\ at[p].in \in {"entry", "body"} /\ prot[g] = "GUARD" /\ pc[p] = "run"
      /\ pc' = [pc EXCEPT ![p] = "guard"] /\ prot' = [prot EXCEPT ![g] = "RX"]
      /\ UNCHANGED <<hooked, chain, patched, old, saved, at, tf, dead>>
  BY DEF TrapGuard, OnGuard, Goto, maps, admin
<1>2. /\ JobInv' /\ HookInv' /\ ChainInv' /\ PatchedInv'
      /\ (\A x : Pending(x)' <=> Pending(x)) /\ (\A k : Registered(k)' <=> Registered(k))
      /\ Page' = Page /\ (\A h : Opened(h)' <=> Opened(h)) /\ \A h : HookOn(h)' <=> HookOn(h)
  BY <1>1, Parts, CallerKeeps DEF maps
<1>3. at[p].of \in Targets /\ g \in Pages
  BY <1>1, Parts DEF FlightInv, Pages
<1>4. /\ pc'[p] = "guard" /\ (\A q \in Callers : q # p => pc'[q] = pc[q])
      /\ prot'[g] = "RX" /\ (\A h \in Pages : h # g => prot'[h] = prot[h])
  BY <1>1, <1>3 DEF TypeOK
<1> HIDE DEF g
<1>5. TypeOK'
  BY <1>1 DEF TypeOK
<1>6. InFlight(p)' /\ \A q \in Callers : q # p => (InFlight(q)' <=> InFlight(q))
  BY <1>1, <1>4 DEF InFlight
<1>7. PageInv'
  <2>1. \A h \in Pages : prot'[h] = "GUARD" => prot[h] = "GUARD"
    BY <1>4
  <2>2. \A h \in Pages : prot'[h] = "RWX" <=> prot[h] = "RWX"
    BY <1>1, <1>4
  <2> QED
    BY <2>1, <2>2, <1>1, <1>2, Parts DEF PageInv
<1>8. ASSUME Quiet' PROVE FlightInv'
  <2>1. hooked["veh"] # {}
    <3>1. CASE HookOn(g)
      BY <3>1 DEF HookOn
    <3>2. CASE Pending("unguard")
      BY <3>2, <1>1, Parts, Landed, CallFacts
    <3> QED
      BY <3>1, <3>2, <1>1, <1>3, Parts DEF PageInv
  <2>2. ~Pending("guard")
    BY <1>2, <1>6, <1>8, FlyingNext, CallFacts, Parts DEF admin
  <2>3. Registered("veh") /\ chain # <<>>
    BY <2>1, <2>2, <1>1, Parts, VehThere, ChainFacts
  <2> QED
    BY <2>3, <1>1, <1>2, <1>3, <1>4, <1>6, Parts DEF FlightInv
<1>9. ArmedInv'
  BY <1>6 DEF ArmedInv, Guarded
<1> QED
  BY <1>1, <1>2, <1>5, <1>7, <1>8, <1>9, Parts DEF Stays, Shape

(* A thread meets INT 3; the handler is there for it.                      *)
LEMMA TrapInt3Step ==
  ASSUME TypeOK, QuietInv, NEW p \in Callers, TrapInt3(p), UNCHANGED admin
  PROVE  Stays
<1>1. /\ at[p].in = "entry" /\ at[p].of \in patched /\ pc[p] = "run"
      /\ pc' = [pc EXCEPT ![p] = "break"]
      /\ UNCHANGED <<hooked, chain, patched, prot, old, saved, job, at, tf, dead>>
  BY DEF TrapInt3, OnInt3, Goto, maps, memory, admin
<1>2. /\ JobInv' /\ HookInv' /\ ChainInv' /\ PatchedInv'
      /\ (\A x : Pending(x)' <=> Pending(x)) /\ (\A k : Registered(k)' <=> Registered(k))
      /\ Page' = Page /\ (\A h : Opened(h)' <=> Opened(h)) /\ \A h : HookOn(h)' <=> HookOn(h)
  BY <1>1, Parts, CallerKeeps DEF maps
<1>3. at[p].of \in Targets
  BY <1>1, Parts DEF FlightInv
<1>4. pc'[p] = "break" /\ (\A q \in Callers : q # p => pc'[q] = pc[q])
  BY <1>1 DEF TypeOK
<1>5. TypeOK'
  BY <1>1 DEF TypeOK
<1>6. InFlight(p)' /\ \A q \in Callers : q # p => (InFlight(q)' <=> InFlight(q))
  BY <1>1, <1>4 DEF InFlight
<1>7. PageInv'
  BY <1>1, <1>2, Parts DEF PageInv
<1>8. ASSUME Quiet' PROVE FlightInv'
  <2>1. job # NULL => /\ ~Pending("remove") /\ (job.kind = "int3" => ~HookOn(Page))
                      /\ Pending("add") => job.kind # "int3"
    BY <1>1, <1>2, <1>6, <1>8, FlyingNext
  <2>2. job = NULL => \A x : ~Pending(x)
    BY Parts, CallFacts
  <2>3. Registered("int3")
    <3>1. hooked["int3"] # {}
      BY <2>1, <2>2, <1>1, <1>3, Parts DEF PatchedInv, HookInv, Writing
    <3> QED
      BY <3>1, <2>1, <2>2, Parts DEF ChainInv, Kinds
  <2>4. at[p].of \in hooked["veh"] => at[p].of \in hooked["int3"]
    <3>1. ASSUME Writing(at[p].of) PROVE at[p].of \notin hooked["veh"]
      <4>1. Pending("restore") /\ job # NULL /\ Page = PageOf[at[p].of]
        BY <3>1, Parts, CallFacts DEF Writing, Page
      <4>2. job.kind = "int3"
        BY <4>1, Parts, CallFacts
      <4> QED
        BY <4>1, <4>2, <2>1 DEF HookOn
    <3> QED
      BY <3>1, <1>1, <1>3, Parts DEF PatchedInv
  <2>5. chain # <<>>
    BY <2>3, ChainFacts
  <2> QED
    BY <2>3, <2>4, <2>5, <1>1, <1>2, <1>4, <1>6, Parts DEF FlightInv
<1>9. ArmedInv'
  BY <1>6 DEF ArmedInv, Guarded
<1> QED
  BY <1>1, <1>2, <1>5, <1>7, <1>8, <1>9, Parts DEF Stays, Shape

(* A thread executes; it has as far to go to its single step as before.    *)
LEMMA ExecuteStep ==
  ASSUME TypeOK, QuietInv, NEW p \in Callers, Execute(p), UNCHANGED admin
  PROVE  Stays
<1>1. /\ pc[p] = "run" /\ pc' = [pc EXCEPT ![p] = IF tf[p] THEN "step" ELSE "run"]
      /\ tf' = [tf EXCEPT ![p] = FALSE]
      /\ UNCHANGED <<hooked, chain, patched, prot, old, saved, job, dead>>
  BY DEF Execute, Goto, maps, memory, admin
<1>2. PICK l : /\ \/ l = [in |-> "body", of |-> at[p].of] /\ at[p].in = "entry"
                  \/ l = [in |-> "caller", of |-> NULL]
               /\ at' = [at EXCEPT ![p] = l]
  <2>1. \/ at[p].in = "entry" /\ at' = [at EXCEPT ![p] = [in |-> "body", of |-> at[p].of]]
        \/ at' = [at EXCEPT ![p] = [in |-> "caller", of |-> NULL]]
    BY DEF Execute, MovesTo
  <2> QED
    BY <2>1
<1>3. /\ JobInv' /\ HookInv' /\ ChainInv' /\ PatchedInv'
      /\ (\A x : Pending(x)' <=> Pending(x)) /\ (\A k : Registered(k)' <=> Registered(k))
      /\ Page' = Page /\ (\A h : Opened(h)' <=> Opened(h)) /\ \A h : HookOn(h)' <=> HookOn(h)
  BY <1>1, Parts, CallerKeeps DEF maps
<1>4. /\ at'[p] = l /\ pc'[p] = (IF tf[p] THEN "step" ELSE "run") /\ ~tf'[p]
      /\ \A q \in Callers : q # p => at'[q] = at[q] /\ pc'[q] = pc[q] /\ tf'[q] = tf[q]
  BY <1>1, <1>2 DEF TypeOK
<1>5. l \in [in : {"caller", "entry", "body", "detour"}, of : Targets \cup {NULL}]
  BY <1>2, Parts DEF FlightInv
<1>6. TypeOK'
  BY <1>1, <1>2, <1>5 DEF TypeOK
<1>7. \A q \in Callers : InFlight(q)' <=> InFlight(q)
  BY <1>1, <1>4 DEF InFlight
<1>8. PageInv'
  BY <1>1, <1>3, Parts DEF PageInv
<1>9. FlightInv'
  <2>1. l.in # "caller" => l.of \in Targets
    BY <1>2, Parts DEF FlightInv
  <2> QED
    BY <2>1, <1>1, <1>3, <1>4, <1>7, Parts DEF FlightInv
<1>10. ArmedInv => ArmedInv'
  BY <1>1, <1>3, <1>7 DEF ArmedInv, Guarded
<1> QED
  BY <1>1, <1>3, <1>6, <1>8, <1>9, <1>10, Parts DEF Stays, Shape

(* An exception is taken; a single step that does not guard the pages is   *)
(* taken when there is no page guard hook.                                 *)
LEMMA DispatchStep ==
  ASSUME TypeOK, QuietInv, NEW p \in Callers, Dispatch(p), UNCHANGED admin
  PROVE  Stays
<1>1. /\ pc[p] \in {"guard", "break", "step"} /\ pc' = [pc EXCEPT ![p] = Taken(pc[p])]
      /\ dead' = (Taken(pc[p]) = pc[p])
      /\ UNCHANGED <<hooked, chain, patched, prot, old, saved, job, at, tf>>
  BY DEF Dispatch, maps, memory, admin
<1>2. /\ JobInv' /\ HookInv' /\ ChainInv' /\ PatchedInv'
      /\ (\A x : Pending(x)' <=> Pending(x)) /\ (\A k : Registered(k)' <=> Registered(k))
      /\ Page' = Page /\ (\A h : Opened(h)' <=> Opened(h)) /\ \A h : HookOn(h)' <=> HookOn(h)
  BY <1>1, Parts, CallerKeeps DEF maps
<1>3. InFlight(p) /\ chain # <<>>
  BY <1>1, Parts DEF FlightInv, InFlight
<1>4. /\ pc[p] = "guard" => Taken(pc[p]) = "veh"
      /\ pc[p] = "break" => Taken(pc[p]) = "int3"
      /\ pc[p] = "step" => Taken(pc[p]) = IF Head(chain) = "veh" THEN "rearm" ELSE "run"
  BY <1>3, Parts DEF FlightInv, Taken
<1>5. pc'[p] = Taken(pc[p]) /\ (\A q \in Callers : q # p => pc'[q] = pc[q])
  BY <1>1 DEF TypeOK
<1>6. ~dead' /\ Taken(pc[p]) \in {"veh", "int3", "rearm", "run"}
  BY <1>1, <1>4
<1>7. TypeOK'
  BY <1>1, <1>6 DEF TypeOK
<1>8. PageInv'
  BY <1>1, <1>2, Parts DEF PageInv
<1>9. \A q \in Callers : InFlight(q)' => InFlight(q)
  BY <1>1, <1>3, <1>5 DEF InFlight
<1>10. FlightInv'
  <2>1. ASSUME NEW q \in Callers, q # p
        PROVE  pc'[q] = pc[q] /\ (InFlight(q)' <=> InFlight(q))
    BY <2>1, <1>1, <1>5 DEF InFlight
  <2>2. \/ pc[p] = "guard" /\ pc'[p] = "veh"
        \/ pc[p] = "break" /\ pc'[p] = "int3"
        \/ pc[p] = "step" /\ pc'[p] \in {"rearm", "run"}
    BY <1>1, <1>4, <1>5
  <2> QED
    BY <2>1, <2>2, <1>1, <1>2, <1>3, Parts DEF FlightInv
<1>11. ASSUME VehFirst, ArmedInv PROVE ArmedInv'
  <2>1. ASSUME NEW t \in hooked["veh"] PROVE Guarded(t)'
    <3>1. Registered("veh")
      BY <2>1, <1>3, Parts, VehThere
    <3>2. Head(chain) = "veh"
      BY <3>1, <2>1, <1>11, First
    <3>3. InFlight(p)'
      BY <3>2, <1>1, <1>4, <1>5 DEF InFlight
    <3> QED
      BY <3>3 DEF Guarded
  <2> QED
    BY <2>1, <1>1 DEF ArmedInv
<1> QED
  BY <1>2, <1>6, <1>7, <1>8, <1>10, <1>11 DEF Stays, Shape

(* A handler redirects a thread at a hooked target, and sets its trap flag.*)
LEMMA RedirectStep ==
  ASSUME TypeOK, QuietInv, NEW p \in Callers, NEW k \in Kinds, Redirect(p, k), UNCHANGED admin
  PROVE  Stays
<1>1. /\ pc[p] = k /\ pc' = [pc EXCEPT ![p] = "run"] /\ tf' = [tf EXCEPT ![p] = TRUE]
      /\ UNCHANGED <<hooked, chain, patched, prot, old, saved, job, dead>>
  BY DEF Redirect, Goto, maps, memory, admin
<1>2. PICK l : /\ \/ l = at[p] /\ ~(at[p].in = "entry" /\ at[p].of \in hooked[k])
                  \/ l = [in |-> "detour", of |-> at[p].of] /\ at[p].in = "entry"
               /\ at' = [at EXCEPT ![p] = l]
  <2>1. CASE at[p].in = "entry" /\ at[p].of \in hooked[k]
    BY <2>1 DEF Redirect, MovesTo
  <2>2. CASE ~(at[p].in = "entry" /\ at[p].of \in hooked[k])
    <3>1. at' = at /\ at = [at EXCEPT ![p] = at[p]]
      BY <2>2 DEF Redirect, TypeOK
    <3> QED
      BY <3>1, <2>2
  <2> QED
    BY <2>1, <2>2
<1>3. /\ JobInv' /\ HookInv' /\ ChainInv' /\ PatchedInv'
      /\ (\A x : Pending(x)' <=> Pending(x)) /\ (\A j : Registered(j)' <=> Registered(j))
      /\ Page' = Page /\ (\A h : Opened(h)' <=> Opened(h)) /\ \A h : HookOn(h)' <=> HookOn(h)
  BY <1>1, Parts, CallerKeeps DEF maps
<1>4. /\ at'[p] = l /\ pc'[p] = "run" /\ tf'[p]
      /\ \A q \in Callers : q # p => at'[q] = at[q] /\ pc'[q] = pc[q] /\ tf'[q] = tf[q]
  BY <1>1, <1>2 DEF TypeOK
<1>5. l \in [in : {"caller", "entry", "body", "detour"}, of : Targets \cup {NULL}]
  BY <1>2, Parts DEF FlightInv, TypeOK
<1>6. TypeOK'
  BY <1>1, <1>2, <1>5 DEF TypeOK
<1>7. k \in {"veh", "int3"} /\ InFlight(p) /\ InFlight(p)'
  BY <1>1, <1>4 DEF InFlight, Kinds
<1>8. \A q \in Callers : q # p => (InFlight(q)' <=> InFlight(q))
  BY <1>4 DEF InFlight
<1>9. PageInv'
  BY <1>1, <1>3, Parts DEF PageInv
<1>10. FlightInv'
  <2>1. at[p].in # "caller" /\ at[p].of \in Targets /\ l.in # "caller" /\ l.of \in Targets
    BY <1>1, <1>2, <1>7, Parts DEF FlightInv
  <2>2. l.in = "entry" => l.of \notin hooked["veh"]
    BY <1>1, <1>2, <1>7, Parts DEF FlightInv
  <2> QED
    BY <2>1, <2>2, <1>1, <1>3, <1>4, <1>7, <1>8, Parts DEF FlightInv
<1>11. ArmedInv'
  BY <1>7 DEF ArmedInv, Guarded
<1> QED
  BY <1>1, <1>3, <1>6, <1>9, <1>10, <1>11, Parts DEF Stays, Shape

(* The single step guards all pages with hooks, none of which is written.  *)
LEMMA RearmStep ==
  ASSUME TypeOK, QuietInv, NEW p \in Callers, Rearm(p), UNCHANGED admin
  PROVE  Stays
<1>1. /\ pc[p] = "rearm" /\ pc' = [pc EXCEPT ![p] = "run"] /\ prot' = Rearmed
      /\ UNCHANGED <<hooked, chain, patched, old, saved, job, at, tf, dead>>
  BY DEF Rearm, Goto, maps, admin
<1>2. /\ JobInv' /\ HookInv' /\ ChainInv' /\ PatchedInv'
      /\ (\A x : Pending(x)' <=> Pending(x)) /\ (\A k : Registered(k)' <=> Registered(k))
      /\ Page' = Page /\ (\A h : Opened(h)' <=> Opened(h)) /\ \A h : HookOn(h)' <=> HookOn(h)
  BY <1>1, Parts, CallerKeeps DEF maps
<1>3. /\ \A g \in Pages : Rearmed[g] = IF HookOn(g) THEN "GUARD" ELSE prot[g]
      /\ Rearmed \in [Pages -> {"RX", "GUARD", "RWX"}]
  BY DEF Rearmed, HookOn, TypeOK
<1>4. TypeOK'
  BY <1>1, <1>3 DEF TypeOK
<1>5. /\ pc'[p] = "run" /\ (\A q \in Callers : q # p => pc'[q] = pc[q]) /\ InFlight(p)
      /\ \A q \in Callers : q # p => (InFlight(q)' <=> InFlight(q))
  BY <1>1 DEF TypeOK, InFlight
<1>6. ~Pending("guard") /\ \A g \in Pages : Opened(g) => ~HookOn(g)
  <2>1. CASE job = NULL
    BY <2>1, Parts, CallFacts DEF Opened
  <2>2. CASE job # NULL
    <3>1. ~Pending("guard") /\ (job.kind = "int3" => ~HookOn(Page))
      BY <2>2, <1>5, Parts, Flying
    <3> QED
      BY <3>1, Parts, CallFacts DEF Opened
  <2> QED
    BY <2>1, <2>2
<1>7. PageInv'
  <2>1. \A g \in Pages : prot'[g] = "GUARD" => HookOn(g) \/ (Pending("unguard") /\ g = Page)
    BY <1>1, <1>3, Parts DEF PageInv
  <2>2. \A g \in Pages : prot'[g] = "RWX" <=> Opened(g)
    BY <1>1, <1>3, <1>6, Parts DEF PageInv
  <2> QED
    BY <2>1, <2>2, <1>1, <1>2, <1>6, Parts DEF PageInv
<1>8. FlightInv'
  BY <1>1, <1>2, <1>5, Parts DEF FlightInv, InFlight
<1>9. ArmedInv'
  <2>1. ASSUME NEW t \in hooked["veh"] PROVE prot'[PageOf[t]] = "GUARD"
    <3>1. PageOf[t] \in Pages /\ HookOn(PageOf[t])
      BY DEF TypeOK, Pages, Kinds, HookOn
    <3> QED
      BY <3>1, <1>1, <1>3
  <2> QED
    BY <2>1, <1>1 DEF ArmedInv, Guarded
<1> QED
  BY <1>1, <1>2, <1>4, <1>7, <1>8, <1>9, Parts DEF Stays, Shape

-----------------------------------------------------------------------------
(* No code is hooked and nothing runs.                                     *)
LEMMA Start == Init => IInv
<1> SUFFICES ASSUME Init PROVE IInv
  OBVIOUS
<1>1. /\ hooked = [k \in Kinds |-> {}] /\ chain = <<>> /\ patched = {}
      /\ prot = [g \in Pages |-> "RX"] /\ old = [t \in Targets |-> "RX"]
      /\ job = NULL /\ todo = <<>> /\ saved = NULL
      /\ at = [p \in Callers |-> Nowhere] /\ pc = [p \in Callers |-> "run"]
      /\ tf = [p \in Callers |-> FALSE] /\ dead = FALSE /\ ordered = TRUE /\ quiet = TRUE
  BY DEF Init
<1>2. TypeOK
  <2>1. chain \in Seq(Kinds) /\ \A i, j \in DOMAIN chain : chain[i] = chain[j] => i = j
    BY <1>1
  <2>2. at \in [Callers -> [in : {"caller", "entry", "body", "detour"}, of : Targets \cup {NULL}]]
    BY <1>1 DEF Nowhere
  <2> QED
    BY <1>1, <2>1, <2>2 DEF TypeOK
<1>3. JobInv /\ \A x : ~Pending(x)
  BY <1>1 DEF JobInv, Pending
<1>4. \A k : ~Registered(k)
  BY <1>1 DEF Registered
<1>5. HookInv
  BY <1>3 DEF HookInv
<1>6. ChainInv
  BY <1>1, <1>3, <1>4 DEF ChainInv
<1>7. PatchedInv
  BY <1>1, <1>3 DEF PatchedInv, Writing, Kinds
<1>8. PageInv
  BY <1>1, <1>3 DEF PageInv, Opened
<1>9. FlightInv
  BY <1>1 DEF FlightInv, InFlight, Nowhere
<1>10. Quiet /\ Ordered /\ VehFirst /\ ArmedInv
  BY <1>1 DEF Quiet, Ordered, VehFirst, Registered, Pending, ArmedInv, Kinds
<1> QED
  BY <1>1, <1>2, <1>3, <1>5, <1>6, <1>7, <1>8, <1>9, <1>10 DEF IInv, QuietInv,
     Shape

(* Every step of the thread that changes hooks.                            *)
LEMMA AdminStays ==
  ASSUME TypeOK, QuietInv, AdminStep, UNCHANGED cpu
  PROVE  Stays
<1>1. CASE Add
  BY <1>1, AddStep
<1>2. CASE Remove
  BY <1>2, RemoveStep
<1>3. CASE Guard
  BY <1>3, GuardStep
<1>4. CASE Unguard
  BY <1>4, UnguardStep
<1>5. CASE Read
  BY <1>5, ReadAction
<1>6. CASE ReadStep
  BY <1>6, ReadStepAction
<1>7. CASE Protect
  BY <1>7, ProtectStep
<1>8. CASE Write
  BY <1>8, WriteStep
<1>9. CASE Restore
  BY <1>9, RestoreStep
<1>10. CASE \E t \in Targets : EnableVeh(t) \/ DisableVeh(t) \/ EnableInt3(t) \/ DisableInt3(t)
  BY <1>10, EnableVehStep, DisableVehStep, EnableInt3Step, DisableInt3Step
<1> QED
  BY <1>1, <1>2, <1>3, <1>4, <1>5, <1>6, <1>7, <1>8, <1>9, <1>10 DEF AdminStep

(* Every step of a thread that calls targets.                              *)
LEMMA CallerStays ==
  ASSUME TypeOK, QuietInv, NEW p \in Callers, CallerStep(p), UNCHANGED admin
  PROVE  Stays
<1>1. CASE TrapGuard(p)
  BY <1>1, TrapGuardStep
<1>2. CASE TrapInt3(p)
  BY <1>2, TrapInt3Step
<1>3. CASE Execute(p)
  BY <1>3, ExecuteStep
<1>4. CASE Dispatch(p)
  BY <1>4, DispatchStep
<1>5. CASE Rearm(p)
  BY <1>5, RearmStep
<1>6. CASE \E k \in Kinds : Redirect(p, k)
  BY <1>6, RedirectStep
<1>7. CASE \E t \in Targets : Call(p, t)
  BY <1>7, CallStep
<1> QED
  BY <1>1, <1>2, <1>3, <1>4, <1>5, <1>6, <1>7 DEF CallerStep

(* The handlers stay in order: the first INT 3 hook comes when there is no *)
(* page-guard handler, and the list only loses a handler with its kind.    *)
LEMMA OrderKept ==
  ASSUME TypeOK, QuietInv, Ordered, VehFirst, Next
  PROVE  VehFirst'
<1>1. CASE Add
  <2>1. At("add") /\ chain' = <<job.kind>> \o chain
    BY <1>1 DEF Add
  <2>2. job # NULL /\ Pending("add") /\ ~Pending("remove")
    BY <2>1, Parts, Advance, CallFacts
  <2>3. job.kind \in Kinds /\ ~Registered(job.kind)
    BY <2>2, Parts, CallFacts DEF ChainInv
  <2>4. Head(chain') = job.kind /\ \A l : Registered(l)' <=> Registered(l) \/ l = job.kind
    BY <2>1, <2>3, Added
  <2> QED
    BY <2>2, <2>3, <2>4 DEF Ordered, VehFirst, Kinds
<1>2. CASE Remove
  <2>1. At("remove") /\ job.kind \in Kinds
    <3>1. job # NULL /\ Pending("remove")
      BY <1>2, Parts, Advance DEF Remove
    <3> QED
      BY <1>2, <3>1, Parts, CallFacts DEF Remove
  <2>2. \A l : Registered(l)' <=> Registered(l) /\ l # job.kind
    BY <1>2, Removed DEF Remove
  <2> QED
    BY <2>1, <2>2 DEF VehFirst, Kinds
<1>3. CASE ~Add /\ ~Remove
  <2>1. chain' = chain
    BY <1>3 DEF Next, AdminStep, Guard, Unguard, Read, ReadStep, Protect, Write, Restore, EnableVeh,
       DisableVeh, EnableInt3, DisableInt3, Begin, CallerStep, TrapGuard, TrapInt3, Execute,
       Dispatch, Rearm, Redirect, Call, maps
  <2> QED
    BY <2>1 DEF VehFirst, Registered
<1> QED
  BY <1>1, <1>2, <1>3

(* The invariant is inductive.                                             *)
LEMMA Inductive == IInv /\ [Next]_vars => IInv'
<1> SUFFICES ASSUME IInv, [Next]_vars PROVE IInv'
  OBVIOUS
<1>1. CASE Next
  <2>1. TypeOK /\ QuietInv /\ ordered \in BOOLEAN
    BY <1>1 DEF IInv, Next
  <2>2. Stays
    BY <1>1, <2>1, AdminStays, CallerStays DEF Next
  <2>3. ordered' = (ordered /\ Ordered') /\ quiet' = (quiet /\ Quiet')
    BY <1>1 DEF Next
  <2>4. ASSUME quiet' PROVE QuietInv'
    <3>1. Quiet' /\ ~dead' /\ Shape' /\ (VehFirst /\ ArmedInv => ArmedInv')
      BY <2>2, <2>3, <2>4 DEF Stays
    <3>2. ASSUME ordered' PROVE Ordered' /\ VehFirst' /\ ArmedInv'
      <4>1. ordered /\ Ordered'
        BY <3>2, <2>3
      <4>2. Ordered /\ VehFirst /\ ArmedInv
        BY <4>1, <2>1 DEF QuietInv
      <4> QED
        BY <1>1, <2>1, <3>1, <4>1, <4>2, OrderKept
    <3> QED
      BY <3>1, <3>2 DEF QuietInv
  <2>5. ordered' \in BOOLEAN /\ quiet' \in BOOLEAN
    BY <2>3
  <2> QED
    BY <2>2, <2>4, <2>5 DEF IInv, Stays
<1>2. CASE UNCHANGED vars
  <2>1. UNCHANGED <<hooked, chain, patched, prot, old, job, todo, saved, at, pc, tf, dead,
                    ordered, quiet>>
    BY <1>2 DEF vars, maps, memory, admin, cpu
  <2>2. /\ (\A x : Pending(x)' <=> Pending(x)) /\ (\A k : Registered(k)' <=> Registered(k))
        /\ (\A p : InFlight(p)' <=> InFlight(p)) /\ Page' = Page
    BY <2>1 DEF Pending, Registered, InFlight, Page
  <2>3. (\A g : Opened(g)' <=> Opened(g)) /\ \A g : HookOn(g)' <=> HookOn(g)
    BY <2>1, <2>2 DEF Opened, HookOn
  <2>4. \A t : Writing(t)' <=> Writing(t)
    BY <2>1, <2>2 DEF Writing
  <2>5. TypeOK => TypeOK'
    BY <2>1 DEF TypeOK
  <2>6. (JobInv => JobInv') /\ (HookInv => HookInv') /\ (ChainInv => ChainInv')
    BY <2>1, <2>2 DEF JobInv, HookInv, ChainInv
  <2>7. (PatchedInv => PatchedInv') /\ (PageInv => PageInv') /\ (FlightInv => FlightInv')
    BY <2>1, <2>2, <2>3, <2>4 DEF PatchedInv, PageInv, FlightInv
  <2>8. (Ordered => Ordered') /\ (VehFirst => VehFirst') /\ (ArmedInv => ArmedInv')
    BY <2>1, <2>2, <2>3 DEF Ordered, VehFirst, ArmedInv, Guarded
  <2>9. Quiet => Quiet'
    BY <2>1, <2>2 DEF Quiet, FirstOrLast
  <2> QED
    BY <2>1, <2>5, <2>6, <2>7, <2>8, <2>9 DEF IInv, QuietInv, Shape
<1> QED
  BY <1>1, <1>2

(* So it holds in every reachable state.                                   *)
LEMMA Invariance == Spec => []IInv
BY Start, Inductive, PTL DEF Spec

-----------------------------------------------------------------------------
(* Every variable has its type and a handler is registered once, whatever  *)
(* hooks the two files enable, on whatever pages.                          *)
THEOREM TypeCorrect == Spec => []TypeOK
<1>1. IInv => TypeOK
  BY DEF IInv
<1> QED
  BY <1>1, Invariance, PTL

(* With hooks of both kinds in force, the first INT 3 hook enabled before  *)
(* the first page-guard hook, and hooks changed while no thread is handling*)
(* an exception they need: the page of every enabled page-guard hook is    *)
(* guarded or about to be.  That the handlers are in order is part of what *)
(* is proved.                                                              *)
THEOREM ArmedHooks == Spec => []GuardsKept
<1>1. IInv => GuardsKept
  BY DEF IInv, QuietInv, GuardsKept, ArmedInv, Guarded, Armed, Opened
<1> QED
  BY <1>1, Invariance, PTL

(* Nor does then any exception go unhandled, or a write to a page fault.   *)
THEOREM Handled == Spec => []NoCrash
<1>1. IInv => NoCrash
  BY DEF IInv, QuietInv, NoCrash
<1> QED
  BY <1>1, Invariance, PTL

(* Between two changes of hooks a call of a target with a hook of either   *)
(* kind runs its own code only if another thread is about to restore its   *)
(* page's guard.                                                           *)
THEOREM Window == Spec => OwnCodeOnlyInWindow
<1> DEFINE Bypass(p, t) ==
      at[p] = [in |-> "entry", of |-> t] /\ at'[p] = [in |-> "body", of |-> t]
      => /\ t \notin hooked["int3"]
         /\ t \in hooked["veh"] => \E q \in Callers \ {p} : InFlight(q)
    Allowed == ordered /\ quiet /\ job = NULL =>
                 \A p \in Callers : \A t \in Targets : Bypass(p, t)
<1>1. ASSUME IInv, [Next]_vars PROVE [Allowed]_vars
  <2> SUFFICES ASSUME Next, ordered, quiet, job = NULL, NEW p \in Callers, NEW t \in Targets,
                      at[p] = [in |-> "entry", of |-> t], at'[p] = [in |-> "body", of |-> t]
               PROVE  /\ t \notin hooked["int3"]
                      /\ t \in hooked["veh"] => \E q \in Callers \ {p} : InFlight(q)
    BY <1>1
  <2>1. TypeOK /\ QuietInv /\ ArmedInv
    BY <1>1 DEF IInv, QuietInv
  <2>2. \A x : ~Pending(x)
    BY <2>1, Parts, CallFacts
  <2>3. Execute(p)
    <3>1. at'[p] # at[p]
      OBVIOUS
    <3>2. PICK q \in Callers : CallerStep(q)
      BY <3>1 DEF Next, cpu
    <3>3. \/ Execute(q) \/ (\E k \in Kinds : Redirect(q, k)) \/ \E u \in Targets : Call(q, u)
      BY <3>1, <3>2 DEF CallerStep, TrapGuard, TrapInt3, Dispatch, Rearm
    <3>4. ASSUME q # p PROVE at'[p] = at[p]
      BY <3>3, <3>4, <2>1 DEF Execute, Redirect, Call, MovesTo, TypeOK
    <3>5. ASSUME NEW k \in Kinds, Redirect(p, k) PROVE FALSE
      <4>1. at' = at \/ at'[p] = [in |-> "detour", of |-> at[p].of]
        BY <3>5, <2>1 DEF Redirect, MovesTo, TypeOK
      <4> QED
        BY <4>1, <3>1
    <3>6. ASSUME NEW u \in Targets, Call(p, u) PROVE FALSE
      BY <3>6 DEF Call, Nowhere
    <3> QED
      BY <3>1, <3>3, <3>4, <3>5, <3>6
  <2>4. pc[p] = "run" /\ prot[PageOf[t]] # "GUARD" /\ t \notin patched
    BY <2>3 DEF Execute, Goto, OnGuard, OnInt3
  <2>5. t \notin hooked["int3"]
    BY <2>1, <2>2, <2>4, Parts DEF PatchedInv, Writing
  <2>6. ASSUME t \in hooked["veh"] PROVE \E q \in Callers \ {p} : InFlight(q)
    <3>1. PICK q \in Callers : InFlight(q)
      BY <2>1, <2>2, <2>4, <2>6 DEF ArmedInv, Guarded, Opened
    <3>2. ~tf[p]
      BY <2>1, <2>4, <2>6, Parts DEF FlightInv, TypeOK
    <3> QED
      BY <3>1, <3>2, <2>4 DEF InFlight
  <2> QED
    BY <2>5, <2>6
<1> QED
  BY <1>1, Invariance, PTL DEF Spec, OwnCodeOnlyInWindow

=============================================================================
