----------------------- MODULE TrampolineBuildProofs -----------------------
(***************************************************************************)
(* Proofs about TrampolineBuild, for any instructions a target may hold,   *)
(* any addresses and any padding.  Whatever is copied fits its slot, the   *)
(* patch overwrites only what was moved or is padding, and the jumps within*)
(* the moved code still lead where they led.                               *)
(*                                                                         *)
(* A jump forward is the difficult part: its destination is not copied yet *)
(* when the jump is.  JumpInv says what the loop keeps until it gets there.*)
(***************************************************************************)
EXTENDS TrampolineBuild, TLAPS

(* What CopyJumpBack writes stands for an instruction, too.                *)
Backs == [kind : {"back"}, len : 1 .. 15, dest : Int]
Moved == [inst : Insts \cup Backs, old : 0 .. 19, new : 0 .. TrampolineMaxSize, size : 1 .. CallAbs]

Typed ==
  /\ oldPos \in 0 .. 34 /\ newPos \in 0 .. TrampolineMaxSize /\ jmpDest \in 0 .. JmpRel - 1
  /\ copied \in Seq(Moved) /\ Len(copied) <= MaxIPs
  /\ patchAbove \in BOOLEAN /\ above \in BOOLEAN /\ after \in 0 .. MaxPadding
  /\ patchedPos \in {Target, Target - JmpRel} /\ patchedSize \in {0, 5, 7} /\ operand \in Int
  /\ phase \in {"copy", "copied", "built", "enabled", "refused"}
  /\ phase = "copy" => oldPos <= 19

(* The copies follow each other, in the slot and in the target.            *)
LayoutInv ==
  \A k \in 1 .. Len(copied) :
    /\ copied[k].new + copied[k].size = IF k = Len(copied) THEN newPos ELSE copied[k + 1].new
    /\ copied[k].old < oldPos
    /\ k = Len(copied) => copied[k].old + copied[k].inst.len = oldPos

IsJump(c) == c.inst.kind \in {"jmp", "jcc", "loop"} /\ Internal(c.inst)

(* A jump within the moved code: while its destination is ahead what it    *)
(* passes over is as long in the slot as in the target.                    *)
JumpInv ==
  \A k \in 1 .. Len(copied) : IsJump(copied[k]) =>
    LET c == copied[k]
    IN  /\ c.inst.dest <= jmpDest
        /\ oldPos <= c.inst.dest => newPos - c.new = oldPos - c.old
        /\ c.inst.dest > c.old => Lands(c)

(* The copy ends with an instruction that leaves, behind every destination.*)
EndInv ==
  phase \in {"copied", "built", "enabled"} =>
    /\ copied # <<>> /\ jmpDest < MovedUpTo
    /\ MovedUpTo = oldPos \/ MovedUpTo >= JmpRel

(* There is room for the patch.                                            *)
RoomInv ==
  Built => IF patchAbove THEN above /\ IsCodePadding(after, JmpRelShort)
                         ELSE IsCodePadding(after, JmpRel)

PatchInv ==
  phase = "enabled" =>
    /\ patchedPos = IF patchAbove THEN Target - JmpRel ELSE Target
    /\ patchedSize = IF patchAbove THEN JmpRel + JmpRelShort ELSE JmpRel

IInv == Typed /\ LayoutInv /\ JumpInv /\ EndInv /\ RoomInv /\ PatchInv

-----------------------------------------------------------------------------
(* What the parts of the invariant need of an instruction, and the bounds  *)
(* of the positions as numbers.                                            *)
LEMMA InstTyped ==
  ASSUME NEW i \in Insts \cup Backs
  PROVE  /\ i.len \in 1 .. 15 /\ i.dest \in Int
         /\ i \in Insts => i.kind \in Kinds
         /\ i.kind \in {"rip", "rip_jmp"} => i.len >= 6
         /\ i.kind = "back" => i \notin Insts
<1>1. CASE i \in Insts
  <2>1. i.kind \in Kinds /\ i.len \in 1 .. 15 /\ i.dest \in Int
    BY <1>1, InstAssumption DEF InstAssumption
  <2>2. i.kind \in {"rip", "rip_jmp"} => i.len >= 6
    BY <1>1, InstAssumption DEF InstAssumption
  <2>3. i.kind # "back"
    BY <2>1 DEF Kinds
  <2> QED
    BY <2>1, <2>2, <2>3
<1>2. CASE i \in Backs
  <2>1. i.kind = "back" /\ i.len \in 1 .. 15 /\ i.dest \in Int
    BY <1>2 DEF Backs
  <2>2. i \notin Insts
    <3> SUFFICES ASSUME i \in Insts PROVE FALSE
      OBVIOUS
    <3>1. i.kind \in Kinds
      BY InstAssumption DEF InstAssumption
    <3> QED
      BY <3>1, <2>1 DEF Kinds
  <2> QED
    BY <2>1, <2>2
<1> QED
  BY <1>1, <1>2

(* Nothing is copied when the loop starts.                                 *)
LEMMA InitIInv == Init => IInv
<1> SUFFICES ASSUME Init PROVE IInv
  OBVIOUS
<1> USE DEF Init
<1>1. copied \in Seq(Moved) /\ Len(copied) = 0
  OBVIOUS
<1>2. Typed
  <2>1. oldPos \in 0 .. 34 /\ oldPos <= 19 /\ newPos \in 0 .. 50 /\ jmpDest \in 0 .. 4
    OBVIOUS
  <2>2. after \in 0 .. MaxPadding /\ operand \in Int
    BY InstAssumption DEF InstAssumption
  <2>3. patchedPos \in {Target, Target - JmpRel} /\ patchedSize \in {0, 5, 7}
    OBVIOUS
  <2>4. patchAbove \in BOOLEAN /\ above \in BOOLEAN
    OBVIOUS
  <2>5. copied \in Seq(Moved) /\ Len(copied) <= 8
    BY <1>1
  <2>6. phase \in {"copy", "copied", "built", "enabled", "refused"}
    OBVIOUS
  <2> QED
    BY <2>1, <2>2, <2>3, <2>4, <2>5, <2>6
    DEF Typed, JmpRel, MaxIPs, TrampolineMaxSize, SlotSize, JmpAbs
<1>3. LayoutInv /\ JumpInv
  BY <1>1 DEF LayoutInv, JumpInv
<1>4. EndInv /\ RoomInv /\ PatchInv
  BY DEF EndInv, RoomInv, PatchInv, Built
<1> QED
  BY <1>2, <1>3, <1>4 DEF IInv

(* A refused Enable leaves everything else as it was.                      *)
LEMMA RefuseStep == IInv /\ Refuse => IInv'
<1> SUFFICES ASSUME IInv, Refuse PROVE IInv'
  OBVIOUS
<1>0. /\ phase' = "refused" /\ UNCHANGED <<oldPos, newPos, jmpDest, copied>>
      /\ UNCHANGED <<patchAbove, after, above, patchedPos, patchedSize, operand>>
  BY DEF Refuse, build, patch
<1>1. Typed'
  BY <1>0 DEF IInv, Typed
<1>2. LayoutInv'
  BY <1>0 DEF IInv, LayoutInv
<1>3. JumpInv'
  BY <1>0 DEF IInv, JumpInv, IsJump, Lands
<1>4. EndInv' /\ RoomInv' /\ PatchInv'
  BY <1>0 DEF EndInv, RoomInv, PatchInv, Built
<1> QED
  BY <1>1, <1>2, <1>3, <1>4 DEF IInv

(* A pass of the loop that copies i as size bytes keeps the invariant: a   *)
(* destination may only grow, the jump's own included, the last pass leaves*)
(* them all behind, and every other one begins before JmpRel.              *)
LEMMA EmitStep ==
  ASSUME IInv, phase = "copy",
         NEW i \in Insts \cup Backs, NEW size \in 1 .. CallAbs,
         NEW dest \in 0 .. JmpRel - 1, NEW last \in BOOLEAN,
         jmpDest <= dest,
         i.kind \in {"jmp", "jcc", "loop"} /\ Internal(i) => i.dest <= dest,
         last => IF i.kind = "back" THEN oldPos >= JmpRel ELSE dest < oldPos + i.len,
         ~last => oldPos < JmpRel,
         Emit(i, size, dest, last)
  PROVE  IInv'
<1>i. i.len \in 1 .. 15 /\ i.dest \in Int
  BY InstTyped
<1>t. /\ oldPos \in 0 .. 19 /\ newPos \in 0 .. 50 /\ jmpDest \in 0 .. 4
      /\ dest \in 0 .. 4 /\ size \in 1 .. 16
  BY DEF IInv, Typed, JmpRel, TrampolineMaxSize, SlotSize, JmpAbs, CallAbs
<1>c. copied \in Seq(Moved) /\ Len(copied) \in Nat
  BY DEF IInv, Typed
<1> PICK len \in 1 .. 15, d \in Int : len = i.len /\ d = i.dest
  BY <1>i
<1>1. CASE Refuse
  BY <1>1, RefuseStep
<1>2. CASE ~Refuse
  <2> DEFINE r == [inst |-> i, old |-> oldPos, new |-> newPos, size |-> size]
             n == Len(copied)
  <2>e. /\ LengthKept(size, len, dest)
        /\ newPos + size <= 50 /\ n < 8
        /\ copied' = Append(copied, r)
        /\ newPos' = newPos + size /\ oldPos' = oldPos + len /\ jmpDest' = dest
        /\ phase' = IF last THEN "copied" ELSE "copy"
        /\ UNCHANGED <<patchAbove, after, above, patchedPos, patchedSize, operand>>
    BY <1>2 DEF Emit, patch, TrampolineMaxSize, SlotSize, JmpAbs, MaxIPs
  <2>p. newPos' = newPos + size /\ newPos + size <= 50 /\ oldPos' = oldPos + len /\ jmpDest' = dest
    BY <2>e
  <2>l. oldPos < dest => size = len
    BY <2>e DEF LengthKept
  <2>r. /\ r.inst = i /\ r.inst.len = len /\ r.inst.dest = d
        /\ r.old = oldPos /\ r.new = newPos /\ r.size = size
        /\ r \in Moved
    BY <1>t DEF Moved, TrampolineMaxSize, SlotSize, JmpAbs, CallAbs
  <2> HIDE DEF r
  <2>a. /\ copied' \in Seq(Moved) /\ Len(copied') = n + 1 /\ copied'[n + 1] = r
        /\ \A k \in 1 .. n : copied'[k] = copied[k]
    BY <1>c, <2>e, <2>r
  <2>m. \A k \in 1 .. n : /\ copied[k] \in Moved /\ copied[k].inst.dest \in Int
                           /\ copied[k].old \in 0 .. 19 /\ copied[k].new \in 0 .. 50
                           /\ copied[k].inst.len \in 1 .. 15 /\ copied[k].size \in 1 .. 16
    <3> SUFFICES ASSUME NEW k \in 1 .. n
                 PROVE  /\ copied[k] \in Moved /\ copied[k].inst.dest \in Int
                        /\ copied[k].old \in 0 .. 19 /\ copied[k].new \in 0 .. 50
                        /\ copied[k].inst.len \in 1 .. 15 /\ copied[k].size \in 1 .. 16
      OBVIOUS
    <3>1. copied[k] \in Moved
      BY <1>c
    <3>2. copied[k].inst \in Insts \cup Backs
      BY <3>1 DEF Moved
    <3>3. copied[k].inst.dest \in Int /\ copied[k].inst.len \in 1 .. 15
      BY <3>2, InstTyped
    <3>4. copied[k].old \in 0 .. 19 /\ copied[k].new \in 0 .. 50 /\ copied[k].size \in 1 .. 16
      BY <3>1 DEF Moved, TrampolineMaxSize, SlotSize, JmpAbs, CallAbs
    <3> QED
      BY <3>1, <3>3, <3>4
  <2> HIDE DEF n
  <2>n. n \in Nat /\ n = Len(copied)
    BY <1>c DEF n
  <2>1. Typed'
    <3>1. oldPos' \in 0 .. 34 /\ newPos' \in 0 .. 50
      BY <1>t, <2>p
    <3>7. ASSUME ~last PROVE oldPos' <= 19
      <4>1. oldPos < 5
        BY <3>7 DEF JmpRel
      <4> QED
        BY <4>1, <1>t, <2>p
    <3>2. after' \in 0 .. MaxPadding /\ above' \in BOOLEAN /\ patchAbove' \in BOOLEAN
      BY <2>e DEF IInv, Typed
    <3>3. /\ patchedPos' \in {Target, Target - JmpRel} /\ patchedSize' \in {0, 5, 7}
          /\ operand' \in Int
      BY <2>e DEF IInv, Typed
    <3>4. Len(copied') <= 8 /\ copied' \in Seq(Moved)
      BY <2>a, <2>e, <2>n
    <3>5. phase' \in {"copy", "copied"} /\ (phase' = "copy" => ~last)
      BY <2>e
    <3>6. jmpDest' \in 0 .. JmpRel - 1
      BY <2>e
    <3> QED
      BY <3>1, <3>2, <3>3, <3>4, <3>5, <3>6, <3>7
      DEF Typed, TrampolineMaxSize, SlotSize, JmpAbs, MaxIPs
  <2>2. LayoutInv'
    <3> SUFFICES ASSUME NEW k \in 1 .. n + 1
                 PROVE  /\ copied'[k].new + copied'[k].size
                             = IF k = n + 1 THEN newPos' ELSE copied'[k + 1].new
                        /\ copied'[k].old < oldPos'
                        /\ k = n + 1 => copied'[k].old + copied'[k].inst.len = oldPos'
      BY <2>a DEF LayoutInv
    <3>1. CASE k = n + 1
      <4>1. copied'[k].new = newPos /\ copied'[k].size = size /\ copied'[k].old = oldPos
        BY <3>1, <2>a, <2>r
      <4>2. copied'[k].inst.len = len
        BY <3>1, <2>a, <2>r
      <4> QED
        BY <3>1, <4>1, <4>2, <2>p, <1>t
    <3>2. CASE k # n + 1
      <4>1. k \in 1 .. n /\ copied'[k] = copied[k]
        BY <3>2, <2>a, <2>n
      <4>2. /\ copied[k].new + copied[k].size = IF k = n THEN newPos ELSE copied[k + 1].new
            /\ copied[k].old < oldPos
        BY <4>1, <2>n DEF IInv, LayoutInv
      <4>3. copied'[k + 1].new = IF k = n THEN newPos ELSE copied[k + 1].new
        <5>1. CASE k = n
          BY <5>1, <2>a, <2>r
        <5>2. CASE k # n
          <6>1. k + 1 \in 1 .. n
            BY <5>2, <4>1, <2>n
          <6> QED
            BY <6>1, <5>2, <2>a
        <5> QED
          BY <5>1, <5>2
      <4>4. copied[k].old < oldPos'
        BY SMTT(30), <4>1, <4>2, <2>m, <2>p, <1>t
      <4> QED
        BY <3>2, <4>1, <4>2, <4>3, <4>4
    <3> QED
      BY <3>1, <3>2
  <2>3. JumpInv'
    <3> SUFFICES ASSUME NEW k \in 1 .. n + 1, IsJump(copied'[k])
                 PROVE  /\ copied'[k].inst.dest <= jmpDest'
                        /\ oldPos' <= copied'[k].inst.dest
                             => newPos' - copied'[k].new = oldPos' - copied'[k].old
                        /\ copied'[k].inst.dest > copied'[k].old =>
                             \A j \in 1 .. n + 1 :
                               copied'[j].old = copied'[k].inst.dest =>
                                 copied'[j].new = copied'[k].new
                                                    + (copied'[k].inst.dest - copied'[k].old)
      BY <2>a DEF JumpInv, Lands, IsJump
    <3>o. \A j \in 1 .. n : copied'[j].old < oldPos
      BY <2>a, <2>n DEF IInv, LayoutInv
    <3>1. CASE k = n + 1
      <4>1. copied'[k] = r
        BY <3>1, <2>a
      <4>2. d <= dest
        BY <4>1, <2>r DEF IsJump
      <4>3. oldPos' <= d => newPos' - newPos = oldPos' - oldPos
        BY <4>2, <1>t, <2>p, <2>l
      <4>4. d > oldPos => \A j \in 1 .. n + 1 : copied'[j].old # d
        <5> SUFFICES ASSUME d > oldPos, NEW j \in 1 .. n + 1
                     PROVE  copied'[j].old # d
          OBVIOUS
        <5>1. CASE j = n + 1
          BY <5>1, <2>a, <2>r, <1>t
        <5>2. CASE j # n + 1
          <6>1. j \in 1 .. n
            BY <5>2, <2>n
          <6>2. copied'[j].old < oldPos
            BY <6>1, <3>o
          <6>3. copied'[j] = copied[j]
            BY <6>1, <2>a
          <6>4. copied'[j].old \in 0 .. 19
            BY <6>1, <6>3, <2>m
          <6> QED
            BY <6>2, <6>4, <1>t
        <5> QED
          BY <5>1, <5>2
      <4> QED
        BY <4>1, <4>2, <4>3, <4>4, <2>r, <2>e
    <3>2. CASE k # n + 1
      <4> DEFINE c == copied[k]
      <4>1. k \in 1 .. n /\ copied'[k] = c
        BY <3>2, <2>a, <2>n
      <4>2. /\ c.inst.dest <= jmpDest
            /\ oldPos <= c.inst.dest => newPos - c.new = oldPos - c.old
            /\ c.inst.dest > c.old => Lands(c)
        BY <4>1, <2>n DEF IInv, JumpInv, IsJump
      <4>3. c.inst.dest \in Int /\ c.old \in Int /\ c.new \in Int
        BY <4>1, <2>m
      <4>l. c.inst.dest > c.old =>
              \A j \in 1 .. n : copied[j].old = c.inst.dest =>
                copied[j].new = c.new + (c.inst.dest - c.old)
        BY <4>2, <2>n DEF Lands
      <4> HIDE DEF c
      <4>4. c.inst.dest <= jmpDest'
        BY <4>2, <4>3, <2>p, <1>t
      <4>5. oldPos' <= c.inst.dest => newPos' - c.new = oldPos' - c.old
        BY <4>2, <4>3, <2>p, <2>l, <1>t
      <4>6. ASSUME c.inst.dest > c.old, NEW j \in 1 .. n + 1, copied'[j].old = c.inst.dest
            PROVE  copied'[j].new = c.new + (c.inst.dest - c.old)
        <5>1. CASE j = n + 1
          <6>1. copied'[j].old = oldPos /\ copied'[j].new = newPos
            BY <5>1, <2>a, <2>r
          <6> QED
            BY <6>1, <4>6, <4>2, <4>3, <1>t
        <5>2. CASE j # n + 1
          <6>1. j \in 1 .. n /\ copied'[j] = copied[j]
            BY <5>2, <2>n, <2>a
          <6> QED
            BY <6>1, <4>6, <4>l
        <5> QED
          BY <5>1, <5>2
      <4> QED
        BY <4>1, <4>4, <4>5, <4>6
    <3> QED
      BY <3>1, <3>2
  <2>4. EndInv'
    <3> SUFFICES ASSUME last
                 PROVE  /\ copied' # <<>>
                        /\ jmpDest' < MovedUpTo'
                        /\ (MovedUpTo = oldPos)' \/ (MovedUpTo >= JmpRel)'
      BY <2>e DEF EndInv
    <3>1. copied' # <<>>
      BY <2>a, <2>n
    <3>2. MovedUpTo' = IF i.kind = "back" THEN oldPos ELSE oldPos + len
      BY <2>a, <2>r DEF MovedUpTo
    <3>3. CASE i.kind = "back"
      <4>1. oldPos >= 5
        BY <3>3 DEF JmpRel
      <4> QED
        BY <4>1, <3>1, <3>2, <3>3, <2>p, <1>t DEF JmpRel
    <3>4. CASE i.kind # "back"
      BY <3>1, <3>2, <3>4, <2>p, <1>t
    <3> QED
      BY <3>3, <3>4
  <2>5. RoomInv' /\ PatchInv'
    BY <2>e DEF RoomInv, PatchInv, Built
  <2> QED
    BY <2>1, <2>2, <2>3, <2>4, <2>5 DEF IInv
<1> QED
  BY <1>1, <1>2

(* A pass of the loop, whatever the instruction.                           *)
LEMMA CopyStep ==
  ASSUME IInv, NEW i \in Insts, CopyInst(i)
  PROVE  IInv'
<1>1. i.len \in 1 .. 15 /\ i.dest \in Int /\ (i.kind \in {"rip", "rip_jmp"} => i.len >= 6)
  BY InstTyped
<1>2. i.kind # "back"
  BY InstTyped
<1>3. /\ oldPos \in 0 .. 34 /\ jmpDest \in 0 .. 4 /\ (phase = "copy" => oldPos <= 19)
  BY DEF IInv, Typed, JmpRel
<1>4. jmpDest \in 0 .. JmpRel - 1 /\ jmpDest <= jmpDest
  BY <1>3 DEF JmpRel
<1>5. /\ JmpAbs \in 1 .. CallAbs /\ CallAbs \in 1 .. CallAbs /\ JccAbs \in 1 .. CallAbs
      /\ i.len \in 1 .. CallAbs
  BY <1>1 DEF JmpAbs, CallAbs, JccAbs
<1>a. CASE CopyError(i)
  BY <1>a, RefuseStep DEF CopyError
<1>b. CASE CopyJumpBack(i)
  <2>1. PICK b \in Insts \cup Backs : b = [kind |-> "back", len |-> i.len, dest |-> oldPos]
    <3>1. [kind |-> "back", len |-> i.len, dest |-> oldPos] \in Backs
      BY <1>1, <1>3 DEF Backs
    <3> QED
      BY <3>1
  <2>2. b.kind = "back"
    BY <2>1
  <2>3. phase = "copy" /\ oldPos >= JmpRel /\ Emit(b, JmpAbs, jmpDest, TRUE)
    BY <1>b, <2>1 DEF CopyJumpBack
  <2> QED
    BY <2>2, <2>3, <1>4, <1>5, EmitStep
<1>c. CASE CopyRip(i)
  <2>1. /\ phase = "copy" /\ oldPos < JmpRel /\ i.kind \in {"rip", "rip_jmp"}
        /\ Emit(i, i.len, jmpDest, i.kind = "rip_jmp")
    BY <1>c DEF CopyRip, Reading
  <2>2. jmpDest < oldPos + i.len
    <3>1. i.len >= 6
      BY <2>1, <1>1
    <3> QED
      BY <3>1, <1>1, <1>3
  <2>3. i.kind \notin {"jmp", "jcc", "loop"}
    BY <2>1
  <2> QED
    BY <2>1, <2>2, <2>3, <1>2, <1>4, <1>5, EmitStep
<1>d. CASE CopyCall(i)
  <2>1. /\ phase = "copy" /\ oldPos < JmpRel /\ i.kind = "call"
        /\ Emit(i, CallAbs, jmpDest, FALSE)
    BY <1>d DEF CopyCall, Reading
  <2> QED
    BY <2>1, <1>2, <1>4, <1>5, EmitStep
<1>e. CASE CopyInternalJump(i)
  <2>1. PICK d \in 0 .. JmpRel - 1 : /\ d = IF jmpDest < i.dest THEN i.dest ELSE jmpDest
                                     /\ jmpDest <= d /\ i.dest <= d
    BY <1>e, <1>1, <1>3 DEF CopyInternalJump, Internal, JmpRel
  <2>2. phase = "copy" /\ oldPos < JmpRel /\ Emit(i, i.len, d, FALSE)
    BY <1>e, <2>1 DEF CopyInternalJump, Reading
  <2> QED
    BY <2>1, <2>2, <1>2, <1>5, EmitStep
<1>f. CASE CopyJmp(i)
  <2>1. /\ phase = "copy" /\ oldPos < JmpRel /\ ~Internal(i)
        /\ Emit(i, JmpAbs, jmpDest, oldPos >= jmpDest)
    BY <1>f DEF CopyJmp, Reading
  <2>2. CASE oldPos >= jmpDest
    <3>1. Emit(i, JmpAbs, jmpDest, TRUE)
      BY <2>1, <2>2 DEF Emit
    <3>2. jmpDest < oldPos + i.len
      BY <2>2, <1>1, <1>3
    <3> QED
      BY <2>1, <3>1, <3>2, <1>2, <1>4, <1>5, EmitStep
  <2>3. CASE ~(oldPos >= jmpDest)
    <3>1. Emit(i, JmpAbs, jmpDest, FALSE)
      BY <2>1, <2>3 DEF Emit
    <3> QED
      BY <2>1, <3>1, <1>2, <1>4, <1>5, EmitStep
  <2> QED
    BY <2>2, <2>3
<1>g. CASE CopyJcc(i)
  <2>1. /\ phase = "copy" /\ oldPos < JmpRel /\ ~Internal(i)
        /\ Emit(i, JccAbs, jmpDest, FALSE)
    BY <1>g DEF CopyJcc, Reading
  <2> QED
    BY <2>1, <1>2, <1>4, <1>5, EmitStep
<1>h. CASE CopyLoop(i)
  BY <1>h, RefuseStep DEF CopyLoop
<1>j. CASE CopyRet(i)
  <2>1. /\ phase = "copy" /\ oldPos < JmpRel /\ i.kind = "ret"
        /\ Emit(i, i.len, jmpDest, oldPos >= jmpDest)
    BY <1>j DEF CopyRet, Reading
  <2>2. CASE oldPos >= jmpDest
    <3>1. Emit(i, i.len, jmpDest, TRUE)
      BY <2>1, <2>2 DEF Emit
    <3>2. jmpDest < oldPos + i.len
      BY <2>2, <1>1, <1>3
    <3> QED
      BY <2>1, <3>1, <3>2, <1>2, <1>4, <1>5, EmitStep
  <2>3. CASE ~(oldPos >= jmpDest)
    <3>1. Emit(i, i.len, jmpDest, FALSE)
      BY <2>1, <2>3 DEF Emit
    <3> QED
      BY <2>1, <3>1, <1>2, <1>4, <1>5, EmitStep
  <2> QED
    BY <2>2, <2>3
<1>k. CASE CopyPlain(i)
  <2>1. /\ phase = "copy" /\ oldPos < JmpRel /\ i.kind = "plain"
        /\ Emit(i, i.len, jmpDest, FALSE)
    BY <1>k DEF CopyPlain, Reading
  <2> QED
    BY <2>1, <1>2, <1>4, <1>5, EmitStep
<1> QED
  BY <1>a, <1>b, <1>c, <1>d, <1>e, <1>f, <1>g, <1>h, <1>j, <1>k DEF CopyInst

(* The search for room finds it, or Enable is refused.                     *)
LEMMA RoomStep ==
  ASSUME IInv, NEW m \in 0 .. MaxPadding, NEW hot \in BOOLEAN, FindRoom(m, hot)
  PROVE  IInv'
<1>1. /\ phase = "copied" /\ UNCHANGED <<oldPos, newPos, jmpDest, copied>>
      /\ UNCHANGED <<patchedPos, patchedSize, operand>>
      /\ after' = m /\ above' = hot
  BY DEF FindRoom, build, patch
<1>2. phase' \in {"built", "refused"} /\ patchAbove' \in BOOLEAN
  BY DEF FindRoom
<1>3. Typed'
  BY <1>1, <1>2 DEF IInv, Typed
<1>4. LayoutInv'
  BY <1>1 DEF IInv, LayoutInv
<1>5. JumpInv'
  BY <1>1 DEF IInv, JumpInv, IsJump, Lands
<1>6. EndInv'
  BY <1>1 DEF IInv, EndInv, MovedUpTo
<1>7. RoomInv'
  <2>1. \A k : IsCodePadding(m, k) <=> IsCodePadding(after, k)'
    BY <1>1 DEF IsCodePadding
  <2>2. CASE IsCodePadding(m, JmpRel)
    <3>1. ~patchAbove'
      BY <2>2 DEF FindRoom
    <3>2. IsCodePadding(after, JmpRel)'
      BY <2>1, <2>2
    <3> QED
      BY <3>1, <3>2 DEF RoomInv
  <2>3. CASE ~IsCodePadding(m, JmpRel) /\ IsCodePadding(m, JmpRelShort) /\ hot
    <3>1. patchAbove' /\ above'
      BY <2>3 DEF FindRoom
    <3>2. IsCodePadding(after, JmpRelShort)'
      BY <2>1, <2>3
    <3> QED
      BY <3>1, <3>2 DEF RoomInv
  <2>4. CASE ~IsCodePadding(m, JmpRel) /\ ~(IsCodePadding(m, JmpRelShort) /\ hot)
    <3>1. phase' = "refused"
      BY <2>4 DEF FindRoom
    <3> QED
      BY <3>1 DEF RoomInv, Built
  <2> QED
    BY <2>2, <2>3, <2>4
<1>8. PatchInv'
  BY <1>2 DEF PatchInv
<1> QED
  BY <1>3, <1>4, <1>5, <1>6, <1>7, <1>8 DEF IInv

(* Enable writes the patch PatchInv describes.                             *)
LEMMA EnableStep == IInv /\ Enable => IInv'
<1> SUFFICES ASSUME IInv, Enable PROVE IInv'
  OBVIOUS
<1>1. /\ phase = "built" /\ phase' = "enabled"
      /\ UNCHANGED <<oldPos, newPos, jmpDest, copied, patchAbove, after, above>>
  BY DEF Enable, build
<1>2. /\ operand' = Relay - (Target + JmpRel)
      /\ patchedPos' = IF patchAbove THEN Target - JmpRel ELSE Target
      /\ patchedSize' = IF patchAbove THEN JmpRel + JmpRelShort ELSE JmpRel
  BY DEF Enable
<1>3. Typed'
  <2>1. operand' \in Int
    BY <1>2, InstAssumption DEF IInv, Typed, InstAssumption, Relay, JmpRel,
       TrampolineMaxSize,
       SlotSize, JmpAbs
  <2>2. patchedPos' \in {Target, Target - JmpRel} /\ patchedSize' \in {0, 5, 7}
    BY <1>2 DEF JmpRel, JmpRelShort
  <2> QED
    BY <1>1, <2>1, <2>2 DEF IInv, Typed
<1>4. LayoutInv'
  BY <1>1 DEF IInv, LayoutInv
<1>5. JumpInv'
  BY <1>1 DEF IInv, JumpInv, IsJump, Lands
<1>6. EndInv'
  BY <1>1 DEF IInv, EndInv, MovedUpTo
<1>7. RoomInv'
  BY <1>1 DEF IInv, RoomInv, Built, IsCodePadding
<1>8. PatchInv'
  BY <1>1, <1>2 DEF PatchInv
<1> QED
  BY <1>3, <1>4, <1>5, <1>6, <1>7, <1>8 DEF IInv

(* The invariant holds of every behaviour.                                 *)
LEMMA Invariance == Spec => []IInv
<1>1. IInv /\ [Next]_vars => IInv'
  <2> SUFFICES ASSUME IInv, [Next]_vars PROVE IInv'
    OBVIOUS
  <2>1. ASSUME NEW i \in Insts, CopyInst(i) PROVE IInv'
    BY <2>1, CopyStep
  <2>2. ASSUME NEW m \in 0 .. MaxPadding, NEW hot \in BOOLEAN, FindRoom(m, hot) PROVE IInv'
    BY <2>2, RoomStep
  <2>3. CASE Enable
    BY <2>3, EnableStep
  <2>4. CASE UNCHANGED vars
    <3>1. /\ UNCHANGED <<oldPos, newPos, jmpDest, copied, patchAbove, after, above, phase>>
          /\ UNCHANGED <<patchedPos, patchedSize, operand>>
      BY <2>4 DEF vars, build, patch
    <3>2. Typed'
      BY <3>1 DEF IInv, Typed
    <3>3. LayoutInv'
      BY <3>1 DEF IInv, LayoutInv
    <3>4. JumpInv'
      BY <3>1 DEF IInv, JumpInv, IsJump, Lands
    <3>5. EndInv'
      BY <3>1 DEF IInv, EndInv, MovedUpTo
    <3>6. RoomInv' /\ PatchInv'
      BY <3>1 DEF IInv, RoomInv, PatchInv, Built, IsCodePadding, Relay
    <3> QED
      BY <3>2, <3>3, <3>4, <3>5, <3>6 DEF IInv
  <2> QED
    BY <2>1, <2>2, <2>3, <2>4 DEF Next
<1> QED
  BY InitIInv, <1>1, PTL DEF Spec

-----------------------------------------------------------------------------
(* Where the moved code ends is a number.                                  *)
LEMMA MovedTyped ==
  ASSUME IInv, Built
  PROVE  MovedUpTo \in Int
<1>1. copied \in Seq(Moved) /\ copied # <<>>
  BY DEF IInv, Typed, EndInv, Built
<1>2. PICK c \in Moved : c = copied[Len(copied)]
  BY <1>1
<1>3. c.old \in Int /\ c.inst \in Insts \cup Backs
  BY DEF Moved
<1>4. c.inst.len \in 1 .. 15
  BY <1>3, InstTyped
<1>5. MovedUpTo = c.old \/ MovedUpTo = c.old + c.inst.len
  BY <1>2 DEF MovedUpTo
<1> QED
  BY <1>3, <1>4, <1>5

(* Both positions fit the UINT8 they are kept in, whatever the target: an  *)
(* instruction that begins before JmpRel ends at 19 or before, and the one *)
(* that is jumped back to at 34 or before.                                 *)
THEOREM TypeCorrect == Spec => []TypeOK
<1>1. IInv => TypeOK
  <2> SUFFICES ASSUME IInv PROVE TypeOK
    OBVIOUS
  <2>1. oldPos \in 0 .. 255 /\ newPos \in 0 .. 255 /\ jmpDest \in 0 .. JmpRel - 1
    BY DEF IInv, Typed, JmpRel, TrampolineMaxSize, SlotSize, JmpAbs
  <2>2. ASSUME NEW k \in 1 .. Len(copied) PROVE copied[k].size \in 1 .. CallAbs
    <3>1. copied[k] \in Moved
      BY DEF IInv, Typed
    <3> QED
      BY <3>1 DEF Moved
  <2> QED
    BY <2>1, <2>2 DEF IInv, Typed, TypeOK
<1> QED
  BY <1>1, Invariance, PTL

(* The trampoline and the relay behind it stay within the slot, without    *)
(* gap or overlap between the copies.                                      *)
THEOREM SlotSuffices == Spec => []FitsSlot
<1>1. IInv => FitsSlot
  BY DEF IInv, Typed, LayoutInv, FitsSlot, TrampolineMaxSize, SlotSize, JmpAbs
<1> QED
  BY <1>1, Invariance, PTL

(* The patch overwrites only what was moved or is padding.                 *)
THEOREM OnlyMovedOverwritten == Spec => []OverwritesOnlyMoved
<1>1. IInv => OverwritesOnlyMoved
  <2> SUFFICES ASSUME IInv, phase = "enabled"
               PROVE  /\ patchedPos + patchedSize <= Target + MovedUpTo + after
                      /\ patchedPos < Target => above
    BY DEF OverwritesOnlyMoved
  <2>1. /\ Target \in Int /\ after \in Nat /\ oldPos \in Nat
    BY InstAssumption DEF InstAssumption, IInv, Typed
  <2>2. /\ patchedPos = IF patchAbove THEN Target - 5 ELSE Target
        /\ patchedSize = IF patchAbove THEN 7 ELSE 5
    BY DEF IInv, PatchInv, JmpRel, JmpRelShort
  <2>3. IF patchAbove THEN above /\ 2 - oldPos <= after ELSE 5 - oldPos <= after
    BY DEF IInv, RoomInv, Built, IsCodePadding, JmpRel, JmpRelShort
  <2>4. MovedUpTo = oldPos \/ MovedUpTo >= 5
    BY DEF IInv, EndInv, JmpRel
  <2>5. MovedUpTo \in Int
    BY MovedTyped DEF Built
  <2> HIDE DEF MovedUpTo
  <2>6. CASE patchAbove
    BY <2>1, <2>2, <2>3, <2>4, <2>5, <2>6
  <2>7. CASE ~patchAbove
    BY <2>1, <2>2, <2>3, <2>4, <2>5, <2>7
  <2> QED
    BY <2>6, <2>7
<1> QED
  BY <1>1, Invariance, PTL

(* A jump forward within the moved code reaches what it reached before.    *)
THEOREM ForwardJumps == Spec => []ForwardJumpsLand
<1>1. IInv => ForwardJumpsLand
  <2> SUFFICES ASSUME IInv, NEW c \in InternalJumps, c.inst.dest > c.old
               PROVE  Lands(c)
    BY DEF ForwardJumpsLand
  <2>1. PICK k \in 1 .. Len(copied) : c = copied[k]
    BY DEF InternalJumps
  <2>2. IsJump(c)
    BY DEF InternalJumps, IsJump
  <2> QED
    BY <2>1, <2>2 DEF IInv, JumpInv
<1> QED
  BY <1>1, Invariance, PTL

(* No jump within the moved code leads past its end.                       *)
THEOREM BranchesKept == Spec => []NoBranchLost
<1>1. IInv => NoBranchLost
  <2> SUFFICES ASSUME IInv, Built, NEW c \in InternalJumps
               PROVE  c.inst.dest < MovedUpTo
    BY DEF NoBranchLost
  <2>1. PICK k \in 1 .. Len(copied) : c = copied[k]
    BY DEF InternalJumps
  <2>2. IsJump(c)
    BY DEF InternalJumps, IsJump
  <2>3. c.inst.dest <= jmpDest
    BY <2>1, <2>2 DEF IInv, JumpInv
  <2>4. jmpDest < MovedUpTo
    BY DEF IInv, EndInv, Built
  <2>5. MovedUpTo \in Int /\ jmpDest \in Int /\ c.inst.dest \in Int
    <3>1. c \in Moved
      BY <2>1 DEF IInv, Typed
    <3>2. c.inst.dest \in Int
      BY <3>1, InstTyped DEF Moved
    <3> QED
      BY <3>2, MovedTyped DEF IInv, Typed
  <2> HIDE DEF MovedUpTo
  <2> QED
    BY <2>3, <2>4, <2>5
<1> QED
  BY <1>1, Invariance, PTL
=============================================================================
