-------------------------- MODULE TrampolineBuild --------------------------
(***************************************************************************)
(* How src/src/trampoline.cpp builds a trampoline and patches its target,  *)
(* x64 build: CreateTrampolineFunction moves the first instructions of the *)
(* target into a slot, Enable overwrites them with a jump to the relay.    *)
(*                                                                         *)
(* An instruction is what the disassembler reports of it: its kind, its    *)
(* length and, for a relative jump, the offset of its destination from the *)
(* target.  The target's code is read in order and once, so the model      *)
(* chooses each instruction when the loop reads it.  Displacements are not *)
(* modelled except as destinations; a copied jump keeps its displacement.  *)
(***************************************************************************)
EXTENDS Integers, Sequences

CONSTANTS
  Insts,       \* instructions a target may contain
  Target, Buffer,  \* addresses of the target and of the slot
  MaxPadding   \* bound on the padding bytes that follow a short target

Kinds == {"plain", "rip", "rip_jmp", "call", "jmp", "jcc", "loop", "ret", "error"}

ASSUME InstAssumption ==
  /\ \A i \in Insts : /\ i.kind \in Kinds /\ i.len \in 1 .. 15 /\ i.dest \in Int
                      /\ i.kind \in {"rip", "rip_jmp"} => i.len >= 6   \* ModR/M, disp32
  /\ Target \in Nat /\ Buffer \in Nat /\ MaxPadding \in Nat

VARIABLES
  oldPos, newPos,  \* place in the target and in the slot
  jmpDest,         \* the farthest destination of an internal jump, as an offset
  copied,          \* what went where: oldIPs_, newIPs_ and the instructions
  patchAbove,      \* patchAbove_: the long jump goes above the target
  after, above,    \* padding bytes after the copied code, and above the target
  patchedPos, patchedSize, operand,   \* the patch Enable writes
  phase            \* where Enable is, or how it ended

build == <<oldPos, newPos, jmpDest, copied>>
patch == <<patchedPos, patchedSize, operand>>
vars  == <<build, patchAbove, after, above, patch, phase>>

JmpRel == 5        \* sizes of the instructions the library writes
JmpRelShort == 2
JmpAbs == 14
CallAbs == 16
JccAbs == 16

SlotSize == 64                            \* MEMORY_SLOT_SIZE

(* A bug to compare with: no room is kept for the relay.                   *)
TrampolineNoRelay == SlotSize

TrampolineMaxSize == SlotSize - JmpAbs    \* TRAMPOLINE_MAX_SIZE
MaxIPs == 8                               \* ARRAYSIZE(oldIPs_)

Init ==
  /\ oldPos = 0 /\ newPos = 0 /\ jmpDest = 0 /\ copied = <<>>
  /\ patchAbove = FALSE /\ after = 0 /\ above = FALSE
  /\ patchedPos = Target /\ patchedSize = 0 /\ operand = 0
  /\ phase = "copy"

-----------------------------------------------------------------------------
(* Enable returns false.                                                   *)
Refuse ==
  /\ phase' = "refused"
  /\ UNCHANGED <<build, patchAbove, after, above, patch>>

(* A bug to compare with: lengths may change inside a branch.              *)
AnyLengthKept(size, len, dest) == TRUE

(* No jump over the instruction at oldPos is disturbed by its new size.    *)
LengthKept(size, len, dest) == oldPos < dest => size = len

(* The end of a pass of the loop: i becomes size bytes at newPos, dest is  *)
(* the new jmpDest, and the loop is over if it was the last.               *)
Emit(i, size, dest, last) ==
  IF /\ LengthKept(size, i.len, dest)
     /\ newPos + size <= TrampolineMaxSize
     /\ Len(copied) < MaxIPs
  THEN /\ copied' = Append(copied, [inst |-> i, old |-> oldPos, new |-> newPos,
                                    size |-> size])
       /\ newPos' = newPos + size
       /\ oldPos' = oldPos + i.len
       /\ jmpDest' = dest
       /\ phase' = IF last THEN "copied" ELSE "copy"
       /\ UNCHANGED <<patchAbove, after, above, patch>>
  ELSE Refuse

(* A bug to compare with: the byte after the patch counts as inside.       *)
InternalTooWide(i) == 0 <= i.dest /\ i.dest <= JmpRel

Internal(i) == 0 <= i.dest /\ i.dest < JmpRel

(* The loop needs more of the target.                                      *)
Reading(i, kinds) == phase = "copy" /\ oldPos < JmpRel /\ i.kind \in kinds

(* The disassembler does not know the instruction.                         *)
CopyError(i) == phase = "copy" /\ i.kind = "error" /\ Refuse

(* Enough is moved: jump back to the instruction at oldPos.                *)
CopyJumpBack(i) ==
  /\ phase = "copy" /\ oldPos >= JmpRel /\ i.kind # "error"
  /\ Emit([kind |-> "back", len |-> i.len, dest |-> oldPos], JmpAbs, jmpDest, TRUE)

(* RIP-relative operand: adjusted in place; a JMP through memory leaves.   *)
CopyRip(i) ==
  /\ Reading(i, {"rip", "rip_jmp"})
  /\ Emit(i, i.len, jmpDest, i.kind = "rip_jmp")

CopyCall(i) == Reading(i, {"call"}) /\ Emit(i, CallAbs, jmpDest, FALSE)

(* A jump within the bytes to be patched is copied as it is.               *)
CopyInternalJump(i) ==
  /\ Reading(i, {"jmp", "jcc", "loop"}) /\ Internal(i)
  /\ Emit(i, i.len, IF jmpDest < i.dest THEN i.dest ELSE jmpDest, FALSE)

CopyJmp(i) ==
  /\ Reading(i, {"jmp"}) /\ ~Internal(i)
  /\ Emit(i, JmpAbs, jmpDest, oldPos >= jmpDest)

CopyJcc(i) ==
  /\ Reading(i, {"jcc"}) /\ ~Internal(i)
  /\ Emit(i, JccAbs, jmpDest, FALSE)

(* LOOP and JECXZ reach no farther than a byte: refused.                   *)
CopyLoop(i) == Reading(i, {"loop"}) /\ ~Internal(i) /\ Refuse

(* A bug to compare with: a RET ends the copy although a jump passes it.   *)
CopyFirstRet(i) == Reading(i, {"ret"}) /\ Emit(i, i.len, jmpDest, TRUE)

CopyRet(i) == Reading(i, {"ret"}) /\ Emit(i, i.len, jmpDest, oldPos >= jmpDest)

CopyPlain(i) == Reading(i, {"plain"}) /\ Emit(i, i.len, jmpDest, FALSE)

-----------------------------------------------------------------------------
(* Enough room for the patch?  n bytes of padding follow the copied code;  *)
(* hot says whether the bytes above the target are executable padding.     *)
IsCodePadding(n, upTo) == upTo - oldPos <= n

(* A bug to compare with: the room for the short jump is not checked.      *)
FindRoomUnchecked(n, hot) ==
  /\ phase = "copied"
  /\ after' = n /\ above' = hot
  /\ patchAbove' = (~IsCodePadding(n, JmpRel) /\ hot)
  /\ phase' = IF IsCodePadding(n, JmpRel) \/ hot THEN "built" ELSE "refused"
  /\ UNCHANGED <<build, patch>>

FindRoom(n, hot) ==
  LET long == IsCodePadding(n, JmpRel)    \* a copy of JmpRel bytes or more fits too
      ok   == long \/ (IsCodePadding(n, JmpRelShort) /\ hot)
  IN  /\ phase = "copied"
      /\ after' = n /\ above' = hot
      /\ patchAbove' = (~long /\ ok)
      /\ phase' = IF ok THEN "built" ELSE "refused"
      /\ UNCHANGED <<build, patch>>

Relay == Buffer + newPos        \* the relay function follows the trampoline

(* The displacement is computed for a jump at the target, and only then    *)
(* the jump is moved above it.                                             *)
Enable ==
  /\ phase = "built"
  /\ operand' = Relay - (Target + JmpRel)
  /\ patchedPos' = IF patchAbove THEN Target - JmpRel ELSE Target
  /\ patchedSize' = IF patchAbove THEN JmpRel + JmpRelShort ELSE JmpRel
  /\ phase' = "enabled"
  /\ UNCHANGED <<build, patchAbove, after, above>>

CopyInst(i) ==
  \/ CopyError(i) \/ CopyJumpBack(i) \/ CopyRip(i) \/ CopyCall(i)
  \/ CopyInternalJump(i) \/ CopyJmp(i) \/ CopyJcc(i) \/ CopyLoop(i)
  \/ CopyRet(i) \/ CopyPlain(i)

Next == \/ \E i \in Insts : CopyInst(i)
        \/ \E n \in 0 .. MaxPadding, hot \in BOOLEAN : FindRoom(n, hot)
        \/ Enable

Spec == Init /\ [][Next]_vars

-----------------------------------------------------------------------------
Built == phase \in {"built", "enabled"}

InternalJumps == {c \in {copied[k] : k \in 1 .. Len(copied)} :
                    c.inst.kind \in {"jmp", "jcc", "loop"} /\ Internal(c.inst)}

(* The offset where the moved code ends in the target.                     *)
MovedUpTo == LET c == copied[Len(copied)]
             IN  IF c.inst.kind = "back" THEN c.old ELSE c.old + c.inst.len

(* Where a jump copied with its displacement leads in the slot, and where  *)
(* the instruction it means went.                                          *)
Lands(c) == \A k \in 1 .. Len(copied) :
              copied[k].old = c.inst.dest => copied[k].new = c.new + (c.inst.dest - c.old)

(* Positions and sizes have their types; the two positions fit a UINT8.    *)
TypeOK ==
  /\ oldPos \in 0 .. 255 /\ newPos \in 0 .. 255 /\ jmpDest \in 0 .. JmpRel - 1
  /\ \A k \in 1 .. Len(copied) : copied[k].size \in 1 .. CallAbs
  /\ Len(copied) <= MaxIPs
  /\ patchAbove \in BOOLEAN /\ above \in BOOLEAN /\ after \in 0 .. MaxPadding
  /\ patchedPos \in {Target, Target - JmpRel} /\ patchedSize \in {0, 5, 7}
  /\ operand \in Int
  /\ phase \in {"copy", "copied", "built", "enabled", "refused"}

(* Trampoline and relay stay within their slot, and the copies are laid out*)
(* without gap or overlap.                                                 *)
FitsSlot ==
  /\ Built => newPos + JmpAbs <= SlotSize
  /\ \A k \in 1 .. Len(copied) :
       copied[k].new + copied[k].size = IF k = Len(copied) THEN newPos ELSE copied[k + 1].new

(* Every byte of the target the patch overwrites was moved to the slot as  *)
(* part of a whole instruction, or is padding.                             *)
OverwritesOnlyMoved ==
  phase = "enabled" =>
    /\ patchedPos + patchedSize <= Target + MovedUpTo + after
    /\ patchedPos < Target => above

(* A jump forward within the moved code reaches the instruction it reached *)
(* in the target: nothing it passes over changed its length.               *)
ForwardJumpsLand ==
  Built => \A c \in InternalJumps : c.inst.dest > c.old => Lands(c)

(* No internal jump leads past the end of the moved code.                  *)
NoBranchLost == Built => \A c \in InternalJumps : c.inst.dest < MovedUpTo

(* What a short jump with this operand byte adds to the address behind it. *)
Signed(byte) == IF byte < 128 THEN byte ELSE byte - 256

(* The short jump over the target back to the long one above it.           *)
ShortOperand == (0 - (JmpRelShort + JmpRel)) % 256

(* A call of the target goes, through the short jump if there is one, to   *)
(* the long jump and from there to the relay, which leads to the detour:   *)
(* what hook.h says of the detour, that it is called instead of the target.*)
CallsReachRelay ==
  phase = "enabled" =>
    /\ patchAbove => Target + JmpRelShort + Signed(ShortOperand) = patchedPos
    /\ patchedPos + JmpRel + operand = Relay
=============================================================================
