------------------------------- MODULE Memory -------------------------------
(***************************************************************************)
(* The executable buffers of src/src/memory.cpp, x64 internal build: blocks*)
(* of one page, allocated near an origin at the allocation granularity and *)
(* cut into slots, each block with its own list of free slots.             *)
(*                                                                         *)
(* Addresses are numbers.  The list of blocks and the lists of free slots  *)
(* are sequences, head first.  The walk over the blocks takes one step per *)
(* block; the rest of a call is one step, because the library takes no     *)
(* lock here: one thread at a time is the only use that is defined.        *)
(***************************************************************************)
EXTENDS Naturals, Sequences, FiniteSets

CONSTANTS
  Gran,        \* dwAllocationGranularity
  BlockSize,   \* MEMORY_BLOCK_SIZE
  SlotSize,    \* MEMORY_SLOT_SIZE
  MaxRange,    \* MAX_MEMORY_RANGE
  MinApp, MaxApp,  \* lowest and highest application address
  Busy,        \* granules that hold the program's code
  Origins,     \* addresses buffers are asked for
  NULL,
  MaxHanded    \* bound on the buffers in use at a time

VARIABLES
  blocks,   \* memory_blocks_: addresses of the blocks, head first
  free,     \* block -> its free slots, head first
  used,     \* block -> usedCount
  origin,   \* the origin AllocateBuffer is looking for, NULL outside it
  at,       \* place of the walk in blocks
  handed    \* the buffers callers have: a set of [buf, origin]

lists == <<blocks, free, used>>
walk  == <<origin, at>>
vars  == <<lists, walk, handed>>

Granules == {g \in MinApp .. MaxApp : g % Gran = 0}

SlotsPerBlock == BlockSize \div SlotSize - 1    \* the head takes a slot's room

ASSUME SizeAssumption ==
  /\ {Gran, BlockSize, SlotSize, MaxRange, MinApp, MaxApp, MaxHanded} \subseteq Nat
  /\ 0 < SlotSize /\ 2 * SlotSize <= BlockSize /\ BlockSize <= Gran
  /\ Gran <= MinApp /\ BlockSize % SlotSize = 0 /\ Gran % BlockSize = 0
  /\ Origins \subseteq MinApp .. MaxApp /\ NULL \notin Nat

-----------------------------------------------------------------------------
(* The addresses a block for o may have, both ends included.               *)
MinAddr(o) == IF o > MaxRange /\ MinApp < o - MaxRange THEN o - MaxRange ELSE MinApp

(* A bug to compare with: no room is left for the block itself.            *)
MaxAddrNoRoom(o) == IF MaxApp > o + MaxRange THEN o + MaxRange ELSE MaxApp

MaxAddr(o) == (IF MaxApp > o + MaxRange THEN o + MaxRange ELSE MaxApp) - (BlockSize - 1)

TooFar(b, o) == b < MinAddr(o) \/ b >= MaxAddr(o)

Floor(a) == a - (a % Gran)

IsFree(g) == g \notin Busy /\ \A i \in 1 .. Len(blocks) : blocks[i] # g

(* Where VirtualQuery finds free memory on the way down from o ...         *)
FindPrevFreeRegion(o) == {g \in Granules : g < Floor(o) /\ g >= MinAddr(o) /\ IsFree(g)}

(* ... and on the way up.                                                  *)
FindNextFreeRegion(o) == {g \in Granules : g > Floor(o) /\ g <= MaxAddr(o) /\ IsFree(g)}

(* The free list of a new block: every slot was pushed in turn.            *)
FreshSlots(b) ==
  [i \in 1 .. SlotsPerBlock |-> b + SlotSize * (SlotsPerBlock + 1 - i)]

Slots(b) == {b + SlotSize * i : i \in 1 .. SlotsPerBlock}

BlockOf(buf) == (buf \div BlockSize) * BlockSize

Init == /\ blocks = <<>>
        /\ free = [b \in Granules |-> <<>>]
        /\ used = [b \in Granules |-> 0]
        /\ origin = NULL /\ at = 1
        /\ handed = {}

-----------------------------------------------------------------------------
(* AllocateBuffer(o) enters GetMemoryBlock and starts at the first block.  *)
AllocateBuffer(o) ==
  /\ origin = NULL /\ Cardinality(handed) < MaxHanded
  /\ origin' = o /\ at' = 1
  /\ UNCHANGED <<lists, handed>>

Walking == origin # NULL /\ at <= Len(blocks)

(* A block out of range: the loop continues with the same block.           *)
SkipFar ==
  /\ Walking /\ TooFar(blocks[at], origin)
  /\ UNCHANGED vars

SkipFull ==
  /\ Walking /\ ~TooFar(blocks[at], origin) /\ free[blocks[at]] = <<>>
  /\ at' = at + 1
  /\ UNCHANGED <<lists, origin, handed>>

(* AllocateBuffer returns buf.                                             *)
HandOut(buf) ==
  /\ handed' = handed \cup {[buf |-> buf, origin |-> origin]}
  /\ origin' = NULL /\ at' = 1

(* A bug to compare with: the slot stays on the list.                      *)
TakeSlotKept ==
  LET b == blocks[at]
  IN  /\ Walking /\ ~TooFar(b, origin) /\ free[b] # <<>>
      /\ used' = [used EXCEPT ![b] = @ + 1]
      /\ HandOut(Head(free[b]))
      /\ UNCHANGED <<blocks, free>>

TakeSlot ==
  LET b == blocks[at]
  IN  /\ Walking /\ ~TooFar(b, origin) /\ free[b] # <<>>
      /\ free' = [free EXCEPT ![b] = Tail(@)]
      /\ used' = [used EXCEPT ![b] = @ + 1]
      /\ HandOut(Head(free[b]))
      /\ UNCHANGED blocks

(* No block has room: allocate one, below origin if VirtualAlloc agrees and*)
(* else above, put it at the head of the list and take its first slot.  It *)
(* may refuse any region, so any of the free ones may be the one.          *)
NewBlock ==
  /\ origin # NULL /\ at > Len(blocks)
  /\ \E b \in FindPrevFreeRegion(origin) \cup FindNextFreeRegion(origin) :
       /\ blocks' = <<b>> \o blocks
       /\ free' = [free EXCEPT ![b] = Tail(FreshSlots(b))]
       /\ used' = [used EXCEPT ![b] = 1]
       /\ HandOut(Head(FreshSlots(b)))

(* No region was free or VirtualAlloc refused all: return NULL.            *)
NoBlock ==
  /\ origin # NULL /\ at > Len(blocks)
  /\ origin' = NULL /\ at' = 1
  /\ UNCHANGED <<lists, handed>>

-----------------------------------------------------------------------------
(* The list without its ith block.                                         *)
Remove(i) == [j \in 1 .. Len(blocks) - 1 |-> blocks[IF j < i THEN j ELSE j + 1]]

(* A bug to compare with: an empty block is never given back.              *)
FreeBufferKept(x) ==
  LET b == BlockOf(x.buf)
  IN  /\ origin = NULL
      /\ \E i \in 1 .. Len(blocks) : blocks[i] = b
      /\ free' = [free EXCEPT ![b] = <<x.buf>> \o @]
      /\ used' = [used EXCEPT ![b] = @ - 1]
      /\ handed' = handed \ {x}
      /\ UNCHANGED <<blocks, walk>>

(* FreeBuffer: the slot goes to the head of its block's list, and a block  *)
(* without a used slot is unlinked and released.                           *)
FreeBuffer(x) ==
  LET b == BlockOf(x.buf)
  IN  /\ origin = NULL
      /\ \E i \in 1 .. Len(blocks) :
           /\ blocks[i] = b
           /\ blocks' = IF used[b] = 1 THEN Remove(i) ELSE blocks
      /\ free' = [free EXCEPT ![b] = IF used[b] = 1 THEN <<>> ELSE <<x.buf>> \o @]
      /\ used' = [used EXCEPT ![b] = @ - 1]
      /\ handed' = handed \ {x}
      /\ UNCHANGED walk

(* ~Memory, when the process ends: every block is released.                *)
Destroy ==
  /\ origin = NULL
  /\ blocks' = <<>>
  /\ free' = [b \in Granules |-> <<>>]
  /\ used' = [b \in Granules |-> 0]
  /\ handed' = {}
  /\ UNCHANGED walk

GetMemoryBlock == SkipFar \/ SkipFull \/ TakeSlot \/ NewBlock \/ NoBlock

Next == \/ \E o \in Origins : AllocateBuffer(o)
        \/ GetMemoryBlock
        \/ \E x \in handed : FreeBuffer(x)
        \/ Destroy

Spec == Init /\ [][Next]_vars

(* A call that has begun keeps running.                                    *)
FairSpec == Spec /\ WF_vars(GetMemoryBlock)

-----------------------------------------------------------------------------
ListSet(s) == {s[i] : i \in 1 .. Len(s)}

NoRepeats(s) == \A i, j \in 1 .. Len(s) : s[i] = s[j] => i = j

HandedFrom(b) == {x.buf : x \in {y \in handed : BlockOf(y.buf) = b}}

(* Every variable has its type.                                            *)
TypeOK ==
  /\ blocks \in Seq(Granules)
  /\ DOMAIN free = Granules /\ \A b \in Granules : free[b] \in Seq(Slots(b))
  /\ used \in [Granules -> 0 .. SlotsPerBlock]
  /\ origin \in Origins \cup {NULL} /\ at \in 1 .. Len(blocks) + 1
  /\ \A x \in handed : x.origin \in Origins

(* A slot of a listed block is either free, once, or handed out, to one    *)
(* caller; usedCount counts the latter, and no block without one is kept.  *)
SlotsAccountedFor ==
  /\ NoRepeats(blocks)
  /\ \A x \in handed : BlockOf(x.buf) \in ListSet(blocks)
  /\ \A x, y \in handed : x.buf = y.buf => x = y
  /\ \A b \in ListSet(blocks) :
       /\ NoRepeats(free[b])
       /\ ListSet(free[b]) \cap HandedFrom(b) = {}
       /\ ListSet(free[b]) \cup HandedFrom(b) = Slots(b)
       /\ used[b] = Cardinality(HandedFrom(b)) /\ used[b] > 0

(* Memory implements the pool trampolines rely on: a buffer overlaps no    *)
(* other and lies wholly within MAX_MEMORY_RANGE of its origin, also when  *)
(* it comes from a block allocated for another one.                        *)
Pool == INSTANCE BufferPool WITH Reach <- MaxRange, MaxAddress <- MaxApp
ImplementsPool == Pool!Spec

(* AllocateBuffer returns: the walk ignores blocks that are too far.       *)
AllocationReturns == origin # NULL ~> origin = NULL
=============================================================================
