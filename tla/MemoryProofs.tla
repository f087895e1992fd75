---------------------------- MODULE MemoryProofs ----------------------------
(***************************************************************************)
(* Proofs about Memory, for granules, blocks and slots of any size that    *)
(* divide each other, any origins and any number of buffers in use: every  *)
(* slot is free or with one caller, and buffers never overlap and are      *)
(* within reach of their origin, which makes Memory a BufferPool.          *)
(*                                                                         *)
(* The first lemmas are about multiples, the next about lists; the         *)
(* invariant is the accounting itself, with the place of an idle walk.     *)
(***************************************************************************)
EXTENDS Memory, FiniteSetTheorems, FunctionTheorems, TLAPS

(* The sizes are numbers, in the order of the assumption.                  *)
LEMMA Sizes ==
  /\ Gran \in Nat /\ BlockSize \in Nat /\ SlotSize \in Nat /\ MaxRange \in Nat
  /\ MinApp \in Nat /\ MaxApp \in Nat /\ 0 < SlotSize /\ SlotSize <= BlockSize
  /\ BlockSize <= Gran /\ Gran <= MinApp /\ 2 * SlotSize <= BlockSize
BY SizeAssumption DEF SizeAssumption

(* A multiple is the quotient times the divisor.                           *)
LEMMA Multiple ==
  ASSUME NEW a \in Nat, NEW m \in Nat \ {0}, a % m = 0
  PROVE  /\ a \div m \in Nat /\ a = m * (a \div m)
         /\ \E q \in Nat : a = m * q
<1>1. a \div m \in Nat /\ a = m * (a \div m)
  OBVIOUS
<1> QED
  BY <1>1

(* Multiples that differ do so by a divisor at least.                      *)
LEMMA MultiplesApart ==
  ASSUME NEW x \in Int, NEW y \in Int, NEW m \in Nat, x < y
  PROVE  m * x + m <= m * y
<1>1. m * (y - x - 1) >= 0
  OBVIOUS
<1> QED
  BY <1>1

(* The remainder does not count in a quotient.                             *)
LEMMA Quotient ==
  ASSUME NEW q \in Nat, NEW m \in Nat, NEW r \in Nat, r < m
  PROVE  (m * q + r) \div m = q
<1>1. PICK a \in Nat : a = m * q + r
  OBVIOUS
<1>2. PICK d \in Int : d = a \div m
  BY <1>1
<1>3. m * d <= a /\ a < m * d + m
  BY <1>2
<1>4. CASE d < q
  <2>1. m * d + m <= m * q
    BY <1>4, MultiplesApart
  <2> QED
    BY <2>1, <1>1, <1>3
<1>5. CASE q < d
  <2>1. m * q + m <= m * d
    BY <1>5, MultiplesApart
  <2> QED
    BY <2>1, <1>1, <1>3
<1> QED
  BY <1>1, <1>2, <1>4, <1>5

(* The slots of a block lie one after the other in it.                     *)
LEMMA SlotRoom ==
  /\ SlotsPerBlock \in Nat \ {0}
  /\ \A i \in 1 .. SlotsPerBlock : /\ SlotSize * i \in Nat /\ SlotSize <= SlotSize * i
                                   /\ SlotSize * i + SlotSize <= BlockSize
  /\ \A i, j \in 1 .. SlotsPerBlock : i < j => SlotSize * i + SlotSize <= SlotSize * j
<1>1. PICK k \in Nat : k = BlockSize \div SlotSize /\ BlockSize = SlotSize * k
  BY Sizes, Multiple, SizeAssumption DEF SizeAssumption
<1>2. k >= 2
  <2>1. CASE k = 0
    BY <1>1, <2>1, Sizes
  <2>2. CASE k = 1
    BY <1>1, <2>2, Sizes
  <2> QED
    BY <2>1, <2>2
<1>3. SlotsPerBlock = k - 1 /\ SlotsPerBlock \in Nat \ {0}
  BY <1>1, <1>2 DEF SlotsPerBlock
<1>4. ASSUME NEW i \in 1 .. SlotsPerBlock
      PROVE  /\ SlotSize * i \in Nat /\ SlotSize <= SlotSize * i
             /\ SlotSize * i + SlotSize <= BlockSize
  <2>1. i \in Int /\ 0 < i /\ i < k
    BY <1>3
  <2>2. SlotSize * i + SlotSize <= SlotSize * k
    BY <2>1, Sizes, MultiplesApart
  <2>3. SlotSize * 0 + SlotSize <= SlotSize * i
    BY <2>1, Sizes, MultiplesApart
  <2>4. SlotSize * 0 = 0 /\ SlotSize * i \in Int
    BY <2>1, Sizes
  <2> QED
    BY <2>2, <2>3, <2>4, <1>1, Sizes
<1>5. ASSUME NEW i \in 1 .. SlotsPerBlock, NEW j \in 1 .. SlotsPerBlock, i < j
      PROVE  SlotSize * i + SlotSize <= SlotSize * j
  BY <1>3, <1>5, Sizes, MultiplesApart
<1> QED
  BY <1>3, <1>4, <1>5

(* Blocks begin where granules do: at multiples of their size, apart.      *)
LEMMA GranuleFacts ==
  ASSUME NEW b \in Granules
  PROVE  /\ b \in Nat /\ MinApp <= b /\ b <= MaxApp /\ Gran <= b
         /\ b % Gran = 0
         /\ \E q \in Nat : b = BlockSize * q
<1>1. b \in Nat /\ MinApp <= b /\ b <= MaxApp /\ b % Gran = 0
  BY Sizes DEF Granules
<1>2. PICK q \in Nat : b = Gran * q
  <2>1. Gran \in Nat \ {0}
    BY Sizes
  <2> QED
    BY <1>1, <2>1, Multiple
<1>3. PICK k \in Nat : Gran = BlockSize * k
  <2>1. BlockSize \in Nat \ {0} /\ Gran \in Nat /\ Gran % BlockSize = 0
    BY Sizes, SizeAssumption DEF SizeAssumption
  <2> QED
    BY <2>1, Multiple
<1>4. b = BlockSize * (k * q) /\ k * q \in Nat
  BY <1>2, <1>3, Sizes
<1> QED
  BY <1>1, <1>4, Sizes

(* A granule below another leaves room for a block.                        *)
LEMMA GranulesApart ==
  ASSUME NEW b \in Nat, NEW c \in Nat, b % Gran = 0, c % Gran = 0, b < c
  PROVE  b + BlockSize <= c
<1>g. Gran \in Nat \ {0}
  BY Sizes
<1>1. PICK q \in Nat : b = Gran * q
  BY <1>g, Multiple
<1>2. PICK r \in Nat : c = Gran * r
  BY <1>g, Multiple
<1>3. q < r
  <2> SUFFICES ASSUME r <= q PROVE FALSE
    OBVIOUS
  <2>1. CASE r = q
    BY <2>1, <1>1, <1>2
  <2>2. CASE r < q
    <3>1. Gran * r + Gran <= Gran * q
      BY <2>2, Sizes, MultiplesApart
    <3> QED
      BY <3>1, <1>1, <1>2, Sizes
  <2> QED
    BY <2>1, <2>2
<1>4. Gran * q + Gran <= Gran * r
  BY <1>3, Sizes, MultiplesApart
<1> QED
  BY <1>1, <1>2, <1>4, Sizes

(* The granule an address is in.                                           *)
LEMMA FloorFacts ==
  ASSUME NEW o \in Nat
  PROVE  Floor(o) \in Nat /\ Floor(o) <= o /\ Floor(o) % Gran = 0
<1>1. PICK q \in Int : q = o \div Gran
  BY Sizes
<1>2. o = Gran * q + (o % Gran) /\ o % Gran \in 0 .. Gran - 1
  BY <1>1, Sizes
<1>3. Floor(o) = Gran * q
  BY <1>2, Sizes DEF Floor
<1>4. q \in Nat
  <2> SUFFICES ASSUME q < 0 PROVE FALSE
    BY <1>1
  <2>1. Gran * q + Gran <= Gran * 0
    BY Sizes, MultiplesApart
  <2> QED
    BY <2>1, <1>2, Sizes
<1>5. Gran * q \in Nat
  BY <1>4, Sizes
<1>6. (Gran * q) % Gran = 0
  BY <1>4, <1>5, Sizes
<1> QED
  BY <1>2, <1>3, <1>5, <1>6, Sizes

(* A granule beyond that one lies beyond the address.                      *)
LEMMA FloorNext ==
  ASSUME NEW o \in Nat, NEW b \in Nat, b % Gran = 0, Floor(o) < b
  PROVE  o <= b
<1>1. PICK q \in Int : q = o \div Gran
  BY Sizes
<1>2. o = Gran * q + (o % Gran) /\ o % Gran \in 0 .. Gran - 1 /\ Floor(o) = Gran * q
  BY <1>1, Sizes DEF Floor
<1>3. Gran \in Nat \ {0}
  BY Sizes
<1>4. PICK r \in Nat : b = Gran * r
  BY <1>3, Multiple
<1>5. q < r
  <2> SUFFICES ASSUME r <= q PROVE FALSE
    OBVIOUS
  <2>1. CASE r = q
    BY <2>1, <1>2, <1>4
  <2>2. CASE r < q
    <3>1. Gran * r + Gran <= Gran * q
      BY <2>2, Sizes, MultiplesApart
    <3> QED
      BY <3>1, <1>2, <1>4, Sizes
  <2> QED
    BY <2>1, <2>2
<1>6. Gran * q + Gran <= Gran * r
  BY <1>5, Sizes, MultiplesApart
<1> QED
  BY <1>2, <1>4, <1>6, Sizes

-----------------------------------------------------------------------------
(* Where a slot lies, and the block FreeBuffer finds for it.               *)
LEMMA SlotFacts ==
  ASSUME NEW b \in Granules, NEW s \in Slots(b)
  PROVE  /\ s \in Nat /\ b + SlotSize <= s /\ s + SlotSize <= b + BlockSize
         /\ BlockOf(s) = b
<1>1. PICK i \in 1 .. SlotsPerBlock : s = b + SlotSize * i
  BY DEF Slots
<1>2. PICK r \in Nat : r = SlotSize * i /\ SlotSize <= r /\ r + SlotSize <= BlockSize
  BY SlotRoom
<1>3. s = b + r /\ b \in Nat
  BY <1>1, <1>2, GranuleFacts
<1>4. PICK q \in Nat : b = BlockSize * q
  BY GranuleFacts
<1>5. r < BlockSize
  BY <1>2, Sizes
<1>6. (BlockSize * q + r) \div BlockSize = q
  BY <1>2, <1>5, Sizes, Quotient
<1>7. BlockOf(s) = q * BlockSize
  BY <1>3, <1>4, <1>6 DEF BlockOf
<1>8. q * BlockSize = b
  BY <1>4, Sizes
<1> QED
  BY <1>2, <1>3, <1>7, <1>8, Sizes

(* Slots of one block, or of two, do not overlap.                          *)
LEMMA SlotsDisjoint ==
  ASSUME NEW b \in Granules, NEW c \in Granules, NEW s \in Slots(b), NEW t \in Slots(c), s # t
  PROVE  s + SlotSize <= t \/ t + SlotSize <= s
<1>1. CASE b = c
  <2>1. PICK i \in 1 .. SlotsPerBlock : s = b + SlotSize * i
    BY DEF Slots
  <2>2. PICK j \in 1 .. SlotsPerBlock : t = b + SlotSize * j
    BY <1>1 DEF Slots
  <2>3. i < j \/ j < i
    BY <2>1, <2>2, SlotRoom
  <2>4. PICK x \in Nat, y \in Nat : x = SlotSize * i /\ y = SlotSize * j
    BY SlotRoom
  <2>5. x + SlotSize <= y \/ y + SlotSize <= x
    BY <2>3, <2>4, SlotRoom
  <2> QED
    BY <2>1, <2>2, <2>4, <2>5, Sizes, GranuleFacts
<1>2. ASSUME NEW x \in Granules, NEW y \in Granules, x < y PROVE x + BlockSize <= y
  BY <1>2, GranuleFacts, GranulesApart
<1>3. /\ b \in Nat /\ c \in Nat /\ s \in Nat /\ t \in Nat
      /\ b <= s /\ s + SlotSize <= b + BlockSize /\ c <= t /\ t + SlotSize <= c + BlockSize
  BY SlotFacts, GranuleFacts, Sizes
<1>4. CASE b < c
  <2>1. b + BlockSize <= c
    BY <1>2, <1>4
  <2> QED
    BY <2>1, <1>3, Sizes
<1>5. CASE c < b
  <2>1. c + BlockSize <= b
    BY <1>2, <1>5
  <2> QED
    BY <2>1, <1>3, Sizes
<1> QED
  BY <1>1, <1>3, <1>4, <1>5

(* A block has as many slots as its list has room for.                     *)
LEMMA SlotsCount ==
  ASSUME NEW b \in Granules
  PROVE  IsFiniteSet(Slots(b)) /\ Cardinality(Slots(b)) <= SlotsPerBlock
<1> DEFINE f == [i \in 1 .. SlotsPerBlock |-> b + SlotSize * i]
<1>1. f \in Surjection(1 .. SlotsPerBlock, Slots(b))
  BY DEF Surjection, Slots
<1>2. IsFiniteSet(1 .. SlotsPerBlock) /\ Cardinality(1 .. SlotsPerBlock) = SlotsPerBlock
  BY SlotRoom, FS_Interval
<1> QED
  BY <1>1, <1>2, FS_Surjection

-----------------------------------------------------------------------------
(* What Tail takes off a list.                                             *)
LEMMA TailFacts ==
  ASSUME NEW T, NEW s \in Seq(T), s # <<>>
  PROVE  /\ Tail(s) \in Seq(T) /\ Head(s) \in T /\ Head(s) \in ListSet(s)
         /\ NoRepeats(s) => /\ NoRepeats(Tail(s))
                            /\ ListSet(Tail(s)) = ListSet(s) \ {Head(s)}
<1>1. /\ Tail(s) \in Seq(T) /\ Len(Tail(s)) = Len(s) - 1 /\ Len(s) \in Nat \ {0}
      /\ \A i \in 1 .. Len(Tail(s)) : Tail(s)[i] = s[i + 1]
      /\ Head(s) = s[1]
  OBVIOUS
<1>2. Head(s) \in ListSet(s) /\ Head(s) \in T
  BY <1>1 DEF ListSet
<1>3. ASSUME NoRepeats(s) PROVE NoRepeats(Tail(s))
  BY <1>1, <1>3 DEF NoRepeats
<1>4. ASSUME NoRepeats(s) PROVE ListSet(Tail(s)) = ListSet(s) \ {Head(s)}
  <2>1. ASSUME NEW i \in 1 .. Len(Tail(s)) PROVE s[i + 1] \in ListSet(s) /\ s[i + 1] # Head(s)
    BY <1>1, <1>4, <2>1 DEF NoRepeats, ListSet
  <2>2. ASSUME NEW i \in 1 .. Len(s), s[i] # Head(s) PROVE s[i] \in ListSet(Tail(s))
    <3>1. i - 1 \in 1 .. Len(Tail(s)) /\ Tail(s)[i - 1] = s[i]
      BY <1>1, <2>2
    <3> QED
      BY <3>1 DEF ListSet
  <2>3. \A x \in ListSet(Tail(s)) : x \in ListSet(s) /\ x # Head(s)
    <3> TAKE x \in ListSet(Tail(s))
    <3>1. PICK i \in 1 .. Len(Tail(s)) : x = Tail(s)[i]
      BY DEF ListSet
    <3> QED
      BY <3>1, <1>1, <2>1
  <2>4. \A x \in ListSet(s) : x # Head(s) => x \in ListSet(Tail(s))
    <3> TAKE x \in ListSet(s)
    <3>1. PICK i \in 1 .. Len(s) : x = s[i]
      BY DEF ListSet
    <3> QED
      BY <3>1, <2>2
  <2> QED
    BY <2>3, <2>4
<1> QED
  BY <1>1, <1>2, <1>3, <1>4

(* And what is put at the head of a list.                                  *)
LEMMA ConsFacts ==
  ASSUME NEW T, NEW s \in Seq(T), NEW x \in T
  PROVE  /\ <<x>> \o s \in Seq(T) /\ Len(<<x>> \o s) = Len(s) + 1
         /\ ListSet(<<x>> \o s) = ListSet(s) \cup {x}
         /\ NoRepeats(s) /\ x \notin ListSet(s) => NoRepeats(<<x>> \o s)
<1>1. PICK u \in Seq(T) : u = <<x>> \o s
  <2>1. <<x>> \in Seq(T)
    OBVIOUS
  <2>2. <<x>> \o s \in Seq(T)
    BY <2>1
  <2> QED
    BY <2>2
<1>2. /\ Len(u) = Len(s) + 1 /\ Len(s) \in Nat /\ u[1] = x
      /\ \A i \in 1 .. Len(s) : u[i + 1] = s[i]
  BY <1>1
<1>3. \A i \in 2 .. Len(u) : i - 1 \in 1 .. Len(s) /\ u[i] = s[i - 1]
  BY <1>2
<1>4. ListSet(u) = ListSet(s) \cup {x}
  <2>1. ASSUME NEW i \in 1 .. Len(u) PROVE u[i] \in ListSet(s) \cup {x}
    <3>1. CASE i = 1
      BY <3>1, <1>2
    <3>2. CASE i # 1
      BY <3>2, <1>3 DEF ListSet
    <3> QED
      BY <3>1, <3>2
  <2>2. ASSUME NEW i \in 1 .. Len(s) PROVE s[i] \in ListSet(u)
    <3>1. i + 1 \in 1 .. Len(u) /\ u[i + 1] = s[i]
      BY <1>2
    <3> QED
      BY <3>1 DEF ListSet
  <2>3. x \in ListSet(u)
    BY <1>2 DEF ListSet
  <2> QED
    BY <2>1, <2>2, <2>3 DEF ListSet
<1>5. ASSUME NoRepeats(s), x \notin ListSet(s) PROVE NoRepeats(u)
  <2>1. \A i \in 2 .. Len(u) : u[i] # x
    BY <1>3, <1>5 DEF ListSet
  <2>2. \A i, j \in 2 .. Len(u) : u[i] = u[j] => i = j
    <3> SUFFICES ASSUME NEW i \in 2 .. Len(u), NEW j \in 2 .. Len(u), u[i] = u[j] PROVE i = j
      OBVIOUS
    <3>1. s[i - 1] = s[j - 1] /\ i - 1 \in 1 .. Len(s) /\ j - 1 \in 1 .. Len(s)
      BY <1>3
    <3> QED
      BY <3>1, <1>5 DEF NoRepeats
  <2> QED
    BY <2>1, <2>2, <1>2 DEF NoRepeats
<1> QED
  BY <1>1, <1>2, <1>4, <1>5

(* What is left of the list of blocks without one of them.                 *)
LEMMA RemoveFacts ==
  ASSUME blocks \in Seq(Granules), NoRepeats(blocks), NEW i \in 1 .. Len(blocks)
  PROVE  /\ Remove(i) \in Seq(Granules) /\ NoRepeats(Remove(i))
         /\ ListSet(Remove(i)) = ListSet(blocks) \ {blocks[i]}
<1>1. PICK r : r = Remove(i)
  OBVIOUS
<1>2. PICK n \in Nat : n = Len(blocks) - 1 /\ Len(blocks) = n + 1
  <2>1. Len(blocks) \in Nat \ {0}
    OBVIOUS
  <2>2. Len(blocks) - 1 \in Nat /\ Len(blocks) = Len(blocks) - 1 + 1
    BY <2>1
  <2> QED
    BY <2>2
<1>3. /\ r \in Seq(Granules) /\ Len(r) = n
      /\ \A j \in 1 .. n : r[j] = blocks[IF j < i THEN j ELSE j + 1]
  BY <1>1, <1>2 DEF Remove
<1>4. NoRepeats(r)
  <2> SUFFICES ASSUME NEW j \in 1 .. n, NEW k \in 1 .. n, r[j] = r[k] PROVE j = k
    BY <1>3 DEF NoRepeats
  <2>1. (IF j < i THEN j ELSE j + 1) = (IF k < i THEN k ELSE k + 1)
    BY <1>2, <1>3 DEF NoRepeats
  <2> QED
    BY <2>1
<1>5. ListSet(r) = ListSet(blocks) \ {blocks[i]}
  <2>1. ASSUME NEW j \in 1 .. n PROVE r[j] \in ListSet(blocks) /\ r[j] # blocks[i]
    BY <1>2, <1>3 DEF NoRepeats, ListSet
  <2>2. ASSUME NEW j \in 1 .. Len(blocks), blocks[j] # blocks[i] PROVE blocks[j] \in ListSet(r)
    <3>1. CASE j < i
      <4>1. j \in 1 .. n /\ r[j] = blocks[j]
        BY <1>2, <1>3, <3>1
      <4> QED
        BY <4>1, <1>3 DEF ListSet
    <3>2. CASE j > i
      <4>1. j - 1 \in 1 .. n /\ r[j - 1] = blocks[j]
        BY SMTT(30), <1>2, <1>3, <3>2
      <4> QED
        BY <4>1, <1>3 DEF ListSet
    <3> QED
      BY <3>1, <3>2, <2>2
  <2> QED
    BY <2>1, <2>2, <1>3 DEF ListSet
<1> QED
  BY <1>1, <1>3, <1>4, <1>5

(* The list of a new block has every slot once.                            *)
LEMMA FreshFacts ==
  ASSUME NEW b \in Granules
  PROVE  /\ FreshSlots(b) \in Seq(Slots(b)) /\ FreshSlots(b) # <<>>
         /\ NoRepeats(FreshSlots(b)) /\ ListSet(FreshSlots(b)) = Slots(b)
<1>1. PICK f : f = FreshSlots(b)
  OBVIOUS
<1>2. PICK n \in Nat \ {0} : n = SlotsPerBlock
  BY SlotRoom
<1>3. /\ \A i \in 1 .. n : n + 1 - i \in 1 .. n
      /\ \A i \in 1 .. n : f[i] = b + SlotSize * (n + 1 - i)
      /\ f = [i \in 1 .. n |-> b + SlotSize * (n + 1 - i)]
  BY <1>1, <1>2 DEF FreshSlots
<1>4. \A i \in 1 .. n : f[i] \in Slots(b)
  BY <1>2, <1>3 DEF Slots
<1>5. f \in Seq(Slots(b)) /\ Len(f) = n
  BY <1>3, <1>4
<1>6. NoRepeats(f)
  <2>1. ASSUME NEW i \in 1 .. n, NEW j \in 1 .. n, i < j PROVE f[i] # f[j]
    <3>1. PICK x \in 1 .. n, y \in 1 .. n : x = n + 1 - i /\ y = n + 1 - j /\ y < x
      BY <2>1, <1>3
    <3>2. PICK u \in Nat, v \in Nat : u = SlotSize * x /\ v = SlotSize * y /\ v + SlotSize <= u
      BY <3>1, <1>2, SlotRoom
    <3>3. f[i] = b + u /\ f[j] = b + v
      BY <3>1, <3>2, <1>3
    <3> QED
      BY <3>2, <3>3, Sizes, GranuleFacts
  <2> QED
    BY <2>1, <1>5 DEF NoRepeats
<1>7. Slots(b) \subseteq ListSet(f)
  <2> SUFFICES ASSUME NEW i \in 1 .. n PROVE b + SlotSize * i \in ListSet(f)
    BY <1>2 DEF Slots
  <2>1. PICK j \in 1 .. n : i = n + 1 - j
    <3>1. n + 1 - i \in 1 .. n /\ i = n + 1 - (n + 1 - i)
      OBVIOUS
    <3> QED
      BY <3>1
  <2>2. f[j] = b + SlotSize * i
    BY <2>1, <1>3
  <2> QED
    BY <2>2, <1>5 DEF ListSet
<1>8. ListSet(f) \subseteq Slots(b)
  BY <1>4, <1>5 DEF ListSet
<1>9. f # <<>>
  BY <1>5
<1> QED
  BY <1>1, <1>5, <1>6, <1>7, <1>8, <1>9

-----------------------------------------------------------------------------
(* A listed block and its slots: free once, or handed out.                 *)
Accounted(b) ==
  /\ NoRepeats(free[b])
  /\ ListSet(free[b]) \cap HandedFrom(b) = {}
  /\ ListSet(free[b]) \cup HandedFrom(b) = Slots(b)
  /\ used[b] = Cardinality(HandedFrom(b)) /\ used[b] > 0

(* Outside a call the walk is at the head of the list.                     *)
IInv == /\ TypeOK /\ SlotsAccountedFor
        /\ origin = NULL => at = 1

(* The parts of the invariant.                                             *)
LEMMA Parts ==
  ASSUME IInv
  PROVE  /\ blocks \in Seq(Granules) /\ NoRepeats(blocks) /\ ListSet(blocks) \subseteq Granules
         /\ DOMAIN free = Granules /\ (\A b \in Granules : free[b] \in Seq(Slots(b)))
         /\ used \in [Granules -> 0 .. SlotsPerBlock]
         /\ origin \in Origins \cup {NULL} /\ (origin = NULL => at = 1)
         /\ at \in 1 .. Len(blocks) + 1 /\ Len(blocks) \in Nat
         /\ (\A x \in handed : x.origin \in Origins)
         /\ (\A x, y \in handed : x.buf = y.buf => x = y)
         /\ \A b \in ListSet(blocks) : Accounted(b)
<1>1. blocks \in Seq(Granules)
  BY DEF IInv, TypeOK
<1>2. ListSet(blocks) \subseteq Granules /\ Len(blocks) \in Nat
  BY <1>1 DEF ListSet
<1>3. \A b \in ListSet(blocks) : Accounted(b)
  BY DEF IInv, SlotsAccountedFor, Accounted
<1> QED
  BY <1>1, <1>2, <1>3 DEF IInv, TypeOK, SlotsAccountedFor

(* And what they are put together from.                                    *)
LEMMA Whole ==
  ASSUME blocks' \in Seq(Granules), NoRepeats(blocks'),
         DOMAIN free' = Granules, \A b \in Granules : free'[b] \in Seq(Slots(b)),
         used' \in [Granules -> 0 .. SlotsPerBlock],
         origin' \in Origins \cup {NULL}, origin' = NULL => at' = 1,
         at' \in 1 .. Len(blocks') + 1,
         \A x \in handed' : x.origin \in Origins /\ BlockOf(x.buf) \in ListSet(blocks'),
         \A x, y \in handed' : x.buf = y.buf => x = y,
         \A b \in ListSet(blocks') : Accounted(b)'
  PROVE  IInv'
<1>1. TypeOK'
  BY DEF TypeOK
<1>2. SlotsAccountedFor'
  BY DEF SlotsAccountedFor, Accounted
<1> QED
  BY <1>1, <1>2 DEF IInv

(* A buffer is a slot of a listed block.                                   *)
LEMMA HandedFacts ==
  ASSUME IInv, NEW x \in handed, NEW b, b = BlockOf(x.buf)
  PROVE  /\ b \in Granules /\ b \in ListSet(blocks)
         /\ x.buf \in Slots(b) /\ x.buf \in HandedFrom(b)
<1>1. b \in ListSet(blocks)
  BY DEF IInv, SlotsAccountedFor
<1>2. x.buf \in HandedFrom(b)
  BY DEF HandedFrom
<1> QED
  BY <1>1, <1>2, Parts DEF Accounted

(* The buffers of a listed block.                                          *)
LEMMA HandedFinite ==
  ASSUME IInv, NEW b \in ListSet(blocks)
  PROVE  /\ IsFiniteSet(HandedFrom(b)) /\ HandedFrom(b) \subseteq Slots(b)
         /\ Cardinality(HandedFrom(b)) \in Nat
         /\ free[b] # <<>> => Cardinality(HandedFrom(b)) < SlotsPerBlock
<1>1. b \in Granules /\ Accounted(b) /\ free[b] \in Seq(Slots(b))
  BY Parts
<1>2. HandedFrom(b) \subseteq Slots(b)
  BY <1>1 DEF Accounted
<1>3. IsFiniteSet(Slots(b)) /\ Cardinality(Slots(b)) <= SlotsPerBlock
  BY <1>1, SlotsCount
<1>4. IsFiniteSet(HandedFrom(b)) /\ Cardinality(HandedFrom(b)) \in Nat
  BY <1>2, <1>3, FS_Subset, FS_CardinalityType
<1>5. ASSUME free[b] # <<>> PROVE Cardinality(HandedFrom(b)) < SlotsPerBlock
  <2>1. Head(free[b]) \in ListSet(free[b])
    BY <1>1, <1>5, TailFacts
  <2>2. Head(free[b]) \notin HandedFrom(b) /\ Head(free[b]) \in Slots(b)
    BY <2>1, <1>1 DEF Accounted
  <2>3. /\ Cardinality(HandedFrom(b)) <= Cardinality(Slots(b))
        /\ Cardinality(HandedFrom(b)) # Cardinality(Slots(b))
    BY <2>2, <1>2, <1>3, FS_Subset
  <2>4. Cardinality(Slots(b)) \in Nat
    BY <1>3, FS_CardinalityType
  <2> QED
    BY <2>3, <2>4, <1>3, <1>4, SlotRoom
<1> QED
  BY <1>2, <1>4, <1>5

-----------------------------------------------------------------------------
(* AllocateBuffer returns: s goes to the caller.                           *)
LEMMA HandOutFacts ==
  ASSUME IInv, origin # NULL, NEW b \in Granules, NEW s \in Slots(b), s \notin HandedFrom(b),
         HandOut(s)
  PROVE  /\ HandedFrom(b)' = HandedFrom(b) \cup {s}
         /\ \A c \in Granules \ {b} : HandedFrom(c)' = HandedFrom(c)
         /\ \A x \in handed' : /\ x.origin \in Origins
                               /\ BlockOf(x.buf) \in ListSet(blocks) \cup {b}
         /\ \A x, y \in handed' : x.buf = y.buf => x = y
         /\ origin' = NULL /\ at' = 1 /\ origin \in Origins
<1>1. PICK n : n = [buf |-> s, origin |-> origin]
  OBVIOUS
<1>2. n.buf = s /\ n.origin = origin
  BY <1>1
<1>3. handed' = handed \cup {n} /\ origin' = NULL /\ at' = 1 /\ origin \in Origins
  BY <1>1, Parts DEF HandOut
<1>4. BlockOf(s) = b
  BY SlotFacts
<1>5. \A x \in handed : x.buf # s
  <2> SUFFICES ASSUME NEW x \in handed, x.buf = s PROVE FALSE
    OBVIOUS
  <2> QED
    BY <1>4, HandedFacts
<1>6. HandedFrom(b)' = HandedFrom(b) \cup {s}
  BY <1>2, <1>3, <1>4 DEF HandedFrom
<1>7. \A c \in Granules \ {b} : HandedFrom(c)' = HandedFrom(c)
  BY <1>2, <1>3, <1>4 DEF HandedFrom
<1>8. \A x \in handed' : x.origin \in Origins /\ BlockOf(x.buf) \in ListSet(blocks) \cup {b}
  BY <1>2, <1>3, <1>4, Parts, HandedFacts
<1>9. \A x, y \in handed' : x.buf = y.buf => x = y
  BY <1>2, <1>3, <1>5, Parts
<1> QED
  BY <1>3, <1>6, <1>7, <1>8, <1>9

(* The block a walk stands on is listed.                                   *)
LEMMA StandsOn ==
  ASSUME IInv, Walking, NEW b, b = blocks[at]
  PROVE  /\ b \in ListSet(blocks) /\ b \in Granules /\ at \in 1 .. Len(blocks)
         /\ origin \in Origins
<1>1. at \in 1 .. Len(blocks)
  BY Parts DEF Walking
<1> QED
  BY <1>1, Parts DEF ListSet, Walking

(* The invariant holds when a slot of a listed block is taken.             *)
LEMMA TakeStep ==
  ASSUME IInv, TakeSlot
  PROVE  IInv'
<1>1. PICK b : b = blocks[at]
  OBVIOUS
<1>2. b \in ListSet(blocks) /\ b \in Granules /\ origin # NULL /\ free[b] # <<>>
  BY <1>1, StandsOn DEF TakeSlot, Walking
<1>3. PICK s : s = Head(free[b])
  OBVIOUS
<1>4. /\ free' = [free EXCEPT ![b] = Tail(free[b])]
      /\ used' = [used EXCEPT ![b] = used[b] + 1]
      /\ HandOut(s) /\ blocks' = blocks
  BY <1>1, <1>3 DEF TakeSlot
<1>5. Accounted(b) /\ free[b] \in Seq(Slots(b))
  BY <1>2, Parts
<1>6. /\ Tail(free[b]) \in Seq(Slots(b)) /\ s \in Slots(b) /\ s \in ListSet(free[b])
      /\ NoRepeats(Tail(free[b])) /\ ListSet(Tail(free[b])) = ListSet(free[b]) \ {s}
  BY <1>2, <1>3, <1>5, TailFacts DEF Accounted
<1>7. s \notin HandedFrom(b)
  BY <1>5, <1>6 DEF Accounted
<1>8. /\ HandedFrom(b)' = HandedFrom(b) \cup {s}
      /\ \A c \in Granules \ {b} : HandedFrom(c)' = HandedFrom(c)
      /\ \A x \in handed' : x.origin \in Origins /\ BlockOf(x.buf) \in ListSet(blocks) \cup {b}
      /\ \A x, y \in handed' : x.buf = y.buf => x = y
      /\ origin' = NULL /\ at' = 1
  BY <1>2, <1>4, <1>6, <1>7, HandOutFacts
<1>9. /\ used[b] = Cardinality(HandedFrom(b)) /\ used[b] \in Nat /\ used[b] < SlotsPerBlock
      /\ Cardinality(HandedFrom(b) \cup {s}) = used[b] + 1
  BY ZenonT(60), <1>2, <1>5, <1>7, HandedFinite, FS_AddElement DEF Accounted
<1>10. /\ used' \in [Granules -> 0 .. SlotsPerBlock] /\ used'[b] = used[b] + 1
       /\ \A c \in Granules \ {b} : used'[c] = used[c]
  BY <1>2, <1>4, <1>9, Parts, SlotRoom
<1>11. /\ DOMAIN free' = Granules /\ free'[b] = Tail(free[b])
       /\ \A c \in Granules \ {b} : free'[c] = free[c]
  BY <1>2, <1>4, Parts
<1>12. \A c \in Granules : free'[c] \in Seq(Slots(c))
  BY <1>6, <1>11, Parts
<1>13. Accounted(b)'
  <2>1. NoRepeats(free'[b]) /\ ListSet(free'[b]) = ListSet(free[b]) \ {s}
    BY <1>6, <1>11
  <2>2. /\ ListSet(free'[b]) \cap HandedFrom(b)' = {}
        /\ ListSet(free'[b]) \cup HandedFrom(b)' = Slots(b)
    BY <2>1, <1>5, <1>6, <1>8 DEF Accounted
  <2>3. used'[b] = Cardinality(HandedFrom(b)') /\ used'[b] > 0
    BY <1>8, <1>9, <1>10
  <2> QED
    BY <2>1, <2>2, <2>3 DEF Accounted
<1>14. \A c \in ListSet(blocks) \ {b} : Accounted(c)'
  BY <1>8, <1>10, <1>11, Parts DEF Accounted
<1>15. at' \in 1 .. Len(blocks') + 1
  BY <1>4, <1>8, Parts
<1> QED
  BY <1>2, <1>4, <1>8, <1>10, <1>11, <1>12, <1>13, <1>14, <1>15, Parts, Whole

(* And when a block is allocated.                                          *)
LEMMA NewStep ==
  ASSUME IInv, NewBlock
  PROVE  IInv'
<1>1. PICK b \in Granules :
        /\ IsFree(b) /\ origin # NULL
        /\ blocks' = <<b>> \o blocks
        /\ free' = [free EXCEPT ![b] = Tail(FreshSlots(b))]
        /\ used' = [used EXCEPT ![b] = 1]
        /\ HandOut(Head(FreshSlots(b)))
  BY DEF NewBlock, FindPrevFreeRegion, FindNextFreeRegion
<1>2. PICK f, s : f = FreshSlots(b) /\ s = Head(f)
  OBVIOUS
<1>3. f \in Seq(Slots(b)) /\ f # <<>> /\ NoRepeats(f) /\ ListSet(f) = Slots(b)
  BY <1>2, FreshFacts
<1>4. /\ Tail(f) \in Seq(Slots(b)) /\ s \in Slots(b)
      /\ NoRepeats(Tail(f)) /\ ListSet(Tail(f)) = Slots(b) \ {s}
  BY <1>2, <1>3, TailFacts
<1>5. b \notin ListSet(blocks)
  BY <1>1 DEF IsFree, ListSet
<1>6. HandedFrom(b) = {}
  BY <1>5, HandedFacts DEF HandedFrom
<1>7. /\ HandedFrom(b)' = {s}
      /\ \A c \in Granules \ {b} : HandedFrom(c)' = HandedFrom(c)
      /\ \A x \in handed' : x.origin \in Origins /\ BlockOf(x.buf) \in ListSet(blocks) \cup {b}
      /\ \A x, y \in handed' : x.buf = y.buf => x = y
      /\ origin' = NULL /\ at' = 1
  BY <1>1, <1>2, <1>4, <1>6, HandOutFacts
<1>8. /\ blocks' \in Seq(Granules) /\ Len(blocks') = Len(blocks) + 1
      /\ ListSet(blocks') = ListSet(blocks) \cup {b} /\ NoRepeats(blocks')
  BY <1>1, <1>5, Parts, ConsFacts
<1>9. /\ used' \in [Granules -> 0 .. SlotsPerBlock] /\ used'[b] = 1
      /\ \A c \in Granules \ {b} : used'[c] = used[c]
  BY <1>1, Parts, SlotRoom
<1>10. /\ DOMAIN free' = Granules /\ free'[b] = Tail(f)
       /\ \A c \in Granules \ {b} : free'[c] = free[c]
  BY <1>1, <1>2, Parts
<1>11. \A c \in Granules : free'[c] \in Seq(Slots(c))
  BY <1>4, <1>10, Parts
<1>12. Accounted(b)'
  <2>1. NoRepeats(free'[b]) /\ ListSet(free'[b]) = Slots(b) \ {s}
    BY <1>4, <1>10
  <2>2. /\ ListSet(free'[b]) \cap HandedFrom(b)' = {}
        /\ ListSet(free'[b]) \cup HandedFrom(b)' = Slots(b)
    BY <2>1, <1>4, <1>7
  <2>3. used'[b] = Cardinality(HandedFrom(b)') /\ used'[b] > 0
    <3>1. Cardinality({s}) = 1
      BY FS_Singleton
    <3>2. Cardinality(HandedFrom(b)') = 1
      BY <3>1, <1>7
    <3> QED
      BY <3>2, <1>9
  <2> QED
    BY <2>1, <2>2, <2>3 DEF Accounted
<1>13. \A c \in ListSet(blocks) : Accounted(c)'
  BY <1>5, <1>7, <1>9, <1>10, Parts DEF Accounted
<1>14. at' \in 1 .. Len(blocks') + 1
  BY <1>7, <1>8, Parts
<1> QED
  BY <1>7, <1>8, <1>9, <1>10, <1>11, <1>12, <1>13, <1>14, Whole

-----------------------------------------------------------------------------
(* FreeBuffer takes a buffer back.                                         *)
LEMMA TakenBack ==
  ASSUME IInv, NEW x \in handed, NEW b, b = BlockOf(x.buf), handed' = handed \ {x}
  PROVE  /\ HandedFrom(b)' = HandedFrom(b) \ {x.buf}
         /\ \A c \in Granules \ {b} : HandedFrom(c)' = HandedFrom(c)
<1>1. \A y \in handed : y.buf = x.buf => y = x
  BY Parts
<1>2. HandedFrom(b)' = HandedFrom(b) \ {x.buf}
  BY <1>1 DEF HandedFrom
<1>3. \A c \in Granules \ {b} : HandedFrom(c)' = HandedFrom(c)
  BY DEF HandedFrom
<1> QED
  BY <1>2, <1>3

(* The invariant holds when a buffer is freed, with its block or without.  *)
LEMMA FreeStep ==
  ASSUME IInv, NEW x \in handed, FreeBuffer(x)
  PROVE  IInv'
<1>1. PICK b, s : b = BlockOf(x.buf) /\ s = x.buf
  OBVIOUS
<1>2. PICK i \in 1 .. Len(blocks) :
        /\ blocks[i] = b
        /\ blocks' = IF used[b] = 1 THEN Remove(i) ELSE blocks
  BY <1>1 DEF FreeBuffer
<1>3. /\ free' = [free EXCEPT ![b] = IF used[b] = 1 THEN <<>> ELSE <<s>> \o free[b]]
      /\ used' = [used EXCEPT ![b] = used[b] - 1]
      /\ handed' = handed \ {x} /\ origin = NULL /\ origin' = origin /\ at' = at
  BY <1>1 DEF FreeBuffer, walk
<1>4. b \in Granules /\ b \in ListSet(blocks) /\ s \in Slots(b) /\ s \in HandedFrom(b)
  BY <1>1, HandedFacts
<1>5. Accounted(b) /\ free[b] \in Seq(Slots(b))
  BY <1>4, Parts
<1>6. /\ HandedFrom(b)' = HandedFrom(b) \ {s}
      /\ \A c \in Granules \ {b} : HandedFrom(c)' = HandedFrom(c)
  BY <1>1, <1>3, TakenBack
<1>7. /\ used[b] = Cardinality(HandedFrom(b)) /\ used[b] \in 1 .. SlotsPerBlock
      /\ Cardinality(HandedFrom(b) \ {s}) = used[b] - 1
      /\ IsFiniteSet(HandedFrom(b)) /\ IsFiniteSet(HandedFrom(b) \ {s})
  BY <1>4, <1>5, Parts, HandedFinite, FS_RemoveElement DEF Accounted
<1>8. /\ used' \in [Granules -> 0 .. SlotsPerBlock] /\ used'[b] = used[b] - 1
      /\ \A c \in Granules \ {b} : used'[c] = used[c]
  <2>1. used[b] - 1 \in 0 .. SlotsPerBlock
    BY <1>7, SlotRoom
  <2>2. used \in [Granules -> 0 .. SlotsPerBlock]
    BY Parts
  <2> QED
    BY <2>1, <2>2, <1>3, <1>4
<1>9. /\ DOMAIN free' = Granules
      /\ free'[b] = IF used[b] = 1 THEN <<>> ELSE <<s>> \o free[b]
      /\ \A c \in Granules \ {b} : free'[c] = free[c]
  BY <1>3, <1>4, Parts
<1>10. /\ <<s>> \o free[b] \in Seq(Slots(b)) /\ NoRepeats(<<s>> \o free[b])
       /\ ListSet(<<s>> \o free[b]) = ListSet(free[b]) \cup {s}
  BY <1>4, <1>5, ConsFacts DEF Accounted
<1>11. \A c \in Granules : free'[c] \in Seq(Slots(c))
  <2>1. <<>> \in Seq(Slots(b))
    OBVIOUS
  <2> QED
    BY <2>1, <1>9, <1>10, Parts
<1>12. \A y \in handed' : y \in handed /\ y.origin \in Origins /\ BlockOf(y.buf) \in ListSet(blocks)
  BY <1>3, Parts, HandedFacts
<1>13. \A y, z \in handed' : y.buf = z.buf => y = z
  BY <1>3, Parts
<1>14. \A c \in ListSet(blocks) \ {b} : Accounted(c)'
  BY <1>6, <1>8, <1>9, Parts DEF Accounted
<1>15. at' = 1
  BY <1>3, Parts
<1>16. CASE used[b] = 1
  <2>1. HandedFrom(b)' = {}
    BY <1>6, <1>7, <1>16, FS_EmptySet
  <2>2. \A y \in handed' : BlockOf(y.buf) # b
    BY <2>1 DEF HandedFrom
  <2>3. /\ blocks' \in Seq(Granules) /\ NoRepeats(blocks')
        /\ ListSet(blocks') = ListSet(blocks) \ {b}
    BY <1>2, <1>16, Parts, RemoveFacts
  <2>4. Len(blocks') \in Nat
    BY <2>3
  <2>5. at' \in 1 .. Len(blocks') + 1
    BY <2>4, <1>15
  <2> QED
    BY <2>2, <2>3, <2>5, <1>3, <1>8, <1>9, <1>11, <1>12, <1>13, <1>14, <1>15,
       Whole
<1>17. CASE used[b] # 1
  <2>1. blocks' = blocks /\ free'[b] = <<s>> \o free[b]
    BY <1>2, <1>9, <1>17
  <2>2. used'[b] = Cardinality(HandedFrom(b)') /\ used'[b] > 0
    BY <1>6, <1>7, <1>8, <1>17
  <2>3. /\ ListSet(free'[b]) \cap HandedFrom(b)' = {}
        /\ ListSet(free'[b]) \cup HandedFrom(b)' = Slots(b)
    BY <2>1, <1>4, <1>5, <1>6, <1>10 DEF Accounted
  <2>4. Accounted(b)'
    BY <2>1, <2>2, <2>3, <1>10 DEF Accounted
  <2>5. at' \in 1 .. Len(blocks') + 1
    BY <2>1, <1>15, Parts
  <2> QED
    BY <2>1, <2>4, <2>5, <1>3, <1>8, <1>9, <1>11, <1>12, <1>13, <1>14, <1>15,
       Parts, Whole
<1> QED
  BY <1>16, <1>17

(* Every step keeps the invariant.                                         *)
LEMMA IInvStep == IInv /\ [Next]_vars => IInv'
<1> SUFFICES ASSUME IInv, [Next]_vars PROVE IInv'
  OBVIOUS
<1>1. ASSUME UNCHANGED <<lists, handed>>, origin' \in Origins \cup {NULL},
             origin' = NULL => at' = 1, at' \in 1 .. Len(blocks) + 1
      PROVE  IInv'
  <2>1. UNCHANGED <<blocks, free, used, handed>>
    BY <1>1 DEF lists
  <2>2. TypeOK'
    BY <2>1, <1>1 DEF IInv, TypeOK
  <2>3. SlotsAccountedFor'
    BY <2>1 DEF IInv, SlotsAccountedFor, HandedFrom
  <2> QED
    BY <2>2, <2>3, <1>1 DEF IInv
<1>2. CASE UNCHANGED vars
  BY <1>1, <1>2, Parts DEF vars, walk
<1>3. ASSUME NEW o \in Origins, AllocateBuffer(o) PROVE IInv'
  <2>1. 1 \in 1 .. Len(blocks) + 1 /\ o # NULL
    BY Parts, SizeAssumption DEF SizeAssumption
  <2> QED
    BY <2>1, <1>1, <1>3 DEF AllocateBuffer
<1>4. CASE SkipFar
  BY <1>2, <1>4 DEF SkipFar
<1>5. CASE SkipFull
  BY SMTT(30), <1>1, <1>5, Parts DEF SkipFull, Walking
<1>6. CASE NoBlock
  <2>1. 1 \in 1 .. Len(blocks) + 1
    BY Parts
  <2> QED
    BY <2>1, <1>1, <1>6 DEF NoBlock
<1>7. CASE Destroy
  <2>1. /\ blocks' = <<>> /\ handed' = {} /\ origin' = origin /\ at' = at /\ origin = NULL
        /\ free' = [b \in Granules |-> <<>>] /\ used' = [b \in Granules |-> 0]
    BY <1>7 DEF Destroy, walk
  <2>2. blocks' \in Seq(Granules) /\ NoRepeats(blocks') /\ ListSet(blocks') = {}
        /\ Len(blocks') = 0
    BY <2>1 DEF NoRepeats, ListSet
  <2>3. used' \in [Granules -> 0 .. SlotsPerBlock]
    BY <2>1, SlotRoom
  <2>4. DOMAIN free' = Granules /\ \A b \in Granules : free'[b] \in Seq(Slots(b))
    BY <2>1
  <2>5. at' = 1 /\ at' \in 1 .. Len(blocks') + 1
    BY <2>1, <2>2, Parts
  <2> QED
    BY <2>1, <2>2, <2>3, <2>4, <2>5, Whole
<1> QED
  BY <1>2, <1>3, <1>4, <1>5, <1>6, <1>7, TakeStep, NewStep, FreeStep DEF Next,
     GetMemoryBlock

(* At first there is no block.                                             *)
LEMMA InitIInv == Init => IInv
<1> SUFFICES ASSUME Init PROVE IInv
  OBVIOUS
<1>1. blocks \in Seq(Granules) /\ ListSet(blocks) = {} /\ NoRepeats(blocks) /\ Len(blocks) = 0
  BY DEF Init, ListSet, NoRepeats
<1>2. DOMAIN free = Granules /\ \A b \in Granules : free[b] \in Seq(Slots(b))
  BY DEF Init
<1>3. used \in [Granules -> 0 .. SlotsPerBlock]
  BY SlotRoom DEF Init
<1>4. TypeOK
  BY <1>1, <1>2, <1>3 DEF Init, TypeOK
<1>5. SlotsAccountedFor
  BY <1>1 DEF Init, SlotsAccountedFor
<1> QED
  BY <1>4, <1>5 DEF Init, IInv

-----------------------------------------------------------------------------
(* What holds in every state.                                              *)
LEMMA Invariant == Spec => []IInv
<1> QED
  BY InitIInv, IInvStep, PTL DEF Spec

(* Every variable has its type: lists hold slots of their own block and    *)
(* counts stay within it, whatever buffers AllocateBuffer and FreeBuffer   *)
(* are asked for.                                                          *)
THEOREM TypeCorrect == Spec => []TypeOK
<1>1. IInv => TypeOK
  BY DEF IInv
<1> QED
  BY <1>1, Invariant, PTL

(* Every slot of a block is free or with one caller, usedCount counts the  *)
(* latter and FreeBuffer releases a block with its last buffer, not before.*)
THEOREM Accounting == Spec => []SlotsAccountedFor
<1>1. IInv => SlotsAccountedFor
  BY DEF IInv
<1> QED
  BY <1>1, Invariant, PTL

-----------------------------------------------------------------------------
(* A slot of a block the walk accepts, or of one found below or above, lies*)
(* within reach of its origin with all its bytes.                          *)
LEMMA InReach ==
  ASSUME NEW o \in Origins, NEW b \in Granules, NEW s \in Slots(b),
         ~TooFar(b, o) \/ b \in FindPrevFreeRegion(o) \cup FindNextFreeRegion(o)
  PROVE  s \in 1 .. MaxApp /\ Pool!Within(s, o)
<1>1. /\ b \in Nat /\ s \in Nat /\ o \in Nat /\ o <= MaxApp /\ MinApp <= b /\ b % Gran = 0
      /\ b + SlotSize <= s /\ s + SlotSize <= b + BlockSize
  BY SlotFacts, GranuleFacts, Sizes, SizeAssumption DEF SizeAssumption
<1>2. MinAddr(o) <= b => o <= b + MaxRange
  BY <1>1, Sizes DEF MinAddr
<1>3. b <= MaxAddr(o) => b + BlockSize <= o + MaxRange + 1 /\ b + BlockSize <= MaxApp + 1
  BY <1>1, Sizes DEF MaxAddr
<1>4. /\ MinAddr(o) <= b
      /\ \/ b + BlockSize <= o + MaxRange + 1 /\ b + BlockSize <= MaxApp + 1
         \/ b + BlockSize <= o
  <2>1. CASE ~TooFar(b, o)
    <3>1. MinAddr(o) \in Int /\ MaxAddr(o) \in Int
      BY <1>1, Sizes DEF MinAddr, MaxAddr
    <3>2. MinAddr(o) <= b /\ b <= MaxAddr(o)
      BY <2>1, <3>1, <1>1 DEF TooFar
    <3> QED
      BY <3>2, <1>3
  <2>2. CASE b \in FindPrevFreeRegion(o)
    <3>1. MinAddr(o) <= b /\ b < Floor(o)
      BY <2>2, <1>1, Sizes DEF FindPrevFreeRegion, MinAddr
    <3>2. Floor(o) \in Nat /\ Floor(o) <= o /\ Floor(o) % Gran = 0
      BY <1>1, FloorFacts
    <3>3. b + BlockSize <= Floor(o)
      BY <3>1, <3>2, <1>1, GranulesApart
    <3> QED
      BY <3>1, <3>2, <3>3, <1>1, Sizes
  <2>3. CASE b \in FindNextFreeRegion(o)
    <3>1. b <= MaxAddr(o) /\ Floor(o) < b
      BY <2>3 DEF FindNextFreeRegion
    <3>2. o <= b
      BY <3>1, <1>1, FloorNext
    <3>3. MinAddr(o) <= b
      BY <3>2, <1>1, Sizes DEF MinAddr
    <3> QED
      BY <3>1, <3>3, <1>3
  <2> QED
    BY <2>1, <2>2, <2>3
<1>5. s + SlotSize <= o + MaxRange + 1 /\ s + SlotSize <= MaxApp + 1 /\ o <= s + MaxRange
  BY <1>1, <1>2, <1>4, Sizes
<1> QED
  BY <1>1, <1>5, Sizes DEF Pool!Within

(* Memory implements the pool: a buffer AllocateBuffer returns overlaps no *)
(* other that is in use, and all of it is within reach of its origin, also *)
(* when it comes from a block allocated for another origin.                *)
THEOREM PoolImplemented == Spec => ImplementsPool
<1>1. Init => Pool!Init
  BY DEF Init, Pool!Init
<1>2. IInv /\ [Next]_vars => [Pool!Next]_handed
  <2> SUFFICES ASSUME IInv, [Next]_vars PROVE [Pool!Next]_handed
    OBVIOUS
  <2>1. ASSUME origin # NULL, NEW b \in Granules, NEW s \in Slots(b), s \notin HandedFrom(b),
               HandOut(s),
               \/ ~TooFar(b, origin)
               \/ b \in FindPrevFreeRegion(origin) \cup FindNextFreeRegion(origin)
        PROVE  Pool!Next
    <3>1. origin \in Origins
      BY <2>1, Parts
    <3>2. s \in 1 .. MaxApp /\ Pool!Within(s, origin)
      BY <2>1, <3>1, InReach
    <3>3. ASSUME NEW x \in handed PROVE Pool!Disjoint(s, x.buf)
      <4>1. PICK c : c = BlockOf(x.buf)
        OBVIOUS
      <4>2. c \in Granules /\ x.buf \in Slots(c) /\ x.buf \in HandedFrom(c)
        BY <4>1, HandedFacts
      <4>3. s # x.buf
        BY <2>1, <4>2, SlotFacts
      <4> QED
        BY <2>1, <4>2, <4>3, SlotsDisjoint DEF Pool!Disjoint
    <3>4. handed' = handed \cup {[buf |-> s, origin |-> origin]}
      BY <2>1 DEF HandOut
    <3>5. Pool!AllocateBuffer(origin)
      BY <3>2, <3>3, <3>4 DEF Pool!AllocateBuffer
    <3> QED
      BY <3>1, <3>5 DEF Pool!Next
  <2>2. CASE TakeSlot
    <3>1. PICK b : b = blocks[at]
      OBVIOUS
    <3>2. PICK s : s = Head(free[b])
      OBVIOUS
    <3>3. /\ b \in ListSet(blocks) /\ b \in Granules /\ origin # NULL /\ free[b] # <<>>
          /\ ~TooFar(b, origin) /\ HandOut(s)
      BY <2>2, <3>1, <3>2, StandsOn DEF TakeSlot, Walking
    <3>4. s \in Slots(b) /\ s \in ListSet(free[b])
      BY <3>2, <3>3, Parts, TailFacts
    <3>5. s \notin HandedFrom(b)
      BY <3>3, <3>4, Parts DEF Accounted
    <3> QED
      BY <2>1, <3>3, <3>4, <3>5
  <2>3. CASE NewBlock
    <3>1. PICK b \in FindPrevFreeRegion(origin) \cup FindNextFreeRegion(origin) :
            HandOut(Head(FreshSlots(b)))
      BY <2>3 DEF NewBlock
    <3>2. PICK s : s = Head(FreshSlots(b))
      OBVIOUS
    <3>3. b \in Granules /\ b \notin ListSet(blocks) /\ origin # NULL
      BY <2>3, <3>1 DEF NewBlock, FindPrevFreeRegion, FindNextFreeRegion,
         IsFree, ListSet
    <3>4. s \in Slots(b)
      BY <3>2, <3>3, FreshFacts, TailFacts
    <3>5. s \notin HandedFrom(b)
      BY <3>3, HandedFacts DEF HandedFrom
    <3> QED
      BY <2>1, <3>1, <3>2, <3>3, <3>4, <3>5
  <2>4. ASSUME NEW x \in handed, FreeBuffer(x) PROVE Pool!Next
    BY <2>4 DEF FreeBuffer, Pool!Next, Pool!FreeBuffer
  <2>5. CASE Destroy
    BY <2>5 DEF Destroy, Pool!Next, Pool!Destroy
  <2>6. CASE UNCHANGED handed
    BY <2>6
  <2>7. SkipFar \/ SkipFull \/ NoBlock \/ (\E o \in Origins : AllocateBuffer(o))
        \/ UNCHANGED vars => UNCHANGED handed
    BY DEF SkipFar, SkipFull, NoBlock, AllocateBuffer, vars
  <2> QED
    BY <2>2, <2>3, <2>4, <2>5, <2>6, <2>7 DEF Next, GetMemoryBlock
<1> QED
  BY <1>1, <1>2, Invariant, PTL DEF Spec, ImplementsPool, Pool!Spec
=============================================================================
