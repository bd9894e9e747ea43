-------------------------- MODULE GroupScan_proofs --------------------------
(***************************************************************************)
(* Proofs about GroupScan, for groups, blocks, lockstep widths and arrays  *)
(* of any size.                                                            *)
(***************************************************************************)
EXTENDS GroupScan, SequenceTheorems, WellFoundedInduction, TLAPS

-----------------------------------------------------------------------------
(* What is scanned: parts of the sequence of all numbers.                   *)
LEMMA ElementsSeq ==
  ASSUME NEW a \in Int, NEW b \in Int
  PROVE  /\ Elements(a, b) \in Seq(Int)
         /\ Len(Elements(a, b)) = IF a <= b THEN b - a + 1 ELSE 0
         /\ \A i \in 1..Len(Elements(a, b)) : Elements(a, b)[i] = a + i - 1
<1>1. CASE a <= b
  BY <1>1 DEF Elements
<1>2. CASE b < a
  <2>1. 1..b - a + 1 = 1..0
    BY <1>2
  <2> DEFINE e == [i \in 1..0 |-> a + i - 1]
  <2>2. Elements(a, b) = e
    BY <2>1 DEF Elements
  <2>3. e \in Seq(Int) /\ Len(e) = 0
    OBVIOUS
  <2> QED
    BY <1>2, <2>2, <2>3
<1> QED
  BY <1>1, <1>2

LEMMA ElementsConcat ==
  ASSUME NEW a \in Int, NEW b \in Int, NEW c \in Int, a <= b, b - 1 <= c
  PROVE  Elements(a, b - 1) \o Elements(b, c) = Elements(a, c)
<1> DEFINE s == Elements(a, b - 1)
           t == Elements(b, c)
           u == Elements(a, c)
<1>1. a \in Int /\ b - 1 \in Int /\ b \in Int /\ c \in Int
  OBVIOUS
<1>2. s \in Seq(Int) /\ Len(s) = b - a /\ \A i \in 1..Len(s) : s[i] = a + i - 1
  <2>1. Len(s) = IF a <= b - 1 THEN b - 1 - a + 1 ELSE 0
    BY <1>1, ElementsSeq
  <2>2. Len(s) = b - a
    BY <2>1
  <2> QED
    BY <1>1, <2>2, ElementsSeq
<1>3. t \in Seq(Int) /\ Len(t) = c - b + 1 /\ \A i \in 1..Len(t) : t[i] = b + i - 1
  <2>1. Len(t) = IF b <= c THEN c - b + 1 ELSE 0
    BY <1>1, ElementsSeq
  <2>2. Len(t) = c - b + 1
    BY <2>1
  <2> QED
    BY <1>1, <2>2, ElementsSeq
<1>4. u \in Seq(Int) /\ Len(u) = c - a + 1 /\ \A i \in 1..Len(u) : u[i] = a + i - 1
  <2>1. Len(u) = IF a <= c THEN c - a + 1 ELSE 0
    BY <1>1, ElementsSeq
  <2>2. Len(u) = c - a + 1
    BY <2>1
  <2> QED
    BY <1>1, <2>2, ElementsSeq
<1> HIDE DEF s, t, u
<1>5. /\ s \o t \in Seq(Int) /\ Len(s \o t) = Len(s) + Len(t)
      /\ \A i \in 1..Len(s) + Len(t) : (s \o t)[i] = IF i <= Len(s) THEN s[i] ELSE t[i - Len(s)]
  BY <1>2, <1>3, ConcatProperties, Zenon
<1>6. Len(s \o t) = Len(u)
  BY <1>2, <1>3, <1>4, <1>5
<1>7. ASSUME NEW i \in 1..Len(u) PROVE (s \o t)[i] = u[i]
  <2>1. i \in 1..Len(s) + Len(t) /\ u[i] = a + i - 1
    BY <1>2, <1>3, <1>4
  <2>2. CASE i <= Len(s)
    BY <1>2, <1>5, <2>1, <2>2
  <2>3. CASE i > Len(s)
    <3>1. i - Len(s) \in 1..Len(t) /\ i - Len(s) = i - (b - a)
      BY <1>2, <1>3, <1>4, <2>1, <2>3
    <3>2. t[i - Len(s)] = b + (i - (b - a)) - 1
      BY <1>3, <3>1
    <3>3. (s \o t)[i] = t[i - Len(s)]
      BY <1>2, <1>5, <2>1, <2>3
    <3> QED
      BY <2>1, <3>2, <3>3
  <2> QED
    BY <1>2, <2>1, <2>2, <2>3
<1>8. s \o t = u
  BY <1>4, <1>5, <1>6, <1>7, SeqEqual
<1> QED
  BY <1>8 DEF s, t, u

LEMMA ElementsEmpty ==
  ASSUME NEW a \in Int, NEW b \in Int, b < a
  PROVE  Elements(a, b) = <<>>
<1>1. Elements(a, b) \in Seq(Int) /\ Len(Elements(a, b)) = 0
  BY ElementsSeq
<1> DEFINE e == Elements(a, b)
<1> HIDE DEF e
<1>2. e \in Seq(Int) /\ Len(e) = 0
  BY <1>1 DEF e
<1>3. e = <<>>
  BY <1>2, EmptySeq
<1> QED
  BY <1>3 DEF e

LEMMA ElementsOne ==
  ASSUME NEW a \in Int
  PROVE  Elements(a, a) = <<a>>
<1>1. /\ Elements(a, a) \in Seq(Int) /\ Len(Elements(a, a)) = 1
      /\ \A i \in 1..Len(Elements(a, a)) : Elements(a, a)[i] = a + i - 1
  <2>1. Len(Elements(a, a)) = IF a <= a THEN a - a + 1 ELSE 0
    BY ElementsSeq
  <2>2. Len(Elements(a, a)) = 1
    BY <2>1
  <2> QED
    BY <2>2, ElementsSeq
<1>2. Elements(a, a)[1] = a
  BY <1>1
<1> DEFINE e == Elements(a, a)
           f == <<a>>
<1>4. f \in Seq(Int) /\ Len(f) = 1 /\ f[1] = a
  OBVIOUS
<1> HIDE DEF e, f
<1>5. e \in Seq(Int) /\ f \in Seq(Int) /\ Len(e) = 1 /\ Len(f) = 1 /\ e[1] = f[1]
  BY <1>1, <1>2, <1>4 DEF e
<1>6. e = f
  BY <1>5, SeqEqual
<1> QED
  BY <1>6 DEF e, f

(* What has elements from 0 on is no garbage.                               *)
LEMMA ElementsNoGarbage ==
  ASSUME NEW a \in Nat, NEW b \in Int
  PROVE  Elements(a, b) # Garbage
<1> SUFFICES ASSUME Elements(a, b) = Garbage PROVE FALSE
  OBVIOUS
<1>1. Len(Garbage) = 1 /\ Garbage[1] = -1
  BY DEF Garbage
<1> DEFINE e == Elements(a, b)
<1>2. \A i \in 1..Len(e) : e[i] = a + i - 1
  <2>1. a \in Int
    OBVIOUS
  <2> QED
    BY <2>1, ElementsSeq
<1>3. e = Garbage
  OBVIOUS
<1> HIDE DEF e
<1>4. e[1] = a + 1 - 1
  <2>1. Len(e) = 1
    BY <1>1, <1>3
  <2> QED
    BY <1>2, <2>1
<1>5. e[1] = -1
  BY <1>1, <1>3
<1> QED
  BY <1>4, <1>5
-----------------------------------------------------------------------------
(* Induction.  The theorems of the library about it have an operator as a   *)
(* parameter; that a set of numbers has a least element follows from WFMin, *)
(* which has none, and is all that is needed.                               *)
Smaller == {p \in Nat \X Nat : p[1] < p[2]}

LEMMA SmallerWellFounded == IsWellFoundedOn(Smaller, Nat)
  BY NatLessThanWellFounded, Zenon DEF OpToRel, Smaller

LEMMA HasMinimal ==
  ASSUME NEW S, S \subseteq Nat, S # {}
  PROVE  \E x \in S : \A y \in S : ~ (<<y, x>> \in Smaller)
  BY SmallerWellFounded, WFMin, Zenon

(* A set of numbers with 0 and the successor of each of its elements.       *)
LEMMA NatInductionOnSet ==
  ASSUME NEW S, 0 \in S, \A n \in Nat : n \in S => n + 1 \in S
  PROVE  Nat \subseteq S
<1> DEFINE T == Nat \ S
<1>1. SUFFICES ASSUME T # {} PROVE FALSE
  OBVIOUS
<1>2. PICK x \in T : \A y \in T : ~ (<<y, x>> \in Smaller)
  BY <1>1, HasMinimal
<1>3. x \in Nat /\ x # 0
  OBVIOUS
<1>4. x - 1 \in Nat /\ x - 1 < x /\ (x - 1) + 1 = x
  BY <1>3
<1>5. <<x - 1, x>> \in Smaller
  BY <1>3, <1>4 DEF Smaller
<1>6. x - 1 \in S
  BY <1>2, <1>4, <1>5
<1> QED
  BY <1>4, <1>6

-----------------------------------------------------------------------------
(* Quotients, remainders and products.                                      *)
LEMMA Division ==
  ASSUME NEW x \in Nat, NEW y \in Nat \ {0}
  PROVE  /\ x \div y \in Nat /\ x % y \in 0..y - 1
         /\ x = y * (x \div y) + (x % y)
         /\ y * (x \div y) <= x /\ x < y * (x \div y) + y
OBVIOUS

LEMMA DivisionUnique ==
  ASSUME NEW x \in Nat, NEW y \in Nat \ {0}, NEW q \in Nat, y * q <= x, x < y * q + y
  PROVE  x \div y = q
OBVIOUS

LEMMA RestUnique ==
  ASSUME NEW y \in Nat \ {0}, NEW q \in Nat, NEW r \in 0..y - 1, NEW x \in Nat, x = y * q + r
  PROVE  x % y = r
<1>1. x \div y = q
  BY DivisionUnique
<1>2. x = y * (x \div y) + (x % y)
  BY Division
<1> QED
  BY <1>1, <1>2

LEMMA ProductMonotonic ==
  ASSUME NEW x \in Nat, NEW y \in Nat, NEW z \in Nat, x <= y
  PROVE  x * z <= y * z /\ z * x <= z * y
OBVIOUS

LEMMA Products ==
  ASSUME NEW x \in Nat, NEW y \in Nat, NEW z \in Nat
  PROVE  /\ x * y \in Nat /\ x * y = y * x /\ (x * y) * z = x * (y * z)
         /\ (x + 1) * y = x * y + y /\ x * (y + 1) = x * y + x
OBVIOUS

-----------------------------------------------------------------------------
(* Blocks and waves.                                                        *)

(* The first thread of the block of t, and the last one of block b, which   *)
(* is full if that thread has an element.                                   *)
Lead(t) == BlockId(t) * BlockSize
Last(b) == b * BlockSize + BlockSize - 1
Full(b) == Last(b) < width

(* The device and the array, in GroupScan and where the scan is used.       *)
Shape ==
  /\ lockstep = 1 \/ (lockstep \in Nat /\ lockstep >= BlockSize /\ lockstep % BlockSize = 0)
  /\ width \in 1..GroupSize

LEMMA BlockOf ==
  ASSUME NEW t \in Thread
  PROVE  /\ t \in Nat /\ BlockId(t) \in Nat /\ InBlockId(t) \in Nat /\ Lead(t) \in Nat
         /\ InBlockId(t) < BlockSize /\ t = Lead(t) + InBlockId(t) /\ BlockId(t) <= t
         /\ BlockId(t) < BlockSize /\ BlockId(t) \in Thread
         /\ Last(BlockId(t)) = Lead(t) + BlockSize - 1
<1> DEFINE q == t \div BlockSize
           r == t % BlockSize
<1>1. t \in Nat /\ t < GroupSize /\ GroupSize \in Nat /\ BlockSize \in Nat \ {0} /\ GroupSize <= BlockSize * BlockSize
  BY GroupAssumption, BlockAssumption DEF Thread
<1>2. /\ q \in Nat /\ r \in 0..BlockSize - 1 /\ t = BlockSize * q + r
      /\ BlockSize * q <= t /\ t < BlockSize * q + BlockSize
  BY <1>1, Division
<1> HIDE DEF q, r
<1>3. BlockSize * q = q * BlockSize /\ q * BlockSize \in Nat
  BY <1>1, <1>2, Products
<1>4. q < BlockSize
  <2> SUFFICES ASSUME BlockSize <= q PROVE FALSE
    BY <1>1, <1>2
  <2>1. BlockSize * BlockSize <= q * BlockSize /\ BlockSize * BlockSize \in Nat
    BY <1>1, <1>2, ProductMonotonic, Products
  <2> QED
    BY <1>1, <1>2, <1>3, <2>1
<1>5. q <= t
  <2>1. 1 * q <= BlockSize * q
    BY <1>1, <1>2, ProductMonotonic
  <2> QED
    BY <1>1, <1>2, <1>3, <2>1
<1>6. q \in Thread
  BY <1>1, <1>2, <1>5 DEF Thread
<1> DEFINE l == q * BlockSize
<1>7. l \in Nat /\ t = l + r
  BY <1>2, <1>3
<1> HIDE DEF l
<1>8. r \in Nat /\ r < BlockSize
  BY <1>1, <1>2
<1> QED
  BY <1>1, <1>2, <1>4, <1>5, <1>6, <1>7, <1>8 DEF q, r, l, BlockId, InBlockId, Lead, Last

LEMMA SameBlock ==
  ASSUME NEW t \in Thread, NEW s \in Nat, Lead(t) <= s, s < Lead(t) + BlockSize
  PROVE  BlockId(s) = BlockId(t) /\ Lead(s) = Lead(t) /\ InBlockId(s) = s - Lead(t)
<1>1. BlockSize \in Nat \ {0}
  BY GroupAssumption
<1>2. BlockId(t) \in Nat
  BY BlockOf
<1>3. Lead(t) = BlockSize * BlockId(t)
  BY <1>1, <1>2, Products DEF Lead
<1>4. s \div BlockSize = BlockId(t)
  BY <1>1, <1>2, <1>3, DivisionUnique
<1>5. s = BlockSize * (s \div BlockSize) + (s % BlockSize) /\ s % BlockSize \in 0..BlockSize - 1
  BY <1>1, Division
<1>6. Lead(t) \in Nat
  BY BlockOf
<1> DEFINE l == Lead(t)
           r == s % BlockSize
<1>7. s = l + r /\ l \in Nat /\ r \in Int
  BY <1>3, <1>4, <1>5, <1>6
<1> HIDE DEF l, r
<1>8. r = s - l
  BY <1>7
<1> QED
  BY <1>4, <1>8 DEF BlockId, Lead, InBlockId, l, r

(* The threads of a block run in one wave, unless each runs alone.          *)
LEMMA SameWave ==
  ASSUME Shape, lockstep # 1, NEW s \in Thread, NEW t \in Thread, BlockId(s) = BlockId(t)
  PROVE  s \div lockstep = t \div lockstep
<1>1. BlockSize \in Nat \ {0} /\ lockstep \in Nat \ {0} /\ lockstep % BlockSize = 0
  BY GroupAssumption DEF Shape
<1> DEFINE m == lockstep \div BlockSize
<1>2. m \in Nat /\ lockstep = BlockSize * m
  <2> DEFINE r == lockstep % BlockSize
  <2>1. m \in Nat /\ lockstep = BlockSize * m + r /\ r = 0
    BY <1>1, Division
  <2>2. BlockSize * m \in Nat
    BY <1>1, <2>1, Products
  <2> HIDE DEF m, r
  <2> QED
    BY <2>1, <2>2
<1> HIDE DEF m
<1>3. m \in Nat \ {0}
  BY <1>1, <1>2
<1>4. ASSUME NEW x \in Nat PROVE x \div lockstep = (x \div BlockSize) \div m
  <2> DEFINE q == x \div BlockSize
             k == q \div m
  <2>1. q \in Nat /\ BlockSize * q <= x /\ x < BlockSize * q + BlockSize
    BY <1>1, Division
  <2>2. k \in Nat /\ m * k <= q /\ q < m * k + m
    BY <1>3, <2>1, Division
  <2> HIDE DEF q, k
  <2>3. BlockSize * (m * k) <= BlockSize * q /\ m * k \in Nat
    BY <1>1, <1>3, <2>1, <2>2, ProductMonotonic, Products
  <2>4. BlockSize * (q + 1) <= BlockSize * (m * k + m)
    <3>1. q + 1 <= m * k + m /\ q + 1 \in Nat /\ m * k + m \in Nat
      BY <1>3, <2>1, <2>2, <2>3
    <3> QED
      BY <1>1, <3>1, ProductMonotonic
  <2>5. BlockSize * (q + 1) = BlockSize * q + BlockSize
    BY <1>1, <2>1, Products
  <2>6. /\ BlockSize * (m * k) = lockstep * k
        /\ BlockSize * (m * k + m) = lockstep * k + lockstep
    <3>1. BlockSize * (m * k) = lockstep * k
      BY <1>1, <1>2, <1>3, <2>2, Products
    <3>2. m * k + m = m * (k + 1)
      BY <1>3, <2>2, Products
    <3>3. BlockSize * (m * (k + 1)) = (BlockSize * m) * (k + 1)
      BY <1>1, <1>3, <2>2, Products
    <3>4. lockstep * (k + 1) = lockstep * k + lockstep
      BY <1>1, <2>2, Products
    <3> QED
      BY <1>2, <3>1, <3>2, <3>3, <3>4
  <2> DEFINE y == lockstep * k
             z == BlockSize * q
  <2>7. y \in Nat /\ z \in Nat
    BY <1>1, <2>1, <2>2, Products
  <2>8. y <= z /\ z + BlockSize <= y + lockstep
    BY <2>3, <2>4, <2>5, <2>6
  <2>9. z <= x /\ x < z + BlockSize
    BY <2>1
  <2> HIDE DEF y, z
  <2>10. y <= x /\ x < y + lockstep
    BY <1>1, <2>7, <2>8, <2>9
  <2> QED
    BY <1>1, <2>2, <2>10, DivisionUnique DEF y, k, q
<1>5. s \in Nat /\ t \in Nat
  BY DEF Thread
<1> QED
  BY <1>4, <1>5 DEF BlockId

-----------------------------------------------------------------------------
(* What the threads have to find, for any array: tot[a][b] is what the      *)
(* elements from a to b come to, so that neighbouring parts add up.         *)
Adds(tot) == \A a, b, c \in Thread : a <= b /\ b < c => tot[a][b] \o tot[b + 1][c] = tot[a][c]

(* Where the part begins that thread t has combined when the distance is k. *)
Low(t, k) == IF t - k + 1 < Lead(t) THEN Lead(t) ELSE t - k + 1

(* That part: of the elements in the scan of the blocks, and of the totals  *)
(* of the blocks in that of the first one.                                  *)
Value(tot, p, t, k) ==
  IF p = 1 THEN tot[Low(t, k)][t] ELSE tot[Low(t, k) * BlockSize][Last(t)]

(* The threads that have such a part.  The others of the first block take   *)
(* part in the second scan as well, with what they find.                    *)
HasPart(p, t) == IF p = 1 THEN t < width ELSE IsFirstBlock(t) /\ Full(t)

LEMMA FirstBlock ==
  ASSUME NEW t \in Thread
  PROVE  /\ IsFirstBlock(t) <=> t < BlockSize
         /\ IsFirstBlock(t) <=> Lead(t) = 0
         /\ ~ IsFirstBlock(t) => BlockId(t) - 1 \in Thread /\ BlockId(t) - 1 < BlockSize
<1>1. /\ t \in Nat /\ BlockId(t) \in Nat /\ InBlockId(t) < BlockSize /\ InBlockId(t) \in Nat
      /\ t = Lead(t) + InBlockId(t) /\ BlockId(t) < BlockSize /\ BlockId(t) \in Thread /\ Lead(t) \in Nat
  BY BlockOf
<1>2. BlockSize \in Nat \ {0} /\ GroupSize \in Nat
  BY GroupAssumption
<1>3. BlockId(t) = 0 => Lead(t) = 0
  BY <1>2 DEF Lead
<1>4. BlockId(t) # 0 => BlockSize <= Lead(t)
  <2> SUFFICES ASSUME BlockId(t) # 0 PROVE 1 * BlockSize <= BlockId(t) * BlockSize
    BY <1>2 DEF Lead
  <2> QED
    BY <1>1, <1>2, ProductMonotonic
<1>5. BlockId(t) # 0 => BlockId(t) - 1 \in Thread
  BY <1>1, <1>2 DEF Thread
<1> QED
  BY <1>1, <1>2, <1>3, <1>4, <1>5 DEF IsFirstBlock

(* The last thread of a full block is one, and the lead of the next follows.*)
LEMMA LastOfFull ==
  ASSUME Shape, NEW b \in Nat, Full(b)
  PROVE  /\ Last(b) \in Thread /\ b * BlockSize \in Thread /\ b * BlockSize <= Last(b)
         /\ Last(b) < width /\ BlockId(Last(b)) = b /\ Lead(Last(b)) = b * BlockSize
         /\ InBlockId(Last(b)) = BlockSize - 1
         /\ b \in Thread /\ b < BlockSize /\ IsFirstBlock(b) /\ b <= Last(b)
         /\ Last(b) + 1 = (b + 1) * BlockSize
<1>1. BlockSize \in Nat \ {0} /\ width \in Nat /\ width <= GroupSize /\ GroupSize \in Nat
  BY GroupAssumption DEF Shape
<1> DEFINE l == b * BlockSize
<1>2. l \in Nat /\ (b + 1) * BlockSize = l + BlockSize /\ l = BlockSize * b
  BY <1>1, Products
<1> HIDE DEF l
<1>3. l + BlockSize - 1 < width
  BY DEF Full, Last, l
<1>4. Last(b) = l + BlockSize - 1
  BY DEF Last, l
<1>5. Last(b) \in Thread /\ l \in Thread /\ l <= Last(b) /\ Last(b) < width
  BY <1>1, <1>2, <1>3, <1>4 DEF Thread
<1>6. Last(b) \div BlockSize = b
  <2>1. Last(b) \in Nat /\ BlockSize * b <= Last(b) /\ Last(b) < BlockSize * b + BlockSize
    BY <1>1, <1>2, <1>4
  <2> QED
    BY <1>1, <2>1, DivisionUnique
<1>7. BlockId(Last(b)) = b
  BY <1>6 DEF BlockId
<1>8. Lead(Last(b)) = l
  BY <1>7 DEF Lead, l
<1>9. Last(b) = Lead(Last(b)) + InBlockId(Last(b)) /\ InBlockId(Last(b)) \in Nat
  BY <1>5, BlockOf
<1>10. InBlockId(Last(b)) = BlockSize - 1
  BY <1>1, <1>2, <1>4, <1>8, <1>9
<1>11. b \in Thread /\ b < BlockSize /\ b <= Last(b)
  BY <1>5, <1>7, BlockOf
<1>12. IsFirstBlock(b)
  BY <1>11, FirstBlock
<1> QED
  BY <1>1, <1>2, <1>4, <1>5, <1>7, <1>8, <1>10, <1>11, <1>12 DEF l

(* The blocks before one with elements are full.                            *)
LEMMA BlocksBeforeFull ==
  ASSUME Shape, NEW t \in Thread, t < width, NEW b \in Nat, b < BlockId(t)
  PROVE  Full(b) /\ Last(b) < Lead(t)
<1>1. BlockSize \in Nat \ {0} /\ width \in Nat
  BY GroupAssumption DEF Shape
<1>2. BlockId(t) \in Nat /\ Lead(t) \in Nat /\ Lead(t) <= t /\ t \in Nat
  BY BlockOf
<1>3. (b + 1) * BlockSize <= BlockId(t) * BlockSize
  BY <1>1, <1>2, ProductMonotonic
<1>4. (b + 1) * BlockSize = b * BlockSize + BlockSize /\ b * BlockSize \in Nat
  BY <1>1, Products
<1>5. b * BlockSize + BlockSize <= Lead(t)
  BY <1>3, <1>4 DEF Lead
<1> DEFINE l == b * BlockSize
<1> HIDE DEF l
<1>6. l + BlockSize - 1 < width /\ l + BlockSize - 1 < Lead(t)
  BY <1>1, <1>2, <1>4, <1>5 DEF l
<1> QED
  BY <1>6 DEF Full, Last, l

(* The neighbour at a distance that is within the block has a part.         *)
LEMMA Neighbour ==
  ASSUME Shape, NEW p \in 1..2, NEW t \in Thread, HasPart(p, t), NEW k \in Nat \ {0}, k <= InBlockId(t)
  PROVE  /\ t - k \in Thread /\ t - k # t
         /\ BlockId(t - k) = BlockId(t) /\ Lead(t - k) = Lead(t) /\ HasPart(p, t - k)
<1>1. /\ t \in Nat /\ Lead(t) \in Nat /\ InBlockId(t) \in Nat /\ t = Lead(t) + InBlockId(t)
      /\ InBlockId(t) < BlockSize
  BY BlockOf
<1>2. BlockSize \in Nat \ {0} /\ GroupSize \in Nat /\ width \in Nat
  BY GroupAssumption DEF Shape
<1>3. t - k \in Nat /\ Lead(t) <= t - k /\ t - k < Lead(t) + BlockSize /\ t - k # t /\ t - k \in Thread
  BY <1>1, <1>2 DEF Thread
<1>4. BlockId(t - k) = BlockId(t) /\ Lead(t - k) = Lead(t)
  BY <1>3, SameBlock
<1>5. HasPart(p, t - k)
  <2>1. CASE p = 1
    BY <1>1, <1>2, <2>1 DEF HasPart
  <2>2. CASE p # 1
    <3>1. IsFirstBlock(t - k)
      BY <1>4, <2>2 DEF HasPart, IsFirstBlock
    <3>2. (t - k) * BlockSize <= t * BlockSize /\ (t - k) * BlockSize \in Nat /\ t * BlockSize \in Nat
      BY <1>1, <1>2, <1>3, ProductMonotonic, Products
    <3> DEFINE x == (t - k) * BlockSize
               y == t * BlockSize
    <3>3. x \in Nat /\ y \in Nat /\ x <= y /\ y + BlockSize - 1 < width
      BY <2>2, <3>2 DEF HasPart, Full, Last
    <3> HIDE DEF x, y
    <3>4. x + BlockSize - 1 < width
      BY <1>2, <3>3
    <3> QED
      BY <2>2, <3>1, <3>4 DEF HasPart, Full, Last, x
  <2> QED
    BY <2>1, <2>2
<1> QED
  BY <1>3, <1>4, <1>5

(* An iteration of the scan: the part of the neighbour and the own one are  *)
(* that of twice the distance, ...                                          *)
LEMMA Combined ==
  ASSUME Shape, NEW tot, Adds(tot), NEW p \in 1..2, NEW t \in Thread, HasPart(p, t),
         NEW k \in Nat \ {0}, k <= InBlockId(t)
  PROVE  Value(tot, p, t - k, k) \o Value(tot, p, t, k) = Value(tot, p, t, 2 * k)
<1>1. /\ t \in Nat /\ Lead(t) \in Nat /\ InBlockId(t) \in Nat /\ t = Lead(t) + InBlockId(t)
      /\ InBlockId(t) < BlockSize
  BY BlockOf
<1>2. BlockSize \in Nat \ {0} /\ GroupSize \in Nat /\ width \in Nat
  BY GroupAssumption DEF Shape
<1>3. t - k \in Thread /\ Lead(t - k) = Lead(t) /\ HasPart(p, t - k)
  BY Neighbour
<1> DEFINE a == Low(t, 2 * k)
<1>4. Low(t, k) = t - k + 1
  BY <1>1 DEF Low
<1>5. Low(t - k, k) = a
  BY <1>1, <1>3 DEF Low
<1>6. a \in Nat /\ a <= t - k /\ a \in Thread
  BY <1>1, <1>2 DEF Low, Thread
<1> HIDE DEF a
<1>7. CASE p = 1
  <2>1. tot[a][t - k] \o tot[t - k + 1][t] = tot[a][t]
    <3> DEFINE b == t - k
    <3>1. b \in Thread /\ a \in Thread /\ a <= b /\ b < t
      BY <1>1, <1>3, <1>6
    <3> HIDE DEF b
    <3>2. tot[a][b] \o tot[b + 1][t] = tot[a][t]
      BY <3>1 DEF Adds
    <3> QED
      BY <3>2 DEF b
  <2> QED
    BY <1>4, <1>5, <1>7, <2>1 DEF Value, a
<1>8. CASE p # 1
  <2>1. Full(t - k) /\ Full(t)
    BY <1>3, <1>8 DEF HasPart
  <2>2. /\ Last(t - k) \in Thread /\ Last(t - k) + 1 = (t - k + 1) * BlockSize
        /\ Last(t) \in Thread
    BY <1>1, <1>3, <2>1, LastOfFull DEF Thread
  <2>3. t - k + 1 \in Nat /\ t - k \in Nat /\ t - k + 1 <= t
    BY <1>1, <1>3 DEF Thread
  <2>4. /\ a * BlockSize <= (t - k) * BlockSize /\ a * BlockSize \in Nat
        /\ (t - k) * BlockSize \in Nat
        /\ t * BlockSize \in Nat /\ (t - k + 1) * BlockSize <= t * BlockSize
        /\ (t - k + 1) * BlockSize \in Nat
    BY <1>1, <1>2, <1>6, <2>3, ProductMonotonic, Products
  <2> DEFINE u == a * BlockSize
             v == Last(t - k)
             x == Last(t)
             m == (t - k + 1) * BlockSize
             y == (t - k) * BlockSize
             z == t * BlockSize
  <2>5. v = y + BlockSize - 1 /\ x = z + BlockSize - 1 /\ v \in Thread /\ x \in Thread /\ v + 1 = m
        /\ u \in Nat /\ y \in Nat /\ z \in Nat /\ m \in Nat /\ u <= y /\ m <= z
    <3>1. v = y + BlockSize - 1 /\ x = z + BlockSize - 1
      BY DEF Last
    <3>2. v \in Thread /\ x \in Thread /\ v + 1 = m
      BY <2>2
    <3> HIDE DEF u, v, x, m, y, z
    <3> QED
      BY <2>4, <3>1, <3>2 DEF u, m, y, z
  <2> HIDE DEF u, v, x, m, y, z
  <2>6. u \in Thread /\ u <= v /\ v < x
    BY <1>2, <2>5 DEF Thread
  <2>7. tot[u][v] \o tot[v + 1][x] = tot[u][x]
    BY <2>5, <2>6 DEF Adds
  <2> QED
    BY <1>4, <1>5, <1>8, <2>5, <2>7 DEF Value, u, v, x, m, a
<1> QED
  BY <1>7, <1>8

(* ... and a thread without such a neighbour has all there is in the block. *)
LEMMA Unchanged ==
  ASSUME NEW tot, NEW p, NEW t \in Thread, NEW k \in Nat \ {0}, InBlockId(t) < k
  PROVE  Value(tot, p, t, 2 * k) = Value(tot, p, t, k)
<1>1. t \in Nat /\ Lead(t) \in Nat /\ InBlockId(t) \in Nat /\ t = Lead(t) + InBlockId(t)
  BY BlockOf
<1>2. Low(t, 2 * k) = Low(t, k)
  BY <1>1 DEF Low
<1> QED
  BY <1>2 DEF Value

LEMMA WholeBlock ==
  ASSUME NEW tot, NEW t \in Thread, NEW k \in Nat, BlockSize <= k
  PROVE  /\ Value(tot, 1, t, k) = tot[Lead(t)][t]
         /\ IsFirstBlock(t) => Value(tot, 2, t, k) = tot[0][Last(t)]
<1>1. /\ t \in Nat /\ Lead(t) \in Nat /\ InBlockId(t) \in Nat /\ t = Lead(t) + InBlockId(t)
      /\ InBlockId(t) < BlockSize /\ BlockSize \in Nat
  BY BlockOf, GroupAssumption
<1>2. Low(t, k) = Lead(t)
  BY <1>1 DEF Low
<1>3. IsFirstBlock(t) => Lead(t) = 0 /\ 0 * BlockSize = 0
  BY <1>1, FirstBlock
<1> QED
  BY <1>2, <1>3 DEF Value

LEMMA Alone ==
  ASSUME NEW tot, NEW t \in Thread
  PROVE  Value(tot, 1, t, 1) = tot[t][t] /\ Value(tot, 2, t, 1) = tot[t * BlockSize][Last(t)]
<1>1. /\ t \in Nat /\ Lead(t) \in Nat /\ InBlockId(t) \in Nat /\ t = Lead(t) + InBlockId(t)
  BY BlockOf
<1>2. Low(t, 1) = t
  BY <1>1 DEF Low
<1> QED
  BY <1>2 DEF Value

-----------------------------------------------------------------------------
(* Where the threads are.                                                   *)

(* The statements between two barriers are a phase.  Where threads run      *)
(* alone every iteration has two of them; where blocks run in lockstep the  *)
(* scan of a block is one.  A kernel that scans has some places before it,  *)
(* and others after it, which a thread gets to without a barrier.           *)
PhaseOf(place) ==
  CASE place \in {"mine", "read", "readBarrier"} -> IF lockstep = 1 THEN "read" ELSE "block"
    [] place \in {"write", "writeBarrier"}       -> IF lockstep = 1 THEN "write" ELSE "block"
    [] place = "blockBarrier"                    -> "block"
    [] place \in {"pack", "packBarrier"}         -> "pack"
    [] place \in {"carryRead", "carryWrite", "carryBarrier"} -> "carry"
    [] place \in {"fold", "combineBarrier"}      -> "fold"
    [] OTHER                                     -> "after"

Loop == {"read", "readBarrier", "write", "writeBarrier"}

(* The distance all threads agree on, if they need barriers.                *)
DistanceAt(place, k) == IF lockstep = 1 /\ place \in Loop THEN k ELSE 1

(* What is so of a thread in a place, with a distance and in a pass.        *)
PlaceOK(place, k, p) ==
  /\ place \in Loop => k < BlockSize
  /\ place \in {"readBarrier", "writeBarrier"} => lockstep = 1
  /\ place = "blockBarrier" => BlockSize <= k
  /\ place \in {"pack", "packBarrier"} => p = 1

(* The threads of a wave are in one place, and all threads in one phase.    *)
Control ==
  /\ Shape
  /\ pass \in [Thread -> 1..2] /\ skip \in [Thread -> Nat \ {0}]
  /\ \A t \in Thread : PlaceOK(pc[t], skip[t], pass[t])
  /\ \A s, t \in Thread : s \div lockstep = t \div lockstep => pc[s] = pc[t] /\ skip[s] = skip[t]
  /\ \A s, t \in Thread : /\ pass[s] = pass[t]
                          /\ PhaseOf(pc[s]) = PhaseOf(pc[t])
                          /\ DistanceAt(pc[s], skip[s]) = DistanceAt(pc[t], skip[t])

LEMMA OneWave ==
  ASSUME NEW T \in Waves
  PROVE  /\ T \subseteq Thread /\ T # {}
         /\ \A s \in T, t \in Thread : t \in T <=> s \div lockstep = t \div lockstep
BY DEF Waves, Wave

(* Blocks of one thread: the group has no other.                            *)
LEMMA SingleThread ==
  ASSUME BlockSize = 1
  PROVE  \A s, t \in Thread : s = t
<1>1. BlockSize * BlockSize = 1
  OBVIOUS
<1> QED
  BY <1>1, GroupAssumption, BlockAssumption DEF Thread

(* A step of a wave within a phase.                                         *)
LEMMA WaveControl ==
  ASSUME Control, NEW T \in Waves, NEW next, NEW k, UNCHANGED <<lockstep, width, pass>>,
         pc' = [t \in Thread |-> IF t \in T THEN next[t] ELSE pc[t]],
         skip' = [t \in Thread |-> IF t \in T THEN k[t] ELSE skip[t]],
         \A t \in T : k[t] \in Nat \ {0} /\ PlaceOK(next[t], k[t], pass[t]),
         \A s, t \in T : next[s] = next[t] /\ k[s] = k[t],
         BlockSize = 1 \/ \A t \in T : /\ PhaseOf(next[t]) = PhaseOf(pc[t])
                                       /\ DistanceAt(next[t], k[t]) = DistanceAt(pc[t], skip[t])
  PROVE  Control'
<1>1. T \subseteq Thread /\ \A s \in T, t \in Thread : t \in T <=> s \div lockstep = t \div lockstep
  BY OneWave
<1>2. Shape' /\ pass' \in [Thread -> 1..2] /\ skip' \in [Thread -> Nat \ {0}]
  BY <1>1 DEF Control, Shape
<1>3. \A t \in Thread : PlaceOK(pc'[t], skip'[t], pass[t])
  <2> TAKE t \in Thread
  <2>1. CASE t \in T
    BY <2>1
  <2>2. CASE t \notin T
    BY <2>2 DEF Control
  <2> QED
    BY <2>1, <2>2
<1>4. ASSUME NEW s \in Thread, NEW t \in Thread, s \div lockstep = t \div lockstep
      PROVE  pc'[s] = pc'[t] /\ skip'[s] = skip'[t]
  <2>1. s \in T <=> t \in T
    <3>1. s \in T => t \in T
      BY <1>1, <1>4
    <3>2. t \in T => s \in T
      BY <1>1, <1>4
    <3> QED
      BY <3>1, <3>2
  <2>2. CASE s \in T
    BY <2>1, <2>2
  <2>3. CASE s \notin T
    BY <1>4, <2>1, <2>3 DEF Control
  <2> QED
    BY <2>2, <2>3
<1>5. ASSUME NEW s \in Thread, NEW t \in Thread
      PROVE  /\ pass'[s] = pass'[t]
             /\ PhaseOf(pc'[s]) = PhaseOf(pc'[t])
             /\ DistanceAt(pc'[s], skip'[s]) = DistanceAt(pc'[t], skip'[t])
  <2>1. CASE BlockSize = 1
    BY <2>1, SingleThread
  <2>2. CASE BlockSize # 1
    <3>1. \A u \in Thread : /\ PhaseOf(pc'[u]) = PhaseOf(pc[u])
                            /\ DistanceAt(pc'[u], skip'[u]) = DistanceAt(pc[u], skip[u])
      <4> TAKE u \in Thread
      <4>1. CASE u \in T
        BY <2>2, <4>1
      <4>2. CASE u \notin T
        BY <4>2
      <4> QED
        BY <4>1, <4>2
    <3> QED
      BY <3>1 DEF Control
  <2> QED
    BY <2>1, <2>2
<1>6. lockstep' = lockstep /\ (\A l : PhaseOf(l)' = PhaseOf(l))
      /\ \A l, d : DistanceAt(l, d)' = DistanceAt(l, d)
  BY DEF PhaseOf, DistanceAt
<1> QED
  BY <1>2, <1>3, <1>4, <1>5, <1>6 DEF Control, PlaceOK, PhaseOf, DistanceAt

(* A step that leaves the distance alone.                                   *)
LEMMA MoveControl ==
  ASSUME Control, NEW T \in Waves, NEW from, NEW to, At(T, from), Goto(T, LAMBDA t : to),
         UNCHANGED <<lockstep, width, pass, skip>>,
         PhaseOf(to) = PhaseOf(from), from \notin Loop, to \notin Loop, to # "blockBarrier",
         to \in {"pack", "packBarrier"} => from \in {"pack", "packBarrier"}
  PROVE  Control'
<1> DEFINE next == [t \in Thread |-> to]
           k == [t \in Thread |-> skip[t]]
<1>1. T \subseteq Thread
  BY OneWave
<1>2. pc' = [t \in Thread |-> IF t \in T THEN next[t] ELSE pc[t]]
  BY DEF Goto
<1>3. skip \in [Thread -> Nat \ {0}]
  BY DEF Control
<1>4. skip' = [t \in Thread |-> IF t \in T THEN k[t] ELSE skip[t]] /\ k = skip
  BY <1>3
<1>5. \A s, t \in T : next[s] = next[t] /\ skip[s] = skip[t]
  <2> SUFFICES ASSUME NEW s \in T, NEW t \in T PROVE skip[s] = skip[t]
    BY <1>1
  <2> QED
    BY <1>1, OneWave DEF Control
<1>6. ASSUME NEW t \in T
      PROVE  /\ skip[t] \in Nat \ {0} /\ PlaceOK(next[t], skip[t], pass[t])
             /\ PhaseOf(next[t]) = PhaseOf(pc[t])
             /\ DistanceAt(next[t], skip[t]) = DistanceAt(pc[t], skip[t])
  <2>1. t \in Thread /\ pc[t] = from /\ PlaceOK(pc[t], skip[t], pass[t])
    BY <1>1 DEF At, Control
  <2>2. next[t] = to
    BY <2>1
  <2>3. PlaceOK(to, skip[t], pass[t])
    BY <2>1 DEF PlaceOK, Loop
  <2>4. DistanceAt(to, skip[t]) = 1 /\ DistanceAt(from, skip[t]) = 1
    BY DEF DistanceAt
  <2> QED
    BY <1>3, <2>1, <2>2, <2>3, <2>4
<1> HIDE DEF next, k
<1>7. /\ \A t \in T : k[t] \in Nat \ {0} /\ PlaceOK(next[t], k[t], pass[t])
      /\ \A s, t \in T : next[s] = next[t] /\ k[s] = k[t]
  BY <1>4, <1>5, <1>6
<1>8. \A t \in T : /\ PhaseOf(next[t]) = PhaseOf(pc[t])
                   /\ DistanceAt(next[t], k[t]) = DistanceAt(pc[t], skip[t])
  BY <1>4, <1>6
<1> QED
  BY <1>2, <1>4, <1>7, <1>8, WaveControl

LEMMA ReadMineControl ==
  ASSUME Control, NEW T \in Waves, ReadMine(T)
  PROVE  Control'
<1> DEFINE to == AfterIteration(1)
           next == [t \in Thread |-> to]
           k == [t \in Thread |-> 1]
<1>1. T \subseteq Thread
  BY OneWave
<1>2. /\ pc' = [t \in Thread |-> IF t \in T THEN next[t] ELSE pc[t]]
      /\ skip' = [t \in Thread |-> IF t \in T THEN k[t] ELSE skip[t]]
      /\ UNCHANGED <<lockstep, width, pass>>
  BY DEF ReadMine, Goto, device
<1>3. \A t \in T : next[t] = to /\ k[t] = 1 /\ pc[t] = "mine"
  BY <1>1 DEF ReadMine, At
<1>4. BlockSize \in Nat \ {0}
  BY GroupAssumption
<1>5. \A t \in T : PlaceOK(to, 1, pass[t])
  BY <1>4 DEF PlaceOK, AfterIteration, Loop
<1>6. BlockSize = 1 \/ (to = "read" /\ PhaseOf(to) = PhaseOf("mine") /\ DistanceAt(to, 1) = 1)
  BY <1>4 DEF AfterIteration, PhaseOf, DistanceAt
<1>7. \A t \in T : DistanceAt("mine", skip[t]) = 1
  BY DEF DistanceAt, Loop
<1> HIDE DEF to, next, k
<1>8. /\ \A t \in T : k[t] \in Nat \ {0} /\ PlaceOK(next[t], k[t], pass[t])
      /\ \A s, t \in T : next[s] = next[t] /\ k[s] = k[t]
  BY <1>3, <1>5
<1>9. BlockSize = 1 \/ \A t \in T : /\ PhaseOf(next[t]) = PhaseOf(pc[t])
                                    /\ DistanceAt(next[t], k[t]) = DistanceAt(pc[t], skip[t])
  BY <1>3, <1>6, <1>7
<1> QED
  BY <1>2, <1>8, <1>9, WaveControl

(* A thread in the loop needs a barrier just if all run alone.              *)
LEMMA BarrierIfAlone ==
  ASSUME Control, NEW t \in Thread, pc[t] \in Loop
  PROVE  NeedsBarrier(t) <=> lockstep = 1
<1>1. skip[t] \in Nat \ {0} /\ skip[t] < BlockSize /\ BlockSize \in Nat
  BY GroupAssumption DEF Control, PlaceOK
<1>2. lockstep = 1 \/ (lockstep \in Nat /\ lockstep >= BlockSize)
  BY DEF Control, Shape
<1> QED
  BY <1>1, <1>2 DEF NeedsBarrier

LEMMA ReadOtherControl ==
  ASSUME Control, NEW T \in Waves, ReadOther(T)
  PROVE  Control'
<1> DEFINE to == IF lockstep = 1 THEN "readBarrier" ELSE "write"
           next == [t \in Thread |-> to]
<1>1. T \subseteq Thread /\ \A t \in T : pc[t] = "read" /\ pc[t] \in Loop
  BY OneWave DEF ReadOther, At, Loop
<1>2. \A t \in T : NeedsBarrier(t) <=> lockstep = 1
  BY <1>1, BarrierIfAlone
<1>3. pc' = [t \in Thread |-> IF t \in T THEN next[t] ELSE pc[t]]
  BY <1>1, <1>2 DEF ReadOther, Goto
<1>4. skip' = [t \in Thread |-> IF t \in T THEN skip[t] ELSE skip[t]] /\ UNCHANGED <<lockstep, width, pass>>
  BY DEF ReadOther, Control, device
<1>5. \A s, t \in T : next[s] = next[t] /\ skip[s] = skip[t]
  <2> SUFFICES ASSUME NEW s \in T, NEW t \in T PROVE skip[s] = skip[t]
    BY <1>1
  <2> QED
    BY <1>1, OneWave DEF Control
<1>6. PhaseOf(to) = PhaseOf("read")
  BY DEF PhaseOf
<1>7. ASSUME NEW t \in T
      PROVE  /\ skip[t] \in Nat \ {0} /\ PlaceOK(next[t], skip[t], pass[t])
             /\ PhaseOf(next[t]) = PhaseOf(pc[t])
             /\ DistanceAt(next[t], skip[t]) = DistanceAt(pc[t], skip[t])
  <2>1. t \in Thread /\ pc[t] = "read" /\ PlaceOK(pc[t], skip[t], pass[t]) /\ skip[t] \in Nat \ {0}
    BY <1>1 DEF Control
  <2>2. next[t] = to
    BY <2>1
  <2>3. PlaceOK(to, skip[t], pass[t])
    BY <2>1 DEF PlaceOK, Loop
  <2>4. DistanceAt(to, skip[t]) = DistanceAt("read", skip[t])
    BY DEF DistanceAt, Loop
  <2> QED
    BY <1>6, <2>1, <2>2, <2>3, <2>4
<1> HIDE DEF next, to
<1> QED
  BY <1>3, <1>4, <1>5, <1>7, WaveControl

LEMMA WriteControl ==
  ASSUME Control, NEW T \in Waves, Write(T)
  PROVE  Control'
<1> DEFINE next == [t \in Thread |-> IF lockstep = 1 THEN "writeBarrier" ELSE AfterIteration(2 * skip[t])]
           k == [t \in Thread |-> IF lockstep = 1 THEN skip[t] ELSE 2 * skip[t]]
<1>1. T \subseteq Thread /\ \A t \in T : pc[t] = "write" /\ pc[t] \in Loop
  BY OneWave DEF Write, At, Loop
<1>2. \A t \in T : NeedsBarrier(t) <=> lockstep = 1
  BY <1>1, BarrierIfAlone
<1>3. pc' = [t \in Thread |-> IF t \in T THEN next[t] ELSE pc[t]]
  BY <1>1, <1>2 DEF Write, Goto
<1>4. skip' = [t \in Thread |-> IF t \in T THEN k[t] ELSE skip[t]] /\ UNCHANGED <<lockstep, width, pass>>
  BY <1>1, <1>2 DEF Write, Control, device
<1>5. \A s, t \in T : next[s] = next[t] /\ k[s] = k[t]
  <2> SUFFICES ASSUME NEW s \in T, NEW t \in T PROVE skip[s] = skip[t]
    BY <1>1
  <2> QED
    BY <1>1, OneWave DEF Control
<1>6. BlockSize \in Nat \ {0}
  BY GroupAssumption
<1>7. ASSUME NEW t \in T
      PROVE  /\ k[t] \in Nat \ {0} /\ PlaceOK(next[t], k[t], pass[t])
             /\ PhaseOf(next[t]) = PhaseOf(pc[t])
             /\ DistanceAt(next[t], k[t]) = DistanceAt(pc[t], skip[t])
  <2>1. t \in Thread /\ pc[t] = "write" /\ PlaceOK(pc[t], skip[t], pass[t]) /\ skip[t] \in Nat \ {0}
    BY <1>1 DEF Control
  <2>2. CASE lockstep = 1
    <3>1. next[t] = "writeBarrier" /\ k[t] = skip[t]
      BY <2>1, <2>2
    <3>2. PlaceOK("writeBarrier", skip[t], pass[t])
      BY <2>1, <2>2 DEF PlaceOK, Loop
    <3>3. PhaseOf("writeBarrier") = PhaseOf("write")
      BY DEF PhaseOf
    <3>4. DistanceAt("writeBarrier", skip[t]) = DistanceAt("write", skip[t])
      BY DEF DistanceAt, Loop
    <3> QED
      BY <2>1, <3>1, <3>2, <3>3, <3>4
  <2>3. CASE lockstep # 1
    <3> DEFINE d == 2 * skip[t]
    <3>1. next[t] = AfterIteration(d) /\ k[t] = d /\ d \in Nat \ {0}
      BY <2>1, <2>3
    <3> HIDE DEF d, next, k
    <3>2. PlaceOK(AfterIteration(d), d, pass[t])
      BY <1>6, <3>1 DEF PlaceOK, Loop, AfterIteration
    <3>3. PhaseOf(AfterIteration(d)) = PhaseOf("write")
      BY <2>3 DEF PhaseOf, AfterIteration
    <3>4. DistanceAt(AfterIteration(d), d) = DistanceAt("write", skip[t])
      BY <2>3 DEF DistanceAt
    <3> QED
      BY <2>1, <3>1, <3>2, <3>3, <3>4
  <2> QED
    BY <2>2, <2>3
<1> HIDE DEF next, k
<1> QED
  BY <1>3, <1>4, <1>5, <1>7, WaveControl

LEMMA PackControl ==
  ASSUME Control, NEW T \in Waves, Pack(T)
  PROVE  Control'
<1>1. At(T, "pack") /\ Goto(T, LAMBDA t : "packBarrier") /\ UNCHANGED <<lockstep, width, pass, skip>>
  BY DEF Pack, device
<1>2. PhaseOf("packBarrier") = PhaseOf("pack") /\ "pack" \notin Loop /\ "packBarrier" \notin Loop
  BY DEF PhaseOf, Loop
<1> QED
  BY <1>1, <1>2, MoveControl

LEMMA ReadCarryControl ==
  ASSUME Control, NEW T \in Waves, ReadCarry(T)
  PROVE  Control'
<1>1. At(T, "carryRead") /\ Goto(T, LAMBDA t : "carryWrite") /\ UNCHANGED <<lockstep, width, pass, skip>>
  BY DEF ReadCarry, device
<1>2. PhaseOf("carryWrite") = PhaseOf("carryRead") /\ "carryRead" \notin Loop /\ "carryWrite" \notin Loop
  BY DEF PhaseOf, Loop
<1> QED
  BY <1>1, <1>2, MoveControl

LEMMA WriteCarryControl ==
  ASSUME Control, NEW T \in Waves, WriteCarry(T)
  PROVE  Control'
<1>1. At(T, "carryWrite") /\ Goto(T, LAMBDA t : "carryBarrier") /\ UNCHANGED <<lockstep, width, pass, skip>>
  BY DEF WriteCarry, device
<1>2. PhaseOf("carryBarrier") = PhaseOf("carryWrite") /\ "carryWrite" \notin Loop /\ "carryBarrier" \notin Loop
  BY DEF PhaseOf, Loop
<1> QED
  BY <1>1, <1>2, MoveControl

LEMMA RestoreControl ==
  ASSUME Control, NEW T \in Waves, Restore(T)
  PROVE  Control'
<1>1. At(T, "restore") /\ Goto(T, LAMBDA t : "scanned") /\ UNCHANGED <<lockstep, width, pass, skip>>
  BY DEF Restore, device
<1>2. PhaseOf("scanned") = PhaseOf("restore") /\ "restore" \notin Loop /\ "scanned" \notin Loop
  BY DEF PhaseOf, Loop
<1> QED
  BY <1>1, <1>2, MoveControl

(* A barrier: all threads go on together.                                   *)
LEMMA BarrierControl ==
  ASSUME Control, NEW next, NEW k, NEW p \in 1..2, UNCHANGED <<lockstep, width>>,
         pc' = [t \in Thread |-> next],
         skip' = [t \in Thread |-> k[t]],
         pass' = [t \in Thread |-> p],
         \A t \in Thread : k[t] \in Nat \ {0} /\ PlaceOK(next, k[t], p),
         \A s, t \in Thread : s \div lockstep = t \div lockstep => k[s] = k[t],
         \A s, t \in Thread : DistanceAt(next, k[s]) = DistanceAt(next, k[t])
  PROVE  Control'
<1>1. Shape' /\ pass' \in [Thread -> 1..2] /\ skip' \in [Thread -> Nat \ {0}]
  BY DEF Control, Shape
<1>2. \A t \in Thread : pc'[t] = next /\ skip'[t] = k[t] /\ pass'[t] = p
  OBVIOUS
<1>3. \A t \in Thread : PlaceOK(pc'[t], skip'[t], pass'[t])
  BY <1>2
<1>4. \A s, t \in Thread : s \div lockstep = t \div lockstep => pc'[s] = pc'[t] /\ skip'[s] = skip'[t]
  BY <1>2
<1>5. \A s, t \in Thread : /\ pass'[s] = pass'[t]
                           /\ PhaseOf(pc'[s]) = PhaseOf(pc'[t])
                           /\ DistanceAt(pc'[s], skip'[s]) = DistanceAt(pc'[t], skip'[t])
  BY <1>2
<1> QED
  BY <1>1, <1>3, <1>4, <1>5 DEF Control, PlaceOK, PhaseOf, DistanceAt

LEMMA OnePass ==
  ASSUME Control
  PROVE  \E p \in 1..2 : \A t \in Thread : pass[t] = p
<1>1. 0 \in Thread
  BY GroupAssumption DEF Thread
<1>2. pass[0] \in 1..2 /\ \A t \in Thread : pass[t] = pass[0]
  BY <1>1 DEF Control
<1> QED
  BY <1>2

(* A barrier that leaves the distance alone.                                *)
LEMMA MeetControl ==
  ASSUME Control, NEW from, Barrier(from), NEW next, NEW p \in 1..2,
         pc' = [t \in Thread |-> next], pass' = [t \in Thread |-> p],
         UNCHANGED <<lockstep, width, skip>>,
         next \in {"readBarrier", "writeBarrier", "read", "blockBarrier"} => FALSE,
         next = "write" => from = "readBarrier",
         next \in {"pack", "packBarrier"} => p = 1
  PROVE  Control'
<1> DEFINE k == [t \in Thread |-> skip[t]]
<1>1. skip' = k /\ \A t \in Thread : k[t] = skip[t] /\ skip[t] \in Nat \ {0} /\ pc[t] = from
  BY DEF Control, Barrier, At
<1>2. \A t \in Thread : PlaceOK(next, k[t], p)
  BY <1>1 DEF PlaceOK, Loop, Control
<1>3. \A s, t \in Thread : DistanceAt(next, k[s]) = DistanceAt(next, k[t])
  <2>1. CASE next = "write" /\ lockstep = 1
    BY <1>1, <2>1 DEF Control, DistanceAt, Loop
  <2>2. CASE ~ (next = "write" /\ lockstep = 1)
    BY <2>2 DEF DistanceAt, Loop
  <2> QED
    BY <2>1, <2>2
<1>4. \A s, t \in Thread : s \div lockstep = t \div lockstep => k[s] = k[t]
  BY <1>1 DEF Control
<1> HIDE DEF k
<1>5. skip' = [t \in Thread |-> k[t]]
  BY <1>1 DEF k
<1> QED
  BY <1>1, <1>2, <1>3, <1>4, <1>5, BarrierControl

LEMMA SyncControl ==
  ASSUME Control, Sync
  PROVE  Control'
<1>1. PICK p \in 1..2 : \A t \in Thread : pass[t] = p
  BY OnePass
<1>2. pass = [t \in Thread |-> p] /\ skip \in [Thread -> Nat \ {0}]
  BY <1>1 DEF Control
<1>3. CASE ReadBarrier
  <2>1. /\ Barrier("readBarrier") /\ pc' = [t \in Thread |-> "write"]
        /\ pass' = [t \in Thread |-> p] /\ UNCHANGED <<lockstep, width, skip>>
    BY <1>2, <1>3 DEF ReadBarrier, GotoAll, device
  <2> QED
    BY <2>1, MeetControl
<1>4. CASE WriteBarrier
  <2>1. \A t \in Thread : pc[t] = "writeBarrier" /\ skip[t] \in Nat \ {0}
    BY <1>2, <1>4 DEF WriteBarrier, Barrier, At
  <2>2. lockstep = 1
    <3>1. 0 \in Thread
      BY GroupAssumption DEF Thread
    <3> QED
      BY <2>1, <3>1 DEF Control, PlaceOK
  <2>3. \A s, t \in Thread : skip[s] = skip[t]
    BY <2>1, <2>2 DEF Control, DistanceAt, Loop
  <2> DEFINE d == 2 * skip[0]
             next == AfterIteration(d)
             k == [t \in Thread |-> d]
  <2>4. d \in Nat \ {0} /\ \A t \in Thread : 2 * skip[t] = d
    <3>1. 0 \in Thread
      BY GroupAssumption DEF Thread
    <3> QED
      BY <2>1, <2>3, <3>1
  <2>5. /\ skip' = [t \in Thread |-> k[t]] /\ pc' = [t \in Thread |-> next]
        /\ pass' = [t \in Thread |-> p] /\ UNCHANGED <<lockstep, width>>
    BY <1>2, <1>4, <2>4 DEF WriteBarrier, Goto, device
  <2>6. \A t \in Thread : PlaceOK(next, d, p) /\ k[t] = d
    BY <2>4, GroupAssumption DEF PlaceOK, AfterIteration, Loop
  <2> HIDE DEF d, next, k
  <2> QED
    BY <2>4, <2>5, <2>6, BarrierControl
<1>5. CASE BlockBarrier
  <2> DEFINE next == IF p = 1 THEN "pack" ELSE "carryRead"
  <2>1. /\ Barrier("blockBarrier") /\ pc' = [t \in Thread |-> next]
        /\ pass' = [t \in Thread |-> p] /\ UNCHANGED <<lockstep, width, skip>>
    BY <1>1, <1>2, <1>5 DEF BlockBarrier, Goto, device
  <2> QED
    BY <2>1, MeetControl
<1>6. CASE PackBarrier
  <2>1. /\ Barrier("packBarrier") /\ pc' = [t \in Thread |-> "mine"]
        /\ pass' = [t \in Thread |-> 2] /\ UNCHANGED <<lockstep, width, skip>>
    BY <1>6 DEF PackBarrier, GotoAll, device
  <2> QED
    BY <2>1, MeetControl
<1>7. CASE CarryBarrier
  <2>1. /\ Barrier("carryBarrier") /\ pc' = [t \in Thread |-> "restore"]
        /\ pass' = [t \in Thread |-> p] /\ UNCHANGED <<lockstep, width, skip>>
    BY <1>2, <1>7 DEF CarryBarrier, GotoAll, device
  <2> QED
    BY <2>1, MeetControl
<1> QED
  BY <1>3, <1>4, <1>5, <1>6, <1>7 DEF Sync

LEMMA WaveStepControl ==
  ASSUME Control, NEW T \in Waves, WaveStep(T)
  PROVE  Control'
BY ReadMineControl, ReadOtherControl, WriteControl, PackControl, ReadCarryControl,
   WriteCarryControl, RestoreControl DEF WaveStep

LEMMA InitControl ==
  ASSUME Init
  PROVE  Control
<1>1. Shape
  BY LockstepAssumption, WidthAssumption, GroupAssumption DEF Init, Shape
<1>2. \A t \in Thread : pc[t] = "mine" /\ skip[t] = 1 /\ pass[t] = 1
  BY DEF Init
<1>3. \A t \in Thread : PlaceOK(pc[t], skip[t], pass[t])
  BY <1>2 DEF PlaceOK, Loop
<1> QED
  BY <1>1, <1>2, <1>3 DEF Control, Init

-----------------------------------------------------------------------------
(* Who accesses what.  All threads are in one phase, and the accesses of a  *)
(* phase do not meet:  where threads run alone they read in one phase and   *)
(* write in another; the threads of a block are one wave otherwise; the     *)
(* last threads of the blocks write below BlockSize, each at its own block; *)
(* what is read as the carry-in lies in the first block, which writes none; *)
(* and everybody writes at his own index otherwise.                         *)
PhaseReads(phase, t) ==
  CASE phase = "read" -> Thread
    [] phase = "block" -> {s \in Thread : BlockId(s) = BlockId(t)}
    [] phase = "carry" -> 0..BlockSize - 1
    [] OTHER -> {}
PhaseWrites(phase, t) ==
  CASE phase = "write" -> {t}
    [] phase = "block" -> {s \in Thread : BlockId(s) = BlockId(t)}
    [] phase = "pack" -> IF Packs(t) THEN {BlockId(t)} ELSE {}
    [] phase = "carry" -> IF IsFirstBlock(t) THEN {} ELSE {t}
    [] phase = "after" -> {t}
    [] OTHER -> {}

LEMMA AccessesOfPhase ==
  ASSUME Control, NEW t \in Thread
  PROVE  /\ Reads(t) \subseteq PhaseReads(PhaseOf(pc[t]), t)
         /\ Writes(t) \subseteq PhaseWrites(PhaseOf(pc[t]), t)
<1>1. t \in Nat /\ Lead(t) \in Nat /\ InBlockId(t) \in Nat /\ t = Lead(t) + InBlockId(t)
      /\ InBlockId(t) < BlockSize /\ BlockSize \in Nat \ {0}
  BY BlockOf, GroupAssumption
<1>2. skip[t] \in Nat \ {0}
  BY DEF Control
<1>3. ASSUME TakesPart(t)
      PROVE  t - skip[t] \in Thread /\ BlockId(t - skip[t]) = BlockId(t)
  <2>1. HasPart(1, t) /\ skip[t] <= InBlockId(t)
    BY <1>3 DEF TakesPart, Active, InBounds, HasPart
  <2>2. Shape
    BY DEF Control
  <2> DEFINE d == skip[t]
  <2>3. d \in Nat \ {0} /\ d <= InBlockId(t)
    BY <1>2, <2>1
  <2> HIDE DEF d
  <2>4. t - d \in Thread /\ BlockId(t - d) = BlockId(t)
    BY <2>1, <2>2, <2>3, Neighbour
  <2> QED
    BY <2>4 DEF d
<1>4. Carries(t) => BlockId(t) - 1 \in 0..BlockSize - 1
  BY <1>1, FirstBlock DEF Carries, Thread
<1>5. Reads(t) \subseteq PhaseReads(PhaseOf(pc[t]), t)
  <2>1. CASE pc[t] = "mine"
    BY <2>1 DEF Reads, PhaseReads, PhaseOf
  <2>2. CASE pc[t] = "read"
    BY <1>3, <2>2 DEF Reads, PhaseReads, PhaseOf
  <2>3. CASE pc[t] = "carryRead"
    BY <1>4, <2>3 DEF Reads, PhaseReads, PhaseOf
  <2>4. CASE pc[t] \notin {"mine", "read", "carryRead"}
    BY <2>4 DEF Reads
  <2> QED
    BY <2>1, <2>2, <2>3, <2>4
<1>6. Writes(t) \subseteq PhaseWrites(PhaseOf(pc[t]), t)
  <2>1. CASE pc[t] = "write"
    BY <2>1 DEF Writes, PhaseWrites, PhaseOf
  <2>2. CASE pc[t] = "pack"
    BY <2>2 DEF Writes, PhaseWrites, PhaseOf
  <2>3. CASE pc[t] = "carryWrite"
    BY <2>3 DEF Writes, PhaseWrites, PhaseOf, Carries
  <2>4. CASE pc[t] = "restore"
    BY <2>4 DEF Writes, PhaseWrites, PhaseOf
  <2>5. CASE pc[t] \notin {"write", "pack", "carryWrite", "restore"}
    BY <2>5 DEF Writes
  <2> QED
    BY <2>1, <2>2, <2>3, <2>4, <2>5
<1> QED
  BY <1>5, <1>6

LEMMA PhaseRaceFree ==
  ASSUME Control, NEW s \in Thread, NEW t \in Thread, s \div lockstep # t \div lockstep,
         NEW phase \in {"read", "write", "block", "pack", "carry", "after", "fold"},
         phase = "block" => lockstep # 1
  PROVE  PhaseWrites(phase, s) \cap (PhaseReads(phase, t) \cup PhaseWrites(phase, t)) = {}
<1>1. s # t
  OBVIOUS
<1>2. CASE phase \in {"read", "write", "after", "fold"}
  BY <1>1, <1>2 DEF PhaseReads, PhaseWrites
<1>3. CASE phase = "block"
  <2>1. BlockId(s) # BlockId(t)
    BY <1>3, SameWave DEF Control
  <2> QED
    BY <1>3, <2>1 DEF PhaseReads, PhaseWrites
<1>4. CASE phase = "pack"
  <2>1. BlockId(s) = BlockId(t) /\ Packs(s) /\ Packs(t) => s = t
    <3>1. \A u \in Thread : u = Lead(u) + InBlockId(u)
      BY BlockOf
    <3> QED
      BY <3>1 DEF Packs, Lead
  <2> QED
    BY <1>1, <1>4, <2>1 DEF PhaseReads, PhaseWrites
<1>5. CASE phase = "carry"
  <2>1. ~ IsFirstBlock(s) => s \notin 0..BlockSize - 1
    BY FirstBlock, GroupAssumption DEF Thread
  <2> QED
    BY <1>1, <1>5, <2>1 DEF PhaseReads, PhaseWrites
<1> QED
  BY <1>2, <1>3, <1>4, <1>5

LEMMA PhaseKnown ==
  ASSUME NEW place
  PROVE  /\ PhaseOf(place) \in {"read", "write", "block", "pack", "carry", "after", "fold"}
         /\ PhaseOf(place) = "block" /\ lockstep = 1 => place = "blockBarrier"
BY DEF PhaseOf

LEMMA ControlRaceFree ==
  ASSUME Control
  PROVE  RaceFree
<1> SUFFICES ASSUME NEW s \in Thread, NEW t \in Thread, s \div lockstep # t \div lockstep
             PROVE  Writes(s) \cap (Reads(t) \cup Writes(t)) = {}
  BY DEF RaceFree
<1> DEFINE phase == PhaseOf(pc[s])
<1>1. PhaseOf(pc[t]) = phase
  BY DEF Control
<1>2. /\ Writes(s) \subseteq PhaseWrites(phase, s)
      /\ Writes(t) \subseteq PhaseWrites(phase, t)
      /\ Reads(t) \subseteq PhaseReads(phase, t)
  BY <1>1, AccessesOfPhase
<1>3. phase \in {"read", "write", "block", "pack", "carry", "after", "fold"}
  BY PhaseKnown
<1>4. CASE phase = "block" => lockstep # 1
  <2> HIDE DEF phase
  <2>1. PhaseWrites(phase, s) \cap (PhaseReads(phase, t) \cup PhaseWrites(phase, t)) = {}
    BY <1>3, <1>4, PhaseRaceFree
  <2> QED
    BY <1>2, <2>1
<1>5. CASE phase = "block" /\ lockstep = 1
  <2>1. pc[s] = "blockBarrier"
    BY <1>5, PhaseKnown
  <2>2. Writes(s) = {}
    BY <2>1 DEF Writes
  <2> QED
    BY <2>2
<1> QED
  BY <1>4, <1>5

LEMMA ControlInvariance == Spec => []Control
<1>1. Init => Control
  BY InitControl
<1>2. Control /\ [Next]_vars => Control'
  <2> SUFFICES ASSUME Control, [Next]_vars PROVE Control'
    OBVIOUS
  <2>1. ASSUME NEW T \in Waves, WaveStep(T) PROVE Control'
    BY <2>1, WaveStepControl
  <2>2. ASSUME Sync PROVE Control'
    BY <2>2, SyncControl
  <2>3. CASE UNCHANGED vars
    BY <2>3 DEF vars, Control, Shape, PlaceOK, PhaseOf, DistanceAt
  <2> QED
    BY <2>1, <2>2, <2>3 DEF Next
<1> QED
  BY <1>1, <1>2, PTL DEF Spec

(* The barriers that are emitted, and those that are left out where a block *)
(* runs in lockstep, keep the waves from meeting at an index, for groups,   *)
(* blocks, arrays and lockstep widths of any size.                          *)
THEOREM ScanRaceFree == Spec => []RaceFree
<1>1. Control => RaceFree
  BY ControlRaceFree
<1> QED
  BY ControlInvariance, <1>1, PTL

-----------------------------------------------------------------------------
(* The barriers, and what "no barrier is waited at by some threads only"    *)
(* comes to: who waits waits with all others that wait, and none has gone   *)
(* past the last one.                                                       *)
Barriers == {"readBarrier", "writeBarrier", "blockBarrier", "packBarrier", "carryBarrier"}

WaitTogether ==
  \A s, t \in Thread : pc[s] \in Barriers /\ pc[t] \in Barriers \cup {"scanned"} => pc[s] = pc[t]

LEMMA ControlWaits == Control => WaitTogether
<1> SUFFICES ASSUME Control, NEW s \in Thread, NEW t \in Thread,
                    pc[s] \in Barriers, pc[t] \in Barriers \cup {"scanned"}
             PROVE  pc[s] = pc[t]
  BY DEF WaitTogether
<1>1. /\ PhaseOf(pc[s]) = PhaseOf(pc[t])
      /\ PlaceOK(pc[s], skip[s], pass[s]) /\ PlaceOK(pc[t], skip[t], pass[t])
  BY DEF Control
<1>2. \A u \in {s, t} : pc[u] \in {"readBarrier", "writeBarrier"} => lockstep = 1
  BY <1>1 DEF PlaceOK
<1> QED
  BY <1>1, <1>2 DEF PhaseOf, Barriers

(* Wherever blocks end and in whatever order the waves run: threads that    *)
(* wait do so at one barrier, whether their elements exist or not.          *)
THEOREM ScanWaitsTogether == Spec => []WaitTogether
<1> QED
  BY ControlInvariance, ControlWaits, PTL

-----------------------------------------------------------------------------
(* What the threads find.  Of thread t, in a place, in pass p and with the  *)
(* distance k, a is what the array has at its index and o its register:     *)
(* in the scan of blocks it has combined its part of the block, ...         *)
Part(tot, place, p, t, k, a, o) ==
  /\ place = "mine" => a = Value(tot, p, t, 1)
  /\ place \in {"read", "readBarrier", "write", "blockBarrier"} => a = Value(tot, p, t, k)
  /\ place \in {"read", "blockBarrier"} => o = Value(tot, p, t, k)
  /\ place \in {"readBarrier", "write", "writeBarrier"} => o = Value(tot, p, t, 2 * k)
  /\ place = "writeBarrier" => a = Value(tot, p, t, 2 * k)

(* ... from then on the register of the first pass has the part of its      *)
(* block, and with the carry-in all, ...                                    *)
Block(tot, place, p, t, o) ==
  /\ \/ place \in {"pack", "packBarrier", "carryRead"}
     \/ p = 2 /\ place \in Loop \cup {"mine", "blockBarrier"}
     => o = tot[Lead(t)][t]
  /\ place \in {"carryWrite", "carryBarrier", "restore", "scanned"} => o = tot[0][t]

(* ... which it finds in the array in the end, ...                          *)
Result(tot, place, t, a) ==
  /\ place \in {"carryBarrier", "restore"} => IsFirstBlock(t) \/ a = tot[0][t]
  /\ place \in {"scanned", "carryOut", "carryOutBarrier"} => a = tot[0][t]

(* ... and the last thread of block b has left the total of that block at   *)
(* b, where the second scan turns it into what the blocks up to b come to.  *)
Total(tot, place, b, a) ==
  /\ place = "packBarrier" => a = tot[b * BlockSize][Last(b)]
  /\ place \in {"carryRead", "carryWrite", "carryBarrier"} => a = tot[0][Last(b)]

Data(tot) ==
  \A t \in Thread :
    /\ HasPart(pass[t], t) => Part(tot, pc[t], pass[t], t, skip[t], acc[t], own[pass[t]][t])
    /\ InBounds(t) => Block(tot, pc[t], pass[t], t, own[1][t]) /\ Result(tot, pc[t], t, acc[t])
    /\ Full(t) => Total(tot, pc[Last(t)], t, acc[t])

LEMMA PartInBounds ==
  ASSUME Shape, NEW p \in 1..2, NEW t \in Thread, HasPart(p, t)
  PROVE  InBounds(t) /\ (p = 1 \/ IsFirstBlock(t))
<1>1. CASE p = 1
  BY <1>1 DEF HasPart, InBounds
<1>2. CASE p # 1
  <2>1. t \in Nat /\ Full(t) /\ IsFirstBlock(t)
    BY <1>2 DEF HasPart, Thread
  <2>2. t <= Last(t) /\ Last(t) < width /\ Last(t) \in Int
    BY <2>1, LastOfFull DEF Thread
  <2> QED
    BY <2>1, <2>2 DEF InBounds, Shape
<1> QED
  BY <1>1, <1>2

(* A step of a wave: what has to be shown of its threads.                   *)
LEMMA WaveData ==
  ASSUME NEW tot, Control, Data(tot), NEW T \in Waves, UNCHANGED <<width, pass>>,
         NEW next, NEW k, NEW a, NEW o,
         pc' = [t \in Thread |-> IF t \in T THEN next[t] ELSE pc[t]],
         skip' = [t \in Thread |-> IF t \in T THEN k[t] ELSE skip[t]],
         \A t \in Thread : acc'[t] = a[t],
         \A q \in 1..2, t \in Thread : own'[q][t] = o[q][t],
         \A t \in T : HasPart(pass[t], t) =>
                        Part(tot, next[t], pass[t], t, k[t], a[t], o[pass[t]][t]),
         \A t \in T : InBounds(t) => /\ Block(tot, next[t], pass[t], t, o[1][t])
                                     /\ Result(tot, next[t], t, a[t]),
         \A q \in 1..2, t \in Thread \ T : o[q][t] = own[q][t],
         \A t \in Thread \ T : a[t] = acc[t] \/ PhaseOf(pc[t]) = "pack",
         \A t \in Thread : Full(t) =>
           Total(tot, IF Last(t) \in T THEN next[Last(t)] ELSE pc[Last(t)], t, a[t])
  PROVE  Data(tot)'
<1>1. T \subseteq Thread
  BY OneWave
<1>2. Shape /\ \A t \in Thread : pass[t] \in 1..2
  BY DEF Control
<1>3. ASSUME NEW t \in Thread, HasPart(pass[t], t)
      PROVE  Part(tot, pc'[t], pass[t], t, skip'[t], acc'[t], own'[pass[t]][t])
  <2>1. CASE t \in T
    BY <1>2, <1>3, <2>1
  <2>2. CASE t \notin T
    <3>1. Part(tot, pc[t], pass[t], t, skip[t], acc[t], own[pass[t]][t])
      BY <1>3 DEF Data
    <3>2. pc'[t] = pc[t] /\ skip'[t] = skip[t] /\ own'[pass[t]][t] = own[pass[t]][t] /\ acc'[t] = a[t]
      BY <1>2, <2>2
    <3>3. CASE a[t] = acc[t]
      BY <3>1, <3>2, <3>3
    <3>4. CASE PhaseOf(pc[t]) = "pack"
      <4>1. pc[t] \in {"pack", "packBarrier"}
        BY <3>4 DEF PhaseOf
      <4> QED
        BY <3>2, <4>1 DEF Part
    <3> QED
      BY <2>2, <3>3, <3>4
  <2> QED
    BY <2>1, <2>2
<1>4. ASSUME NEW t \in Thread, InBounds(t)
      PROVE  Block(tot, pc'[t], pass[t], t, own'[1][t]) /\ Result(tot, pc'[t], t, acc'[t])
  <2>1. CASE t \in T
    BY <1>4, <2>1
  <2>2. CASE t \notin T
    <3>1. Block(tot, pc[t], pass[t], t, own[1][t]) /\ Result(tot, pc[t], t, acc[t])
      BY <1>4 DEF Data
    <3>2. pc'[t] = pc[t] /\ own'[1][t] = own[1][t] /\ acc'[t] = a[t]
      BY <2>2
    <3>3. CASE a[t] = acc[t]
      BY <3>1, <3>2, <3>3
    <3>4. CASE PhaseOf(pc[t]) = "pack"
      <4>1. pc[t] \in {"pack", "packBarrier"}
        BY <3>4 DEF PhaseOf
      <4> QED
        BY <3>1, <3>2, <4>1 DEF Result
    <3> QED
      BY <2>2, <3>3, <3>4
  <2> QED
    BY <2>1, <2>2
<1>5. ASSUME NEW t \in Thread, Full(t)
      PROVE  Total(tot, pc'[Last(t)], t, acc'[t])
  <2>1. Last(t) \in Thread
    BY <1>2, <1>5, LastOfFull DEF Thread
  <2>2. pc'[Last(t)] = IF Last(t) \in T THEN next[Last(t)] ELSE pc[Last(t)]
    BY <2>1
  <2> QED
    BY <1>5, <2>2
<1>6. \A t : (InBounds(t)' <=> InBounds(t)) /\ (Full(t)' <=> Full(t))
  BY DEF InBounds, Full
<1>7. \A t \in Thread : HasPart(pass[t], t)' => HasPart(pass[t], t)
  BY DEF HasPart, Full
<1> QED
  BY <1>3, <1>4, <1>5, <1>6, <1>7 DEF Data

LEMMA ReadMineData ==
  ASSUME NEW tot, Control, Data(tot), NEW T \in Waves, ReadMine(T)
  PROVE  Data(tot)'
<1> DEFINE next == [t \in Thread |-> AfterIteration(1)]
           k == [t \in Thread |-> 1]
           a == [t \in Thread |-> acc[t]]
           o == [q \in 1..2 |-> [t \in Thread |->
                   IF t \in T /\ Active(t) /\ pass[t] = q THEN acc[t] ELSE own[q][t]]]
<1>1. T \subseteq Thread /\ \A t \in T : pc[t] = "mine"
  BY OneWave DEF ReadMine, At
<1>2. /\ pc' = [t \in Thread |-> IF t \in T THEN next[t] ELSE pc[t]]
      /\ skip' = [t \in Thread |-> IF t \in T THEN k[t] ELSE skip[t]]
      /\ UNCHANGED <<width, pass>>
  BY DEF ReadMine, Goto, device
<1>3. \A t \in Thread : acc'[t] = a[t] /\ a[t] = acc[t]
  BY DEF ReadMine
<1>4. \A q \in 1..2, t \in Thread : own'[q][t] = o[q][t]
  BY DEF ReadMine, Assign, Pass
<1>5. /\ \A t \in T : next[t] = AfterIteration(1) /\ k[t] = 1
      /\ \A q \in 1..2, t \in Thread :
           o[q][t] = IF t \in T /\ Active(t) /\ pass[t] = q THEN acc[t] ELSE own[q][t]
  BY <1>1
<1>6. AfterIteration(1) \in {"read", "blockBarrier"}
  BY DEF AfterIteration
<1> HIDE DEF next, k, a, o
<1>7. Shape /\ \A t \in Thread : pass[t] \in 1..2
  BY DEF Control
<1>8. ASSUME NEW t \in T, HasPart(pass[t], t)
      PROVE  Part(tot, next[t], pass[t], t, k[t], a[t], o[pass[t]][t])
  <2>1. t \in Thread /\ pass[t] \in 1..2 /\ pc[t] = "mine"
    BY <1>1, <1>7
  <2>2. Active(t)
    BY <1>7, <1>8, <2>1, PartInBounds DEF Active
  <2>3. acc[t] = Value(tot, pass[t], t, 1)
    BY <1>8, <2>1 DEF Data, Part
  <2>4. o[pass[t]][t] = acc[t] /\ a[t] = acc[t] /\ k[t] = 1
    BY <1>3, <1>5, <2>1, <2>2
  <2> QED
    BY <1>5, <1>6, <2>3, <2>4 DEF Part
<1>9. ASSUME NEW t \in T, InBounds(t)
      PROVE  Block(tot, next[t], pass[t], t, o[1][t]) /\ Result(tot, next[t], t, a[t])
  <2>1. t \in Thread /\ pass[t] \in 1..2 /\ pc[t] = "mine"
    BY <1>1, <1>7
  <2>2. next[t] \in {"read", "blockBarrier"}
    BY <1>5, <1>6
  <2>3. Block(tot, pc[t], pass[t], t, own[1][t])
    BY <1>9, <2>1 DEF Data
  <2>4. pass[t] = 2 => o[1][t] = own[1][t]
    BY <1>5, <2>1
  <2> QED
    BY <2>1, <2>2, <2>3, <2>4 DEF Block, Result
<1>10. \A q \in 1..2, t \in Thread \ T : o[q][t] = own[q][t]
  BY <1>5
<1>11. ASSUME NEW t \in Thread, Full(t)
       PROVE  Total(tot, IF Last(t) \in T THEN next[Last(t)] ELSE pc[Last(t)], t, a[t])
  <2>1. Total(tot, pc[Last(t)], t, a[t])
    BY <1>3, <1>11 DEF Data
  <2>2. Last(t) \in T => next[Last(t)] \in {"read", "blockBarrier"}
    BY <1>5, <1>6
  <2> QED
    BY <2>1, <2>2 DEF Total
<1> QED
  BY <1>2, <1>3, <1>4, <1>8, <1>9, <1>10, <1>11, WaveData

(* A thread that takes part finds its neighbour with the same distance.     *)
LEMMA NeighbourAtDistance ==
  ASSUME NEW tot, Control, Data(tot), NEW t \in Thread, pc[t] = "read",
         HasPart(pass[t], t), skip[t] <= InBlockId(t)
  PROVE  acc[t - skip[t]] = Value(tot, pass[t], t - skip[t], skip[t])
<1>1. /\ Shape /\ pass[t] \in 1..2 /\ skip[t] \in Nat \ {0}
      /\ \A s \in Thread : pass[s] = pass[t] /\ PhaseOf(pc[s]) = PhaseOf(pc[t])
                           /\ DistanceAt(pc[s], skip[s]) = DistanceAt(pc[t], skip[t])
  BY DEF Control
<1> DEFINE k == skip[t]
           p == pass[t]
           s == t - k
<1>2. s \in Thread /\ BlockId(s) = BlockId(t) /\ HasPart(p, s)
  <2> HIDE DEF k, p
  <2>1. k \in Nat \ {0} /\ p \in 1..2 /\ k <= InBlockId(t) /\ HasPart(p, t)
    BY <1>1 DEF k, p
  <2> QED
    BY <1>1, <2>1, Neighbour
<1>3. pass[s] = p /\ Part(tot, pc[s], p, s, skip[s], acc[s], own[p][s])
  BY <1>1, <1>2 DEF Data
<1> HIDE DEF k, p, s
<1>4. CASE lockstep = 1
  <2>1. PhaseOf(pc[t]) = "read" /\ DistanceAt(pc[t], skip[t]) = k
    BY <1>4 DEF PhaseOf, DistanceAt, Loop, k
  <2>2. pc[s] \in {"mine", "read", "readBarrier"}
    BY <1>1, <1>2, <1>4, <2>1 DEF PhaseOf
  <2>3. DistanceAt(pc[s], skip[s]) = k
    BY <1>1, <1>2, <2>1
  <2>4. CASE pc[s] = "mine"
    <3>1. k = 1
      BY <2>3, <2>4 DEF DistanceAt, Loop
    <3> QED
      BY <1>3, <2>4, <3>1 DEF Part, k, p, s
  <2>5. CASE pc[s] \in {"read", "readBarrier"}
    <3>1. skip[s] = k
      BY <1>4, <2>3, <2>5 DEF DistanceAt, Loop
    <3> QED
      BY <1>3, <2>5, <3>1 DEF Part, k, p, s
  <2> QED
    BY <2>2, <2>4, <2>5
<1>5. CASE lockstep # 1
  <2>1. s \div lockstep = t \div lockstep
    BY <1>1, <1>2, <1>5, SameWave
  <2>2. pc[s] = "read" /\ skip[s] = k
    BY <1>2, <2>1 DEF Control, k
  <2> QED
    BY <1>3, <2>2 DEF Part, k, p, s
<1> QED
  BY <1>4, <1>5

LEMMA ReadOtherData ==
  ASSUME NEW tot, Adds(tot), Control, Data(tot), NEW T \in Waves, ReadOther(T)
  PROVE  Data(tot)'
<1> DEFINE next == [t \in Thread |-> IF lockstep = 1 THEN "readBarrier" ELSE "write"]
           k == [t \in Thread |-> skip[t]]
           a == [t \in Thread |-> acc[t]]
           o == [q \in 1..2 |-> [t \in Thread |->
                   IF t \in T /\ TakesPart(t) /\ pass[t] = q
                   THEN acc[t - skip[t]] \o own[pass[t]][t] ELSE own[q][t]]]
<1>1. T \subseteq Thread /\ \A t \in T : pc[t] = "read" /\ pc[t] \in Loop
  BY OneWave DEF ReadOther, At, Loop
<1>2. /\ pc' = [t \in Thread |-> IF t \in T THEN next[t] ELSE pc[t]]
      /\ skip' = [t \in Thread |-> IF t \in T THEN k[t] ELSE skip[t]]
      /\ UNCHANGED <<width, pass>>
  <2>1. \A t \in T : NeedsBarrier(t) <=> lockstep = 1
    BY <1>1, BarrierIfAlone
  <2>2. pc' = [t \in Thread |-> IF t \in T THEN next[t] ELSE pc[t]]
    BY <1>1, <2>1 DEF ReadOther, Goto
  <2> QED
    BY <1>1, <2>2 DEF ReadOther, device, Control
<1>3. \A t \in Thread : acc'[t] = a[t] /\ a[t] = acc[t]
  BY DEF ReadOther
<1>4. \A q \in 1..2, t \in Thread : own'[q][t] = o[q][t]
  BY DEF ReadOther, Assign, Pass, Mine
<1>5. /\ \A t \in T : next[t] \in {"readBarrier", "write"} /\ k[t] = skip[t]
      /\ \A q \in 1..2, t \in Thread :
           o[q][t] = IF t \in T /\ TakesPart(t) /\ pass[t] = q
                     THEN acc[t - skip[t]] \o own[pass[t]][t] ELSE own[q][t]
  BY <1>1
<1> HIDE DEF next, k, a, o
<1>7. Shape /\ \A t \in Thread : pass[t] \in 1..2 /\ skip[t] \in Nat \ {0}
  BY DEF Control
<1>8. ASSUME NEW t \in T, HasPart(pass[t], t)
      PROVE  Part(tot, next[t], pass[t], t, k[t], a[t], o[pass[t]][t])
  <2>1. t \in Thread /\ pass[t] \in 1..2 /\ pc[t] = "read" /\ skip[t] \in Nat \ {0}
    BY <1>1, <1>7
  <2>2. Active(t)
    BY <1>7, <1>8, <2>1, PartInBounds DEF Active
  <2>3. acc[t] = Value(tot, pass[t], t, skip[t]) /\ own[pass[t]][t] = Value(tot, pass[t], t, skip[t])
    BY <1>8, <2>1 DEF Data, Part
  <2>4. o[pass[t]][t] = Value(tot, pass[t], t, 2 * skip[t])
    <3>1. CASE skip[t] <= InBlockId(t)
      <4>1. TakesPart(t)
        BY <2>2, <3>1 DEF TakesPart
      <4>2. o[pass[t]][t] = acc[t - skip[t]] \o own[pass[t]][t]
        BY <1>5, <2>1, <4>1
      <4>3. acc[t - skip[t]] = Value(tot, pass[t], t - skip[t], skip[t])
        BY <1>8, <2>1, <3>1, NeighbourAtDistance
      <4> DEFINE d == skip[t]
                 p == pass[t]
      <4>4. d \in Nat \ {0} /\ p \in 1..2 /\ d <= InBlockId(t) /\ HasPart(p, t)
        BY <1>8, <2>1, <3>1
      <4> HIDE DEF d, p
      <4>5. Value(tot, p, t - d, d) \o Value(tot, p, t, d) = Value(tot, p, t, 2 * d)
        BY <1>7, <2>1, <4>4, Combined
      <4> QED
        BY <2>3, <4>2, <4>3, <4>5 DEF d, p
    <3>2. CASE ~ (skip[t] <= InBlockId(t))
      <4>1. o[pass[t]][t] = own[pass[t]][t]
        BY <1>5, <2>1, <3>2 DEF TakesPart
      <4> DEFINE d == skip[t]
                 p == pass[t]
      <4>2. d \in Nat \ {0} /\ InBlockId(t) < d
        BY <2>1, <3>2, BlockOf
      <4> HIDE DEF d, p
      <4>3. Value(tot, p, t, 2 * d) = Value(tot, p, t, d)
        BY <2>1, <4>2, Unchanged
      <4> QED
        BY <2>3, <4>1, <4>3 DEF d, p
    <3> QED
      BY <3>1, <3>2
  <2>5. a[t] = acc[t] /\ k[t] = skip[t] /\ next[t] \in {"readBarrier", "write"}
    BY <1>3, <1>5, <2>1
  <2> QED
    BY <2>3, <2>4, <2>5 DEF Part
<1>9. ASSUME NEW t \in T, InBounds(t)
      PROVE  Block(tot, next[t], pass[t], t, o[1][t]) /\ Result(tot, next[t], t, a[t])
  <2>1. t \in Thread /\ pass[t] \in 1..2 /\ pc[t] = "read"
    BY <1>1, <1>7
  <2>2. next[t] \in {"readBarrier", "write"}
    BY <1>5
  <2>3. Block(tot, pc[t], pass[t], t, own[1][t])
    BY <1>9, <2>1 DEF Data
  <2>4. pass[t] = 2 => o[1][t] = own[1][t]
    BY <1>5, <2>1
  <2> QED
    BY <2>1, <2>2, <2>3, <2>4 DEF Block, Result, Loop
<1>10. \A q \in 1..2, t \in Thread \ T : o[q][t] = own[q][t]
  BY <1>5
<1>11. ASSUME NEW t \in Thread, Full(t)
       PROVE  Total(tot, IF Last(t) \in T THEN next[Last(t)] ELSE pc[Last(t)], t, a[t])
  <2>1. Total(tot, pc[Last(t)], t, a[t])
    BY <1>3, <1>11 DEF Data
  <2>2. Last(t) \in T => next[Last(t)] \in {"readBarrier", "write"}
    BY <1>5
  <2> QED
    BY <2>1, <2>2 DEF Total
<1> QED
  BY <1>2, <1>3, <1>4, <1>8, <1>9, <1>10, <1>11, WaveData

LEMMA WriteData ==
  ASSUME NEW tot, Control, Data(tot), NEW T \in Waves, Write(T)
  PROVE  Data(tot)'
<1> DEFINE next == [t \in Thread |-> IF lockstep = 1 THEN "writeBarrier" ELSE AfterIteration(2 * skip[t])]
           k == [t \in Thread |-> IF lockstep = 1 THEN skip[t] ELSE 2 * skip[t]]
           a == [t \in Thread |-> IF t \in T /\ TakesPart(t) THEN own[pass[t]][t] ELSE acc[t]]
           o == [q \in 1..2 |-> [t \in Thread |-> own[q][t]]]
<1>1. T \subseteq Thread /\ \A t \in T : pc[t] = "write" /\ pc[t] \in Loop
  BY OneWave DEF Write, At, Loop
<1>2. Shape /\ \A t \in Thread : pass[t] \in 1..2 /\ skip[t] \in Nat \ {0}
  BY DEF Control
<1>3. /\ pc' = [t \in Thread |-> IF t \in T THEN next[t] ELSE pc[t]]
      /\ skip' = [t \in Thread |-> IF t \in T THEN k[t] ELSE skip[t]]
      /\ UNCHANGED <<width, pass>>
  <2>1. \A t \in T : NeedsBarrier(t) <=> lockstep = 1
    BY <1>1, BarrierIfAlone
  <2>2. pc' = [t \in Thread |-> IF t \in T THEN next[t] ELSE pc[t]]
    BY <1>1, <2>1 DEF Write, Goto
  <2>3. skip' = [t \in Thread |-> IF t \in T THEN k[t] ELSE skip[t]]
    BY <1>1, <2>1 DEF Write
  <2> QED
    BY <2>2, <2>3 DEF Write, device
<1>4. \A t \in Thread : acc'[t] = a[t]
  <2> TAKE i \in Thread
  <2> DEFINE stores(t) == TakesPart(t) /\ Self(t) = i
  <2>1. acc'[i] = IF \E t \in T : stores(t) THEN Mine(CHOOSE t \in T : stores(t)) ELSE acc[i]
    BY DEF Write, Store
  <2>2. \A t \in T : stores(t) <=> t = i /\ TakesPart(i)
    BY DEF Self
  <2> HIDE DEF stores
  <2>3. CASE i \in T /\ TakesPart(i)
    <3>1. (CHOOSE t \in T : stores(t)) = i
      BY <2>2, <2>3
    <3> QED
      BY <2>1, <2>2, <2>3, <3>1 DEF Mine
  <2>4. CASE ~ (i \in T /\ TakesPart(i))
    BY <2>1, <2>2, <2>4
  <2> QED
    BY <2>3, <2>4
<1>5. \A q \in 1..2, t \in Thread : own'[q][t] = o[q][t] /\ o[q][t] = own[q][t]
  BY DEF Write
<1>6. /\ \A t \in T : /\ next[t] = IF lockstep = 1 THEN "writeBarrier" ELSE AfterIteration(2 * skip[t])
                      /\ k[t] = IF lockstep = 1 THEN skip[t] ELSE 2 * skip[t]
      /\ \A t \in Thread : a[t] = IF t \in T /\ TakesPart(t) THEN own[pass[t]][t] ELSE acc[t]
  BY <1>1
<1>7. \A d : AfterIteration(d) \in {"read", "blockBarrier"}
  BY DEF AfterIteration
<1> HIDE DEF next, k, a, o
<1>8. ASSUME NEW t \in T, HasPart(pass[t], t)
      PROVE  Part(tot, next[t], pass[t], t, k[t], a[t], o[pass[t]][t])
  <2>1. t \in Thread /\ pass[t] \in 1..2 /\ pc[t] = "write" /\ skip[t] \in Nat \ {0}
    BY <1>1, <1>2
  <2>2. Active(t)
    BY <1>2, <1>8, <2>1, PartInBounds DEF Active
  <2>3. acc[t] = Value(tot, pass[t], t, skip[t]) /\ own[pass[t]][t] = Value(tot, pass[t], t, 2 * skip[t])
    BY <1>8, <2>1 DEF Data, Part
  <2>4. a[t] = Value(tot, pass[t], t, 2 * skip[t])
    <3>1. CASE skip[t] <= InBlockId(t)
      BY <1>6, <2>1, <2>2, <2>3, <3>1 DEF TakesPart
    <3>2. CASE ~ (skip[t] <= InBlockId(t))
      <4>1. a[t] = acc[t]
        BY <1>6, <2>1, <3>2 DEF TakesPart
      <4> DEFINE d == skip[t]
                 p == pass[t]
      <4>2. d \in Nat \ {0} /\ InBlockId(t) < d
        BY <2>1, <3>2, BlockOf
      <4> HIDE DEF d, p
      <4>3. Value(tot, p, t, 2 * d) = Value(tot, p, t, d)
        BY <2>1, <4>2, Unchanged
      <4> QED
        BY <2>3, <4>1, <4>3 DEF d, p
    <3> QED
      BY <3>1, <3>2
  <2>5. o[pass[t]][t] = Value(tot, pass[t], t, 2 * skip[t])
    BY <1>5, <2>1, <2>3
  <2>6. CASE lockstep = 1
    <3>1. next[t] = "writeBarrier" /\ k[t] = skip[t]
      BY <1>6, <2>6
    <3> QED
      BY <2>4, <2>5, <3>1 DEF Part
  <2>7. CASE lockstep # 1
    <3>1. next[t] \in {"read", "blockBarrier"} /\ k[t] = 2 * skip[t]
      BY <1>6, <1>7, <2>7
    <3> QED
      BY <2>4, <2>5, <3>1 DEF Part
  <2> QED
    BY <2>6, <2>7
<1>9. ASSUME NEW t \in T, InBounds(t)
      PROVE  Block(tot, next[t], pass[t], t, o[1][t]) /\ Result(tot, next[t], t, a[t])
  <2>1. t \in Thread /\ pc[t] = "write"
    BY <1>1
  <2>2. next[t] \in {"writeBarrier", "read", "blockBarrier"}
    BY <1>6, <1>7
  <2>3. Block(tot, pc[t], pass[t], t, own[1][t])
    BY <1>9, <2>1 DEF Data
  <2>4. o[1][t] = own[1][t]
    BY <1>5, <2>1
  <2> QED
    BY <2>1, <2>2, <2>3, <2>4 DEF Block, Result, Loop
<1>10. /\ \A q \in 1..2, t \in Thread \ T : o[q][t] = own[q][t]
       /\ \A t \in Thread \ T : a[t] = acc[t]
  BY <1>5, <1>6
<1>11. ASSUME NEW t \in Thread, Full(t)
       PROVE  Total(tot, IF Last(t) \in T THEN next[Last(t)] ELSE pc[Last(t)], t, a[t])
  <2>1. Last(t) \in T => next[Last(t)] \in {"writeBarrier", "read", "blockBarrier"}
    BY <1>6, <1>7
  <2>2. pc[Last(t)] \notin {"packBarrier", "carryRead", "carryWrite", "carryBarrier"}
    <3>1. Last(t) \in Thread
      BY <1>2, <1>11, LastOfFull DEF Thread
    <3>2. PICK s \in T : TRUE
      BY OneWave
    <3>3. PhaseOf(pc[Last(t)]) = PhaseOf("write")
      BY <1>1, <3>1, <3>2 DEF Control
    <3> QED
      BY <3>3 DEF PhaseOf
  <2> QED
    BY <2>1, <2>2 DEF Total
<1>12. \A t \in Thread \ T : a[t] = acc[t] \/ PhaseOf(pc[t]) = "pack"
  BY <1>10
<1>13. \A q \in 1..2, t \in Thread : own'[q][t] = o[q][t]
  BY <1>5
<1> QED
  BY <1>3, <1>4, <1>8, <1>9, <1>10, <1>11, <1>12, <1>13, WaveData

LEMMA PackData ==
  ASSUME NEW tot, Control, Data(tot), NEW T \in Waves, Pack(T)
  PROVE  Data(tot)'
<1> DEFINE next == [t \in Thread |-> "packBarrier"]
           k == [t \in Thread |-> skip[t]]
           a == [t \in Thread |-> acc'[t]]
           o == [q \in 1..2 |-> [t \in Thread |-> own[q][t]]]
<1>1. T \subseteq Thread /\ \A t \in T : pc[t] = "pack"
  BY OneWave DEF Pack, At
<1>2. Shape /\ \A t \in Thread : pass[t] \in 1..2
  BY DEF Control
<1>3. /\ pc' = [t \in Thread |-> IF t \in T THEN next[t] ELSE pc[t]]
      /\ skip' = [t \in Thread |-> IF t \in T THEN k[t] ELSE skip[t]]
      /\ UNCHANGED <<width, pass>>
  BY <1>1 DEF Pack, Goto, device, Control
<1>4. ASSUME NEW i \in Thread, Full(i)
      PROVE  acc'[i] = IF Last(i) \in T THEN own[1][Last(i)] ELSE acc[i]
  <2> DEFINE stores(t) == Packs(t) /\ BlockId(t) = i
  <2>1. acc'[i] = IF \E t \in T : stores(t) THEN Mine(CHOOSE t \in T : stores(t)) ELSE acc[i]
    BY DEF Pack, Store
  <2>2. /\ Last(i) \in Thread /\ Last(i) < width /\ BlockId(Last(i)) = i
        /\ InBlockId(Last(i)) = BlockSize - 1
    BY <1>2, <1>4, LastOfFull DEF Thread
  <2>3. ASSUME NEW t \in T PROVE stores(t) <=> t = Last(i)
    <3>1. t \in Thread /\ t = Lead(t) + InBlockId(t)
      BY <1>1, BlockOf
    <3>2. stores(t) => t = Last(i)
      <4> SUFFICES ASSUME stores(t) PROVE t = Last(i)
        OBVIOUS
      <4>1. BlockId(t) = i /\ InBlockId(t) = BlockSize - 1
        BY DEF Packs
      <4>2. Lead(t) = i * BlockSize /\ Last(i) = i * BlockSize + BlockSize - 1
        BY <4>1 DEF Lead, Last
      <4>3. Lead(t) \in Nat /\ BlockSize \in Nat
        BY <3>1, BlockOf, GroupAssumption
      <4> QED
        BY <3>1, <4>1, <4>2, <4>3
    <3>3. t = Last(i) => stores(t)
      BY <2>2 DEF Packs, InBounds
    <3> QED
      BY <3>2, <3>3
  <2> HIDE DEF stores
  <2>4. CASE Last(i) \in T
    <3>1. (CHOOSE t \in T : stores(t)) = Last(i)
      BY <2>3, <2>4
    <3>2. acc'[i] = Mine(Last(i))
      BY <2>1, <2>3, <2>4, <3>1
    <3>3. pass[Last(i)] = 1
      BY <1>1, <2>2, <2>4 DEF Control, PlaceOK
    <3> QED
      BY <2>4, <3>2, <3>3 DEF Mine
  <2>5. CASE Last(i) \notin T
    BY <2>1, <2>3, <2>5
  <2> QED
    BY <2>4, <2>5
<1>5. \A q \in 1..2, t \in Thread : own'[q][t] = o[q][t] /\ o[q][t] = own[q][t]
  BY DEF Pack
<1>6. /\ \A t \in T : next[t] = "packBarrier"
      /\ \A t \in Thread : a[t] = acc'[t]
  BY <1>1
<1> HIDE DEF next, k, a, o
<1>8. \A t \in T : Part(tot, next[t], pass[t], t, k[t], a[t], o[pass[t]][t])
  BY <1>6 DEF Part
<1>9. ASSUME NEW t \in T, InBounds(t)
      PROVE  Block(tot, next[t], pass[t], t, o[1][t]) /\ Result(tot, next[t], t, a[t])
  <2>1. t \in Thread /\ pc[t] = "pack" /\ next[t] = "packBarrier"
    BY <1>1, <1>6
  <2>2. Block(tot, pc[t], pass[t], t, own[1][t])
    BY <1>9, <2>1 DEF Data
  <2>3. o[1][t] = own[1][t]
    BY <1>5, <2>1
  <2> QED
    BY <2>1, <2>2, <2>3 DEF Block, Result, Loop
<1>10. \A t \in Thread : PhaseOf(pc[t]) = "pack"
  <2>1. PICK s \in T : TRUE
    BY OneWave
  <2>2. s \in Thread /\ PhaseOf(pc[s]) = "pack"
    BY <1>1, <2>1 DEF PhaseOf
  <2> QED
    BY <2>2 DEF Control
<1>11. ASSUME NEW t \in Thread, Full(t)
       PROVE  Total(tot, IF Last(t) \in T THEN next[Last(t)] ELSE pc[Last(t)], t, a[t])
  <2>1. /\ Last(t) \in Thread /\ Last(t) < width /\ Lead(Last(t)) = t * BlockSize
    BY <1>2, <1>11, LastOfFull DEF Thread
  <2>2. CASE Last(t) \in T
    <3>1. next[Last(t)] = "packBarrier" /\ a[t] = own[1][Last(t)] /\ pc[Last(t)] = "pack"
      BY <1>1, <1>4, <1>6, <1>11, <2>2
    <3>2. Block(tot, pc[Last(t)], pass[Last(t)], Last(t), own[1][Last(t)])
      BY <2>1 DEF Data, InBounds
    <3>3. own[1][Last(t)] = tot[t * BlockSize][Last(t)]
      BY <2>1, <3>1, <3>2 DEF Block
    <3> QED
      BY <2>2, <3>1, <3>3 DEF Total
  <2>3. CASE Last(t) \notin T
    <3>1. Total(tot, pc[Last(t)], t, acc[t]) /\ a[t] = acc[t]
      BY <1>4, <1>6, <1>11, <2>3 DEF Data
    <3> QED
      BY <2>3, <3>1
  <2> QED
    BY <2>2, <2>3
<1>12. /\ \A t \in Thread : acc'[t] = a[t]
       /\ \A q \in 1..2, t \in Thread : own'[q][t] = o[q][t]
       /\ \A q \in 1..2, t \in Thread \ T : o[q][t] = own[q][t]
       /\ \A t \in Thread \ T : a[t] = acc[t] \/ PhaseOf(pc[t]) = "pack"
  BY <1>5, <1>6, <1>10
<1> QED
  BY <1>3, <1>8, <1>9, <1>11, <1>12, WaveData

LEMMA ReadCarryData ==
  ASSUME NEW tot, Adds(tot), Control, Data(tot), NEW T \in Waves, ReadCarry(T)
  PROVE  Data(tot)'
<1> DEFINE next == [t \in Thread |-> "carryWrite"]
           k == [t \in Thread |-> skip[t]]
           a == [t \in Thread |-> acc[t]]
           o == [q \in 1..2 |-> [t \in Thread |->
                   IF t \in T /\ Carries(t) /\ q = 1
                   THEN acc[BlockId(t) - 1] \o own[1][t] ELSE own[q][t]]]
<1>1. T \subseteq Thread /\ \A t \in T : pc[t] = "carryRead"
  BY OneWave DEF ReadCarry, At
<1>2. Shape /\ \A t \in Thread : pass[t] \in 1..2
  BY DEF Control
<1>3. /\ pc' = [t \in Thread |-> IF t \in T THEN next[t] ELSE pc[t]]
      /\ skip' = [t \in Thread |-> IF t \in T THEN k[t] ELSE skip[t]]
      /\ UNCHANGED <<width, pass>>
  BY <1>1 DEF ReadCarry, Goto, device, Control
<1>4. \A t \in Thread : acc'[t] = a[t] /\ a[t] = acc[t]
  BY DEF ReadCarry
<1>5. \A q \in 1..2, t \in Thread : own'[q][t] = o[q][t]
  BY DEF ReadCarry, Assign, First
<1>6. /\ \A t \in T : next[t] = "carryWrite"
      /\ \A q \in 1..2, t \in Thread :
           o[q][t] = IF t \in T /\ Carries(t) /\ q = 1
                     THEN acc[BlockId(t) - 1] \o own[1][t] ELSE own[q][t]
  BY <1>1
<1> HIDE DEF next, k, a, o
<1>7. \A t \in Thread : PhaseOf(pc[t]) = "carry"
  <2>1. PICK s \in T : TRUE
    BY OneWave
  <2>2. s \in Thread /\ PhaseOf(pc[s]) = "carry"
    BY <1>1, <2>1 DEF PhaseOf
  <2> QED
    BY <2>2 DEF Control
<1>8. \A t \in T : Part(tot, next[t], pass[t], t, k[t], a[t], o[pass[t]][t])
  BY <1>6 DEF Part
<1>9. ASSUME NEW t \in T, InBounds(t)
      PROVE  Block(tot, next[t], pass[t], t, o[1][t]) /\ Result(tot, next[t], t, a[t])
  <2>1. t \in Thread /\ pc[t] = "carryRead" /\ next[t] = "carryWrite"
    BY <1>1, <1>6
  <2>2. own[1][t] = tot[Lead(t)][t]
    BY <1>9, <2>1 DEF Data, Block
  <2>3. o[1][t] = tot[0][t]
    <3>1. CASE IsFirstBlock(t)
      <4>1. Lead(t) = 0 /\ ~ Carries(t)
        BY <2>1, <3>1, FirstBlock DEF Carries
      <4> QED
        BY <1>6, <2>1, <2>2, <4>1
    <3>2. CASE ~ IsFirstBlock(t)
      <4> DEFINE b == BlockId(t) - 1
      <4>1. Carries(t) /\ b \in Thread /\ b \in Nat /\ b < BlockId(t)
        BY <1>9, <2>1, <3>2, FirstBlock, BlockOf DEF Carries, Thread
      <4>2. t < width
        BY <1>9 DEF InBounds
      <4>3. o[1][t] = acc[b] \o own[1][t]
        <5>1. 1 \in 1..2 /\ t \in T /\ Carries(t)
          BY <4>1
        <5>2. o[1][t] = acc[BlockId(t) - 1] \o own[1][t]
          BY <1>6, <2>1, <5>1, Zenon
        <5> QED
          BY <5>2
      <4>4. BlockSize \in Nat \ {0} /\ BlockId(t) \in Nat /\ Lead(t) \in Nat /\ Lead(t) <= t /\ t \in Nat
        BY <2>1, BlockOf, GroupAssumption
      <4>5. Last(b) + 1 = Lead(t)
        <5>1. (b + 1) * BlockSize = b * BlockSize + BlockSize /\ b * BlockSize \in Nat
          BY <4>1, <4>4, Products
        <5>2. b + 1 = BlockId(t)
          BY <4>4
        <5> HIDE DEF b
        <5> QED
          BY <4>4, <5>1, <5>2 DEF Last, Lead
      <4> HIDE DEF b
      <4>6. Full(b) /\ Last(b) < Lead(t)
        BY <1>2, <2>1, <4>1, <4>2, BlocksBeforeFull
      <4>7. Last(b) \in Thread
        BY <1>2, <4>1, <4>6, LastOfFull
      <4>8. acc[b] = tot[0][Last(b)]
        <5>1. Total(tot, pc[Last(b)], b, acc[b])
          BY <4>1, <4>6 DEF Data
        <5>2. pc[Last(b)] \in {"carryRead", "carryWrite", "carryBarrier"}
          BY <1>7, <4>7 DEF PhaseOf
        <5> QED
          BY <5>1, <5>2 DEF Total
      <4>9. tot[0][Last(b)] \o tot[Last(b) + 1][t] = tot[0][t]
        <5>1. 0 \in Thread /\ 0 <= Last(b) /\ Last(b) < t
          BY <4>4, <4>6, <4>7, GroupAssumption DEF Thread
        <5> QED
          BY <2>1, <4>7, <5>1 DEF Adds
      <4> QED
        BY <2>2, <4>3, <4>5, <4>8, <4>9
    <3> QED
      BY <3>1, <3>2
  <2> QED
    BY <2>1, <2>3 DEF Block, Result, Loop
<1>10. \A q \in 1..2, t \in Thread \ T : o[q][t] = own[q][t]
  BY <1>6
<1>11. ASSUME NEW t \in Thread, Full(t)
       PROVE  Total(tot, IF Last(t) \in T THEN next[Last(t)] ELSE pc[Last(t)], t, a[t])
  <2>1. Total(tot, pc[Last(t)], t, a[t])
    BY <1>4, <1>11 DEF Data
  <2>2. Last(t) \in T => next[Last(t)] = "carryWrite" /\ pc[Last(t)] = "carryRead"
    BY <1>1, <1>6
  <2> QED
    BY <2>1, <2>2 DEF Total
<1> QED
  BY <1>3, <1>4, <1>5, <1>8, <1>9, <1>10, <1>11, WaveData

LEMMA WriteCarryData ==
  ASSUME NEW tot, Control, Data(tot), NEW T \in Waves, WriteCarry(T)
  PROVE  Data(tot)'
<1> DEFINE next == [t \in Thread |-> "carryBarrier"]
           k == [t \in Thread |-> skip[t]]
           a == [t \in Thread |-> IF t \in T /\ Carries(t) THEN own[1][t] ELSE acc[t]]
           o == [q \in 1..2 |-> [t \in Thread |-> own[q][t]]]
<1>1. T \subseteq Thread /\ \A t \in T : pc[t] = "carryWrite"
  BY OneWave DEF WriteCarry, At
<1>2. Shape /\ \A t \in Thread : pass[t] \in 1..2
  BY DEF Control
<1>3. /\ pc' = [t \in Thread |-> IF t \in T THEN next[t] ELSE pc[t]]
      /\ skip' = [t \in Thread |-> IF t \in T THEN k[t] ELSE skip[t]]
      /\ UNCHANGED <<width, pass>>
  BY <1>1 DEF WriteCarry, Goto, device, Control
<1>4. \A t \in Thread : acc'[t] = a[t]
  <2> TAKE i \in Thread
  <2> DEFINE stores(t) == Carries(t) /\ Self(t) = i
  <2>1. acc'[i] = IF \E t \in T : stores(t) THEN own[1][CHOOSE t \in T : stores(t)] ELSE acc[i]
    BY DEF WriteCarry, Store
  <2>2. \A t \in T : stores(t) <=> t = i /\ Carries(i)
    BY DEF Self
  <2> HIDE DEF stores
  <2>3. CASE i \in T /\ Carries(i)
    <3>1. (CHOOSE t \in T : stores(t)) = i
      BY <2>2, <2>3
    <3> QED
      BY <2>1, <2>2, <2>3, <3>1
  <2>4. CASE ~ (i \in T /\ Carries(i))
    BY <2>1, <2>2, <2>4
  <2> QED
    BY <2>3, <2>4
<1>5. \A q \in 1..2, t \in Thread : own'[q][t] = o[q][t] /\ o[q][t] = own[q][t]
  BY DEF WriteCarry
<1>6. /\ \A t \in T : next[t] = "carryBarrier"
      /\ \A t \in Thread : a[t] = IF t \in T /\ Carries(t) THEN own[1][t] ELSE acc[t]
  BY <1>1
<1> HIDE DEF next, k, a, o
<1>8. \A t \in T : Part(tot, next[t], pass[t], t, k[t], a[t], o[pass[t]][t])
  BY <1>6 DEF Part
<1>9. ASSUME NEW t \in T, InBounds(t)
      PROVE  Block(tot, next[t], pass[t], t, o[1][t]) /\ Result(tot, next[t], t, a[t])
  <2>1. t \in Thread /\ pc[t] = "carryWrite" /\ next[t] = "carryBarrier"
    BY <1>1, <1>6
  <2>2. own[1][t] = tot[0][t]
    BY <1>9, <2>1 DEF Data, Block
  <2>3. o[1][t] = own[1][t]
    BY <1>5, <2>1
  <2>4. IsFirstBlock(t) \/ a[t] = own[1][t]
    BY <1>6, <1>9, <2>1 DEF Carries
  <2> QED
    BY <2>1, <2>2, <2>3, <2>4 DEF Block, Result, Loop
<1>10. /\ \A q \in 1..2, t \in Thread \ T : o[q][t] = own[q][t]
       /\ \A t \in Thread \ T : a[t] = acc[t] \/ PhaseOf(pc[t]) = "pack"
       /\ \A q \in 1..2, t \in Thread : own'[q][t] = o[q][t]
  BY <1>5, <1>6
<1>11. ASSUME NEW t \in Thread, Full(t)
       PROVE  Total(tot, IF Last(t) \in T THEN next[Last(t)] ELSE pc[Last(t)], t, a[t])
  <2>1. ~ Carries(t)
    BY <1>2, <1>11, LastOfFull DEF Carries, Thread
  <2>2. Total(tot, pc[Last(t)], t, acc[t]) /\ a[t] = acc[t]
    BY <1>6, <1>11, <2>1 DEF Data
  <2>3. Last(t) \in T => next[Last(t)] = "carryBarrier" /\ pc[Last(t)] = "carryWrite"
    BY <1>1, <1>6
  <2> QED
    BY <2>2, <2>3 DEF Total
<1> QED
  BY <1>3, <1>4, <1>8, <1>9, <1>10, <1>11, WaveData

LEMMA RestoreData ==
  ASSUME NEW tot, Control, Data(tot), NEW T \in Waves, Restore(T)
  PROVE  Data(tot)'
<1> DEFINE next == [t \in Thread |-> "scanned"]
           k == [t \in Thread |-> skip[t]]
           a == [t \in Thread |-> IF t \in T /\ IsFirstBlock(t) THEN own[1][t] ELSE acc[t]]
           o == [q \in 1..2 |-> [t \in Thread |-> own[q][t]]]
<1>1. T \subseteq Thread /\ \A t \in T : pc[t] = "restore"
  BY OneWave DEF Restore, At
<1>2. Shape /\ \A t \in Thread : pass[t] \in 1..2
  BY DEF Control
<1>3. /\ pc' = [t \in Thread |-> IF t \in T THEN next[t] ELSE pc[t]]
      /\ skip' = [t \in Thread |-> IF t \in T THEN k[t] ELSE skip[t]]
      /\ UNCHANGED <<width, pass>>
  BY <1>1 DEF Restore, Goto, device, Control
<1>4. \A t \in Thread : acc'[t] = a[t]
  <2> TAKE i \in Thread
  <2> DEFINE stores(t) == IsFirstBlock(t) /\ Self(t) = i
  <2>1. acc'[i] = IF \E t \in T : stores(t) THEN own[1][CHOOSE t \in T : stores(t)] ELSE acc[i]
    BY DEF Restore, Store
  <2>2. \A t \in T : stores(t) <=> t = i /\ IsFirstBlock(i)
    BY DEF Self
  <2> HIDE DEF stores
  <2>3. CASE i \in T /\ IsFirstBlock(i)
    <3>1. (CHOOSE t \in T : stores(t)) = i
      BY <2>2, <2>3
    <3> QED
      BY <2>1, <2>2, <2>3, <3>1
  <2>4. CASE ~ (i \in T /\ IsFirstBlock(i))
    BY <2>1, <2>2, <2>4
  <2> QED
    BY <2>3, <2>4
<1>5. \A q \in 1..2, t \in Thread : own'[q][t] = o[q][t] /\ o[q][t] = own[q][t]
  BY DEF Restore
<1>6. /\ \A t \in T : next[t] = "scanned"
      /\ \A t \in Thread : a[t] = IF t \in T /\ IsFirstBlock(t) THEN own[1][t] ELSE acc[t]
  BY <1>1
<1> HIDE DEF next, k, a, o
<1>8. \A t \in T : Part(tot, next[t], pass[t], t, k[t], a[t], o[pass[t]][t])
  BY <1>6 DEF Part
<1>9. ASSUME NEW t \in T, InBounds(t)
      PROVE  Block(tot, next[t], pass[t], t, o[1][t]) /\ Result(tot, next[t], t, a[t])
  <2>1. t \in Thread /\ pc[t] = "restore" /\ next[t] = "scanned"
    BY <1>1, <1>6
  <2>2. own[1][t] = tot[0][t] /\ (IsFirstBlock(t) \/ acc[t] = tot[0][t])
    BY <1>9, <2>1 DEF Data, Block, Result
  <2>3. a[t] = tot[0][t] /\ o[1][t] = tot[0][t]
    BY <1>5, <1>6, <2>1, <2>2
  <2> QED
    BY <2>1, <2>3 DEF Block, Result, Loop
<1>10. /\ \A q \in 1..2, t \in Thread \ T : o[q][t] = own[q][t]
       /\ \A t \in Thread \ T : a[t] = acc[t] \/ PhaseOf(pc[t]) = "pack"
       /\ \A q \in 1..2, t \in Thread : own'[q][t] = o[q][t]
  BY <1>5, <1>6
<1>11. ASSUME NEW t \in Thread, Full(t)
       PROVE  Total(tot, IF Last(t) \in T THEN next[Last(t)] ELSE pc[Last(t)], t, a[t])
  <2>1. Last(t) \in T => next[Last(t)] = "scanned"
    BY <1>6
  <2>2. pc[Last(t)] \notin {"packBarrier", "carryRead", "carryWrite", "carryBarrier"}
    <3>1. Last(t) \in Thread
      BY <1>2, <1>11, LastOfFull DEF Thread
    <3>2. PICK s \in T : TRUE
      BY OneWave
    <3>3. PhaseOf(pc[Last(t)]) = PhaseOf("restore")
      BY <1>1, <3>1, <3>2 DEF Control
    <3> QED
      BY <3>3 DEF PhaseOf
  <2> QED
    BY <2>1, <2>2 DEF Total
<1> QED
  BY <1>3, <1>4, <1>8, <1>9, <1>10, <1>11, WaveData

(* A barrier: what has to be shown of the threads.                          *)
LEMMA BarrierData ==
  ASSUME NEW tot, UNCHANGED <<width, acc, own>>, NEW next, NEW k, NEW p \in 1..2,
         Shape,
         pc' = [t \in Thread |-> next],
         skip' = [t \in Thread |-> k[t]],
         pass' = [t \in Thread |-> p],
         \A t \in Thread : HasPart(p, t) => Part(tot, next, p, t, k[t], acc[t], own[p][t]),
         \A t \in Thread : InBounds(t) => Block(tot, next, p, t, own[1][t]) /\ Result(tot, next, t, acc[t]),
         \A t \in Thread : Full(t) => Total(tot, next, t, acc[t])
  PROVE  Data(tot)'
<1>1. \A t \in Thread : pc'[t] = next /\ skip'[t] = k[t] /\ pass'[t] = p
  OBVIOUS
<1>2. \A t \in Thread : Full(t) => Last(t) \in Thread
  BY LastOfFull DEF Thread
<1>3. \A t : (InBounds(t)' <=> InBounds(t)) /\ (Full(t)' <=> Full(t))
  BY DEF InBounds, Full
<1>4. \A t \in Thread : HasPart(pass[t], t)' <=> HasPart(p, t)
  BY <1>1 DEF HasPart, Full
<1>5. \A t \in Thread : HasPart(pass[t], t)' =>
                          Part(tot, pc'[t], pass'[t], t, skip'[t], acc'[t], own'[pass'[t]][t])
  BY <1>1, <1>4
<1>6. \A t \in Thread : InBounds(t)' => /\ Block(tot, pc'[t], pass'[t], t, own'[1][t])
                                        /\ Result(tot, pc'[t], t, acc'[t])
  BY <1>1, <1>3
<1>7. \A t \in Thread : Full(t)' => Total(tot, pc'[Last(t)], t, acc'[t])
  BY <1>1, <1>2, <1>3
<1> QED
  BY <1>5, <1>6, <1>7 DEF Data

LEMMA SyncData ==
  ASSUME NEW tot, Control, Data(tot), Sync
  PROVE  Data(tot)'
<1>1. PICK p \in 1..2 : \A t \in Thread : pass[t] = p
  BY OnePass
<1>2. Shape /\ pass = [t \in Thread |-> p] /\ skip \in [Thread -> Nat \ {0}]
  BY <1>1 DEF Control
<1> DEFINE k == [t \in Thread |-> skip[t]]
<1>3. skip = [t \in Thread |-> k[t]] /\ \A t \in Thread : k[t] = skip[t]
  BY <1>2
<1> HIDE DEF k
<1>4. ASSUME NEW t \in Thread
      PROVE  /\ HasPart(p, t) => Part(tot, pc[t], p, t, skip[t], acc[t], own[p][t])
             /\ InBounds(t) => Block(tot, pc[t], p, t, own[1][t]) /\ Result(tot, pc[t], t, acc[t])
             /\ Full(t) => Total(tot, pc[Last(t)], t, acc[t])
             /\ Full(t) => Last(t) \in Thread
  BY <1>1, <1>2, LastOfFull DEF Data, Thread
<1>5. CASE ReadBarrier
  <2>1. \A t \in Thread : pc[t] = "readBarrier"
    BY <1>5 DEF ReadBarrier, Barrier, At
  <2>2. /\ pc' = [t \in Thread |-> "write"] /\ skip' = [t \in Thread |-> k[t]]
        /\ pass' = [t \in Thread |-> p] /\ UNCHANGED <<width, acc, own>>
    BY <1>2, <1>3, <1>5 DEF ReadBarrier, GotoAll, device
  <2>3. \A t \in Thread : HasPart(p, t) => Part(tot, "write", p, t, k[t], acc[t], own[p][t])
    BY <1>3, <1>4, <2>1 DEF Part
  <2>4. \A t \in Thread : InBounds(t) => /\ Block(tot, "write", p, t, own[1][t])
                                         /\ Result(tot, "write", t, acc[t])
    BY <1>4, <2>1 DEF Block, Result, Loop
  <2>5. \A t \in Thread : Full(t) => Total(tot, "write", t, acc[t])
    BY DEF Total
  <2> QED
    BY <1>2, <2>2, <2>3, <2>4, <2>5, BarrierData
<1>6. CASE WriteBarrier
  <2>1. \A t \in Thread : pc[t] = "writeBarrier"
    BY <1>6 DEF WriteBarrier, Barrier, At
  <2>2. lockstep = 1 /\ 0 \in Thread
    <3>1. 0 \in Thread
      BY GroupAssumption DEF Thread
    <3> QED
      BY <2>1, <3>1 DEF Control, PlaceOK
  <2>3. \A s, t \in Thread : skip[s] = skip[t]
    BY <2>1, <2>2 DEF Control, DistanceAt, Loop
  <2> DEFINE d == 2 * skip[0]
             next == AfterIteration(d)
             j == [t \in Thread |-> d]
  <2>4. \A t \in Thread : 2 * skip[t] = d /\ j[t] = d
    BY <1>2, <2>2, <2>3
  <2>5. /\ skip' = [t \in Thread |-> j[t]] /\ pc' = [t \in Thread |-> next]
        /\ pass' = [t \in Thread |-> p] /\ UNCHANGED <<width, acc, own>>
    BY <1>2, <1>6, <2>4 DEF WriteBarrier, Goto, device
  <2>6. next \in {"read", "blockBarrier"}
    BY DEF AfterIteration
  <2> HIDE DEF d, next, j
  <2>7. \A t \in Thread : HasPart(p, t) => Part(tot, next, p, t, j[t], acc[t], own[p][t])
    <3> SUFFICES ASSUME NEW t \in Thread, HasPart(p, t)
                 PROVE  Part(tot, next, p, t, j[t], acc[t], own[p][t])
      OBVIOUS
    <3>1. acc[t] = Value(tot, p, t, 2 * skip[t]) /\ own[p][t] = Value(tot, p, t, 2 * skip[t])
      BY <1>4, <2>1 DEF Part
    <3> QED
      BY <2>4, <2>6, <3>1 DEF Part
  <2>8. \A t \in Thread : InBounds(t) => /\ Block(tot, next, p, t, own[1][t])
                                         /\ Result(tot, next, t, acc[t])
    BY <1>4, <2>1, <2>6 DEF Block, Result, Loop
  <2>9. \A t \in Thread : Full(t) => Total(tot, next, t, acc[t])
    BY <2>6 DEF Total
  <2> QED
    BY <1>2, <2>5, <2>7, <2>8, <2>9, BarrierData
<1>7. CASE BlockBarrier
  <2> DEFINE next == IF p = 1 THEN "pack" ELSE "carryRead"
  <2>1. 0 \in Thread /\ \A t \in Thread : pc[t] = "blockBarrier" /\ skip[t] \in Nat /\ BlockSize <= skip[t]
    <3>1. \A t \in Thread : pc[t] = "blockBarrier"
      BY <1>7 DEF BlockBarrier, Barrier, At
    <3> QED
      BY <1>2, <3>1, GroupAssumption DEF Control, PlaceOK, Thread
  <2>2. /\ skip' = [t \in Thread |-> k[t]] /\ pc' = [t \in Thread |-> next]
        /\ pass' = [t \in Thread |-> p] /\ UNCHANGED <<width, acc, own>>
    BY <1>1, <1>2, <1>3, <1>7 DEF BlockBarrier, Goto, device
  <2>3. \A t \in Thread : Part(tot, next, p, t, k[t], acc[t], own[p][t])
    BY DEF Part
  <2>4. ASSUME NEW t \in Thread, InBounds(t)
        PROVE  Block(tot, next, p, t, own[1][t]) /\ Result(tot, next, t, acc[t])
    <3>1. CASE p = 1
      <4>1. own[1][t] = Value(tot, 1, t, skip[t])
        <5>1. HasPart(1, t)
          BY <2>4 DEF HasPart, InBounds
        <5> QED
          BY <1>4, <2>1, <3>1, <5>1 DEF Part
      <4> DEFINE d == skip[t]
      <4>2. d \in Nat /\ BlockSize <= d
        BY <2>1
      <4> HIDE DEF d
      <4>3. Value(tot, 1, t, d) = tot[Lead(t)][t]
        BY <4>2, WholeBlock
      <4>4. own[1][t] = tot[Lead(t)][t]
        BY <4>1, <4>3 DEF d
      <4> QED
        BY <3>1, <4>4 DEF Block, Result
    <3>2. CASE p # 1
      <4>1. own[1][t] = tot[Lead(t)][t]
        BY <1>4, <2>1, <2>4, <3>2 DEF Block
      <4> QED
        BY <3>2, <4>1 DEF Block, Result
    <3> QED
      BY <3>1, <3>2
  <2>5. ASSUME NEW t \in Thread, Full(t)
        PROVE  Total(tot, next, t, acc[t])
    <3>1. CASE p = 1
      BY <3>1 DEF Total
    <3>2. CASE p # 1
      <4>1. IsFirstBlock(t) /\ HasPart(2, t)
        BY <1>2, <2>5, LastOfFull DEF HasPart, Thread
      <4>2. acc[t] = Value(tot, 2, t, skip[t])
        BY <1>4, <2>1, <3>2, <4>1 DEF Part
      <4> DEFINE d == skip[t]
      <4>3. d \in Nat /\ BlockSize <= d
        BY <2>1
      <4> HIDE DEF d
      <4>4. Value(tot, 2, t, d) = tot[0][Last(t)]
        BY <4>1, <4>3, WholeBlock
      <4>5. acc[t] = tot[0][Last(t)]
        BY <4>2, <4>4 DEF d
      <4> QED
        BY <3>2, <4>5 DEF Total
    <3> QED
      BY <3>1, <3>2
  <2> HIDE DEF next
  <2> QED
    BY <1>2, <2>2, <2>3, <2>4, <2>5, BarrierData
<1>8. CASE PackBarrier
  <2>1. \A t \in Thread : pc[t] = "packBarrier"
    BY <1>8 DEF PackBarrier, Barrier, At
  <2>2. /\ skip' = [t \in Thread |-> k[t]] /\ pc' = [t \in Thread |-> "mine"]
        /\ pass' = [t \in Thread |-> 2] /\ UNCHANGED <<width, acc, own>>
    BY <1>3, <1>8 DEF PackBarrier, GotoAll, device
  <2>3. \A t \in Thread : HasPart(2, t) => Part(tot, "mine", 2, t, k[t], acc[t], own[2][t])
    <3> SUFFICES ASSUME NEW t \in Thread, HasPart(2, t)
                 PROVE  Part(tot, "mine", 2, t, k[t], acc[t], own[2][t])
      OBVIOUS
    <3>1. Full(t) /\ Last(t) \in Thread
      BY <1>4 DEF HasPart
    <3>2. acc[t] = tot[t * BlockSize][Last(t)]
      BY <1>4, <2>1, <3>1 DEF Total
    <3>3. acc[t] = Value(tot, 2, t, 1)
      BY <3>2, Alone
    <3> QED
      BY <3>3 DEF Part
  <2>4. \A t \in Thread : InBounds(t) => /\ Block(tot, "mine", 2, t, own[1][t])
                                         /\ Result(tot, "mine", t, acc[t])
    BY <1>4, <2>1 DEF Block, Result
  <2>5. \A t \in Thread : Full(t) => Total(tot, "mine", t, acc[t])
    BY DEF Total
  <2> QED
    BY <1>2, <2>2, <2>3, <2>4, <2>5, BarrierData
<1>9. CASE CarryBarrier
  <2>1. \A t \in Thread : pc[t] = "carryBarrier"
    BY <1>9 DEF CarryBarrier, Barrier, At
  <2>2. /\ skip' = [t \in Thread |-> k[t]] /\ pc' = [t \in Thread |-> "restore"]
        /\ pass' = [t \in Thread |-> p] /\ UNCHANGED <<width, acc, own>>
    BY <1>2, <1>3, <1>9 DEF CarryBarrier, GotoAll, device
  <2>3. \A t \in Thread : Part(tot, "restore", p, t, k[t], acc[t], own[p][t])
    BY DEF Part
  <2>4. \A t \in Thread : InBounds(t) => /\ Block(tot, "restore", p, t, own[1][t])
                                         /\ Result(tot, "restore", t, acc[t])
    BY <1>4, <2>1 DEF Block, Result, Loop
  <2>5. \A t \in Thread : Full(t) => Total(tot, "restore", t, acc[t])
    BY DEF Total
  <2> QED
    BY <1>2, <2>2, <2>3, <2>4, <2>5, BarrierData
<1> QED
  BY <1>5, <1>6, <1>7, <1>8, <1>9 DEF Sync

LEMMA WaveStepData ==
  ASSUME NEW tot, Adds(tot), Control, Data(tot), NEW T \in Waves, WaveStep(T)
  PROVE  Data(tot)'
BY ReadMineData, ReadOtherData, WriteData, PackData, ReadCarryData, WriteCarryData, RestoreData
   DEF WaveStep

-----------------------------------------------------------------------------
(* The array of GroupScan has one element in each place.                    *)
Sums == [a \in Thread |-> [b \in Thread |-> Elements(a, b)]]

LEMMA SumsAdd == Adds(Sums)
<1> SUFFICES ASSUME NEW a \in Thread, NEW b \in Thread, NEW c \in Thread, a <= b, b < c
             PROVE  Sums[a][b] \o Sums[b + 1][c] = Sums[a][c]
  BY DEF Adds
<1>1. a \in Int /\ b \in Int /\ c \in Int /\ GroupSize \in Nat
  BY GroupAssumption DEF Thread
<1>2. b + 1 \in Thread
  BY <1>1 DEF Thread
<1>3. Sums[a][b] = Elements(a, b) /\ Sums[b + 1][c] = Elements(b + 1, c) /\ Sums[a][c] = Elements(a, c)
  BY <1>2 DEF Sums
<1> DEFINE d == b + 1
<1>4. d \in Int /\ a <= d /\ d - 1 <= c /\ d - 1 = b
  BY <1>1
<1> HIDE DEF d
<1>5. Elements(a, d - 1) \o Elements(d, c) = Elements(a, c)
  BY <1>1, <1>4, ElementsConcat
<1> QED
  BY <1>3, <1>4, <1>5 DEF d

LEMMA InitData ==
  ASSUME Init
  PROVE  Data(Sums)
<1>1. \A t \in Thread : pc[t] = "mine" /\ pass[t] = 1
  BY DEF Init
<1>2. Shape
  BY InitControl DEF Control
<1>3. ASSUME NEW t \in Thread, HasPart(1, t)
      PROVE  acc[t] = Value(Sums, 1, t, 1)
  <2>1. acc[t] = <<t>>
    BY <1>3 DEF Init, HasPart, InBounds
  <2>2. Value(Sums, 1, t, 1) = Sums[t][t]
    BY Alone
  <2>3. Elements(t, t) = <<t>>
    BY ElementsOne DEF Thread
  <2> QED
    BY <2>1, <2>2, <2>3 DEF Sums
<1>4. \A t \in Thread : HasPart(1, t) => Part(Sums, "mine", 1, t, skip[t], acc[t], own[1][t])
  BY <1>3 DEF Part
<1>5. \A t \in Thread : Block(Sums, "mine", 1, t, own[1][t]) /\ Result(Sums, "mine", t, acc[t])
  BY DEF Block, Result
<1>6. \A t \in Thread : Full(t) => Total(Sums, pc[Last(t)], t, acc[t])
  BY <1>1, <1>2, LastOfFull DEF Total, Thread
<1> QED
  BY <1>1, <1>4, <1>5, <1>6 DEF Data

ScanInv == Control /\ Data(Sums)

LEMMA InitScan == Init => ScanInv
BY InitControl, InitData DEF ScanInv

LEMMA NextScan == ScanInv /\ [Next]_vars => ScanInv'
<1> SUFFICES ASSUME Control, Data(Sums), [Next]_vars PROVE Control' /\ Data(Sums)'
  BY DEF ScanInv
<1>1. ASSUME NEW T \in Waves, WaveStep(T) PROVE Control' /\ Data(Sums)'
  BY <1>1, WaveStepControl, WaveStepData, SumsAdd
<1>2. ASSUME Sync PROVE Control' /\ Data(Sums)'
  BY <1>2, SyncControl, SyncData
<1>3. CASE UNCHANGED vars
  <2>1. Control'
    BY <1>3 DEF vars, Control, Shape, PlaceOK, PhaseOf, DistanceAt
  <2>2. Data(Sums)'
    BY <1>3 DEF vars, Data, HasPart, Full, InBounds
  <2> QED
    BY <2>1, <2>2
<1> QED
  BY <1>1, <1>2, <1>3 DEF Next

LEMMA ScanInvariance == Spec => []ScanInv
BY InitScan, NextScan, PTL DEF Spec

LEMMA ScanInvExact == ScanInv => OwnResult
<1> SUFFICES ASSUME ScanInv, NEW t \in Thread, pc[t] = "scanned", InBounds(t)
             PROVE  acc[t] = Elements(0, t)
  BY DEF OwnResult
<1>1. acc[t] = Sums[0][t]
  BY DEF ScanInv, Data, Result
<1>2. 0 \in Thread
  BY GroupAssumption DEF Thread
<1> QED
  BY <1>1, <1>2 DEF Sums

(* A thread that is through finds the scan of its element and all before it *)
(* at its index, for groups, blocks, arrays and lockstep widths of any      *)
(* size: the other threads neither disturb it nor are read too early.       *)
THEOREM ScanIsRight == Spec => []OwnResult
BY ScanInvExact, ScanInvariance, PTL

(* Only the threads of the first block write an index without asking if it  *)
(* is within the array, and the indices they write are just theirs.         *)
LEMMA InsideKept ==
  ASSUME Shape, BlockSize <= width, InsideArray, NEW T \in Waves, WaveStep(T)
  PROVE  InsideArray'
<1>1. T \subseteq Thread
  BY OneWave
<1>2. width' = width
  BY DEF WaveStep, ReadMine, ReadOther, Write, Pack, ReadCarry, WriteCarry, Restore, device
<1> SUFFICES ASSUME NEW i \in Thread, ~ InBounds(i), acc[i] = Other
             PROVE  acc'[i] = Other
  BY <1>2 DEF InsideArray, InBounds
<1>3. CASE ReadMine(T) \/ ReadOther(T) \/ ReadCarry(T)
  BY <1>3 DEF ReadMine, ReadOther, ReadCarry
<1>4. CASE Write(T)
  <2>1. ~ \E t \in T : TakesPart(t) /\ Self(t) = i
    BY DEF TakesPart, Active, Self
  <2> QED
    BY <1>4, <2>1 DEF Write, Store
<1>5. CASE Pack(T)
  <2>1. ~ \E t \in T : Packs(t) /\ BlockId(t) = i
    <3> SUFFICES ASSUME NEW t \in T, Packs(t), BlockId(t) = i PROVE FALSE
      OBVIOUS
    <3>1. i <= t /\ t \in Nat /\ i \in Nat
      BY <1>1, BlockOf DEF Thread
    <3> QED
      BY <3>1 DEF Packs, InBounds, Shape
  <2> QED
    BY <1>5, <2>1 DEF Pack, Store
<1>6. CASE WriteCarry(T)
  <2>1. ~ \E t \in T : Carries(t) /\ Self(t) = i
    BY DEF Carries, Self
  <2> QED
    BY <1>6, <2>1 DEF WriteCarry, Store
<1>7. CASE Restore(T)
  <2>1. ~ \E t \in T : IsFirstBlock(t) /\ Self(t) = i
    <3> SUFFICES ASSUME IsFirstBlock(i) PROVE FALSE
      BY DEF Self
    <3> QED
      BY FirstBlock, GroupAssumption DEF InBounds, Shape, Thread
  <2> QED
    BY <1>7, <2>1 DEF Restore, Store
<1> QED
  BY <1>3, <1>4, <1>5, <1>6, <1>7 DEF WaveStep

Inside == Shape /\ BlockSize <= width /\ InsideArray

LEMMA InitInside ==
  ASSUME \A w \in Widths : BlockSize <= w
  PROVE  Init => Inside
BY InitControl DEF Init, Inside, InsideArray, InBounds, Control

LEMMA NextInside == Inside /\ [Next]_vars => Inside'
<1> SUFFICES ASSUME Inside, [Next]_vars PROVE Inside'
  OBVIOUS
<1>1. ASSUME NEW T \in Waves, WaveStep(T) PROVE Inside'
  <2>1. UNCHANGED device
    BY <1>1 DEF WaveStep, ReadMine, ReadOther, Write, Pack, ReadCarry, WriteCarry, Restore
  <2> QED
    BY <1>1, <2>1, InsideKept DEF Inside, device, Shape
<1>2. ASSUME Sync PROVE Inside'
  BY <1>2 DEF Sync, ReadBarrier, WriteBarrier, BlockBarrier, PackBarrier, CarryBarrier, device,
              Inside, Shape, InsideArray, InBounds
<1>3. CASE UNCHANGED vars
  BY <1>3 DEF vars, Inside, Shape, InsideArray, InBounds
<1> QED
  BY <1>1, <1>2, <1>3 DEF Next

(* What lies behind the array in local memory is another array's, and       *)
(* stays as it is: if no array is shorter than a block, all of whose        *)
(* threads take part in the restoration.                                    *)
THEOREM ScanStaysInside ==
  ASSUME \A w \in Widths : BlockSize <= w
  PROVE  Spec => []InsideArray
<1>1. Init => Inside
  BY InitInside
<1>2. Inside => InsideArray
  BY DEF Inside
<1> QED
  BY <1>1, <1>2, NextInside, PTL DEF Spec
=============================================================================
