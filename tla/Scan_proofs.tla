----------------------------- MODULE Scan_proofs -----------------------------
(***************************************************************************)
(* Proofs about a scan on the device: the three kernels of BlockedScan,    *)
(* and the waves of a group of the first of them, ScanKernel.              *)
(***************************************************************************)
EXTENDS ScanMC, GroupScan_proofs

-----------------------------------------------------------------------------
(* All of a scan.                                                           *)

(* What is launched: parts that follow each other and cover the input.      *)
Sizes == groupSize \in Nat \ {0} /\ maxGroups \in Nat \ {0} /\ w \in Nat

Parts == Blocked!Launched
Length == Blocked!ElemsPerGroup

(* Where the part of group g starts.                                        *)
Base(g) == g * Length

LEMMA RoundedUp ==
  ASSUME NEW x \in Nat, NEW y \in Nat \ {0}
  PROVE  /\ Blocked!DivRoundingUp(x, y) \in Nat
         /\ x <= Blocked!DivRoundingUp(x, y) * y
<1> DEFINE q == (x + y - 1) \div y
<1>1. x + y - 1 \in Nat
  OBVIOUS
<1>2. q \in Nat /\ x + y - 1 < y * q + y
  BY <1>1, Division
<1> HIDE DEF q
<1>3. y * q = q * y /\ y * q \in Nat
  BY <1>2
<1>4. x <= q * y
  BY <1>2, <1>3
<1> QED
  BY <1>2, <1>4 DEF q, Blocked!DivRoundingUp

LEMMA PartsCover ==
  ASSUME Sizes
  PROVE  /\ Parts \in Nat \ {0} /\ Length \in Nat /\ w <= Parts * Length
         /\ Blocked!NumIterations \in Nat
         /\ Length = Blocked!NumIterations * groupSize
<1> DEFINE n == Blocked!NumIterations
           p == Parts
<1>1. p \in Nat \ {0}
  <2>1. Blocked!DivRoundingUp(w, groupSize) \in Nat
    BY RoundedUp DEF Sizes
  <2> QED
    BY <2>1 DEF Sizes, Parts, Blocked!Launched, Blocked!NumberOfGroups, Blocked!AtMost, Blocked!AtLeast
<1>2. Blocked!NumThreads = p * groupSize
  BY DEF Parts, Blocked!NumThreads
<1> HIDE DEF p
<1>3. p * groupSize \in Nat \ {0} /\ groupSize \in Nat
  BY <1>1 DEF Sizes
<1>4. n \in Nat /\ w <= n * (p * groupSize)
  BY <1>2, <1>3, RoundedUp DEF Sizes, Blocked!NumIterations
<1> HIDE DEF n
<1>5. n * (p * groupSize) = p * (n * groupSize) /\ n * groupSize \in Nat
  BY <1>1, <1>3, <1>4
<1> QED
  BY <1>1, <1>4, <1>5 DEF n, p, Length, Blocked!ElemsPerGroup

LEMMA BaseType ==
  ASSUME Sizes, NEW g \in Nat
  PROVE  Base(g) \in Nat /\ Base(g + 1) = Base(g) + Length /\ Base(0) = 0
<1>1. Length \in Nat
  BY PartsCover
<1> QED
  BY <1>1, Products DEF Base

LEMMA BaseGrows ==
  ASSUME Sizes, NEW g \in Nat, NEW h \in Nat, g < h
  PROVE  Base(g) + Length <= Base(h)
<1>1. Length \in Nat
  BY PartsCover
<1>2. (g + 1) * Length <= h * Length
  BY <1>1, ProductMonotonic
<1>3. Base(g + 1) = Base(g) + Length
  BY BaseType
<1> QED
  BY <1>2, <1>3 DEF Base

(* The part an element is in is the quotient of the last kernel.            *)
PartOf(j) == j \div Length

LEMMA PartOfIndex ==
  ASSUME Sizes, NEW j \in Blocked!Index
  PROVE  PartOf(j) \in Blocked!Group /\ Base(PartOf(j)) <= j /\ j < Base(PartOf(j)) + Length
<1>1. j \in Nat /\ j < w /\ w \in Nat
  BY DEF Sizes, Blocked!Index
<1>2. Parts \in Nat \ {0} /\ Length \in Nat /\ w <= Parts * Length
  BY PartsCover
<1>3. Length # 0
  BY <1>1, <1>2
<1> DEFINE q == j \div Length
<1>4. q \in Nat /\ Length * q <= j /\ j < Length * q + Length
  BY <1>1, <1>2, <1>3, Division
<1> HIDE DEF q
<1>5. Length * q = q * Length /\ q * Length \in Nat
  BY <1>2, <1>4
<1>6. q < Parts
  <2> SUFFICES ASSUME Parts <= q PROVE FALSE
    BY <1>2, <1>4
  <2>1. Parts * Length <= q * Length
    BY <1>2, <1>4, ProductMonotonic
  <2> QED
    BY <1>1, <1>2, <1>4, <1>5, <2>1
<1>7. q \in 0..Blocked!Launched - 1
  BY <1>2, <1>4, <1>6 DEF Parts
<1> QED
  BY <1>4, <1>5, <1>7 DEF q, PartOf, Base, Blocked!Group

LEMMA PartOfUnique ==
  ASSUME Sizes, NEW j \in Blocked!Index, NEW g \in Nat, Base(g) <= j, j < Base(g) + Length
  PROVE  PartOf(j) = g
<1>1. /\ PartOf(j) \in Nat /\ Base(PartOf(j)) <= j /\ j < Base(PartOf(j)) + Length
      /\ j \in Nat
  BY PartOfIndex DEF Blocked!Group, Blocked!Index
<1>2. ASSUME PartOf(j) < g PROVE FALSE
  BY <1>1, <1>2, BaseGrows, BaseType, PartsCover
<1>3. ASSUME g < PartOf(j) PROVE FALSE
  BY <1>1, <1>3, BaseGrows, BaseType, PartsCover
<1> QED
  BY <1>1, <1>2, <1>3

-----------------------------------------------------------------------------
(* What the iterations of the groups have done, in whatever order: a group  *)
(* that has folded the elements before Reach(g) carries the scan of its     *)
(* part so far, and has written it for each element.                        *)
Reach(g) == Blocked!AtMost(Blocked!First(g), w)

Carried == carry = [g \in Blocked!Group |-> Elements(Base(g), Reach(g) - 1)]

Written ==
  seqScanned = [j \in Blocked!Index |->
                  IF j < Blocked!First(PartOf(j)) THEN Elements(Base(PartOf(j)), j) ELSE Garbage]

(* What the second kernel leaves, when the groups have ended, ...           *)
Scanned ==
  /\ \A g \in Blocked!Group : rounds[g] = Blocked!NumIterations
  /\ carryScanned = [g \in Blocked!Group |-> Elements(0, Blocked!AtMost(Base(g + 1), w) - 1)]

(* ... and the third.                                                       *)
BlockedInv ==
  /\ Sizes
  /\ stage \in {"scan1", "map", "end"}
  /\ rounds \in [Blocked!Group -> 0..Blocked!NumIterations]
  /\ Carried
  /\ Written
  /\ stage # "scan1" => Scanned
  /\ Blocked!ResultExact

LEMMA SameElements ==
  ASSUME NEW a \in Int, NEW b \in Int
  PROVE  Blocked!Elements(a, b) = Elements(a, b)
<1>1. 1..Blocked!AtLeast(b - a + 1, 0) = 1..b - a + 1
  BY DEF Blocked!AtLeast
<1> QED
  BY <1>1 DEF Blocked!Elements, Elements

LEMMA FirstType ==
  ASSUME Sizes, rounds \in [Blocked!Group -> 0..Blocked!NumIterations], NEW g \in Blocked!Group
  PROVE  /\ g \in Nat
         /\ Blocked!First(g) = Base(g) + rounds[g] * groupSize
         /\ Blocked!First(g) \in Nat /\ Base(g) <= Blocked!First(g)
         /\ Blocked!First(g) <= Base(g) + Length
         /\ rounds[g] < Blocked!NumIterations => Blocked!First(g) + groupSize <= Base(g) + Length
         /\ rounds[g] = Blocked!NumIterations => Blocked!First(g) = Base(g) + Length
<1> DEFINE n == Blocked!NumIterations
           f == Blocked!First(g)
           k == rounds[g]
<1>1. /\ n \in Nat /\ Length = n * groupSize /\ groupSize \in Nat
  BY PartsCover DEF Sizes
<1>2. g \in Nat
  BY PartsCover DEF Blocked!Group, Parts
<1>3. k \in Nat /\ k <= n
  BY <1>1
<1>4. f = g * n * groupSize + k * groupSize
  BY DEF Blocked!First
<1>5. Base(g) \in Nat
  BY <1>2, BaseType
<1> HIDE DEF n, f, k
<1>6. g * n * groupSize = Base(g)
  BY <1>1, <1>2, Products DEF Base
<1>7. k * groupSize \in Nat /\ k * groupSize <= n * groupSize
  BY <1>1, <1>3, Products, ProductMonotonic
<1>8. ASSUME k < n PROVE k * groupSize + groupSize <= n * groupSize
  <2>1. k + 1 <= n /\ k + 1 \in Nat
    BY <1>1, <1>3, <1>8
  <2>2. (k + 1) * groupSize <= n * groupSize
    BY <1>1, <2>1, ProductMonotonic
  <2> QED
    BY <1>1, <1>3, <2>2, Products
<1>9. f = Base(g) + k * groupSize
  BY <1>4, <1>6
<1>10. n * groupSize \in Nat
  BY <1>1, Products
<1> DEFINE x == k * groupSize
           y == n * groupSize
<1>11. x \in Nat /\ y \in Nat /\ x <= y /\ (k < n => x + groupSize <= y) /\ (k = n => x = y) /\ f = Base(g) + x
       /\ Length = y
  BY <1>1, <1>7, <1>8, <1>9, <1>10
<1> HIDE DEF x, y
<1>12. /\ f \in Nat /\ Base(g) <= f /\ f <= Base(g) + Length
       /\ k < n => f + groupSize <= Base(g) + Length
       /\ k = n => f = Base(g) + Length
  BY <1>1, <1>5, <1>11
<1> QED
  BY <1>2, <1>9, <1>12 DEF n, f, k

LEMMA InitBlocked == Blocked!Init => BlockedInv
<1> SUFFICES ASSUME Blocked!Init PROVE BlockedInv
  OBVIOUS
<1>1. Sizes
  BY LaunchesAssumption DEF Blocked!Init, Blocked!LaunchesOK, Sizes
<1>2. rounds = [g \in Blocked!Group |-> 0] /\ Blocked!NumIterations \in Nat
  BY <1>1, PartsCover DEF Blocked!Init
<1>3. rounds \in [Blocked!Group -> 0..Blocked!NumIterations]
  BY <1>2
<1>4. \A g \in Blocked!Group : Blocked!First(g) = Base(g) /\ Base(g) \in Nat
  <2> SUFFICES ASSUME NEW g \in Blocked!Group
               PROVE  Blocked!First(g) = Base(g) /\ Base(g) \in Nat
    OBVIOUS
  <2>1. g \in Nat /\ Blocked!First(g) = Base(g) + rounds[g] * groupSize
    BY <1>1, <1>3, FirstType
  <2>2. rounds[g] = 0 /\ groupSize \in Nat /\ Base(g) \in Nat
    BY <1>1, <1>2, <2>1, BaseType DEF Sizes
  <2> QED
    BY <2>1, <2>2
<1>5. Carried
  <2> SUFFICES ASSUME NEW g \in Blocked!Group PROVE Elements(Base(g), Reach(g) - 1) = <<>>
    BY DEF Carried, Blocked!Init
  <2>1. Base(g) \in Nat /\ Reach(g) - 1 < Base(g) /\ Reach(g) - 1 \in Int
    BY <1>1, <1>4 DEF Reach, Blocked!AtMost, Sizes
  <2> QED
    BY <2>1, ElementsEmpty
<1>6. Written
  <2>1. \A j \in Blocked!Index : ~ (j < Blocked!First(PartOf(j)))
    <3> SUFFICES ASSUME NEW j \in Blocked!Index PROVE ~ (j < Blocked!First(PartOf(j)))
      OBVIOUS
    <3>1. PartOf(j) \in Blocked!Group /\ Base(PartOf(j)) <= j
      BY <1>1, PartOfIndex
    <3>2. Blocked!First(PartOf(j)) = Base(PartOf(j)) /\ Base(PartOf(j)) \in Nat
      BY <1>4, <3>1
    <3>3. j \in Int
      BY DEF Blocked!Index
    <3> QED
      BY <3>1, <3>2, <3>3
  <2>2. seqScanned = [j \in Blocked!Index |-> Garbage]
    BY DEF Blocked!Init, Blocked!Scratch, Garbage
  <2> QED
    BY <2>1, <2>2 DEF Written
<1>7. stage = "scan1"
  BY DEF Blocked!Init
<1> QED
  BY <1>1, <1>3, <1>5, <1>6, <1>7 DEF BlockedInv, Blocked!ResultExact

(* The elements of an iteration belong to the part of its group, and none   *)
(* of them has been written: it starts behind those that have been.         *)
LEMMA ChunkIsNew ==
  ASSUME BlockedInv, NEW g \in Blocked!Group, rounds[g] < Blocked!NumIterations,
         NEW j \in Blocked!Chunk(g)
  PROVE  j \in Blocked!Index /\ PartOf(j) = g /\ Blocked!First(g) <= j /\ seqScanned[j] = Garbage
<1>1. Sizes /\ rounds \in [Blocked!Group -> 0..Blocked!NumIterations]
  BY DEF BlockedInv
<1>2. /\ g \in Nat /\ Blocked!First(g) \in Nat /\ Base(g) <= Blocked!First(g)
      /\ Blocked!First(g) + groupSize <= Base(g) + Length
  BY <1>1, FirstType
<1>3. j \in Blocked!Index /\ Blocked!First(g) <= j /\ j < Blocked!First(g) + groupSize
  BY DEF Blocked!Chunk
<1>4. j \in Int /\ Base(g) \in Nat /\ Length \in Nat /\ groupSize \in Nat
  BY <1>1, <1>2, <1>3, BaseType, PartsCover DEF Blocked!Index, Sizes
<1>5. Base(g) <= j /\ j < Base(g) + Length
  BY <1>2, <1>3, <1>4
<1>6. PartOf(j) = g
  BY <1>1, <1>2, <1>3, <1>5, PartOfUnique
<1>7. ~ (j < Blocked!First(PartOf(j)))
  BY <1>2, <1>3, <1>4, <1>6
<1> QED
  BY <1>3, <1>6, <1>7 DEF BlockedInv, Written

(* Concatenation, where the second part may be empty or beyond the input.   *)
LEMMA ConcatUpTo ==
  ASSUME NEW a \in Nat, NEW b \in Nat, NEW c \in Nat, NEW n \in Nat, a <= b, b <= c
  PROVE  Elements(a, Blocked!AtMost(b, n) - 1) \o Elements(b, Blocked!AtMost(c, n) - 1)
           = Elements(a, Blocked!AtMost(c, n) - 1)
<1>1. CASE b <= n
  <2>1. Blocked!AtMost(b, n) = b /\ Blocked!AtMost(c, n) \in Nat /\ b <= Blocked!AtMost(c, n)
    BY <1>1 DEF Blocked!AtMost
  <2>2. Blocked!AtMost(c, n) - 1 \in Int /\ b - 1 <= Blocked!AtMost(c, n) - 1
    BY <2>1
  <2> DEFINE d == Blocked!AtMost(c, n) - 1
  <2> HIDE DEF d
  <2>3. d \in Int /\ b - 1 <= d
    BY <2>2 DEF d
  <2>4. Elements(a, b - 1) \o Elements(b, d) = Elements(a, d)
    BY <2>3, ElementsConcat
  <2> QED
    BY <2>1, <2>4 DEF d
<1>2. CASE n < b
  <2>1. Blocked!AtMost(b, n) = n /\ Blocked!AtMost(c, n) = n
    BY <1>2 DEF Blocked!AtMost
  <2>2. Elements(b, n - 1) = <<>>
    BY <1>2, ElementsEmpty
  <2>3. Elements(a, n - 1) \in Seq(Int)
    BY ElementsSeq
  <2> DEFINE e == Elements(a, n - 1)
  <2> HIDE DEF e
  <2>4. e \o <<>> = e
    BY <2>3, ConcatEmptySeq DEF e
  <2> QED
    BY <2>1, <2>2, <2>4 DEF e
<1> QED
  BY <1>1, <1>2

LEMMA IterateBlocked ==
  ASSUME BlockedInv, NEW g \in Blocked!Group, Blocked!Iterate(g)
  PROVE  BlockedInv'
<1>1. /\ Sizes /\ rounds \in [Blocked!Group -> 0..Blocked!NumIterations]
      /\ rounds[g] < Blocked!NumIterations /\ stage = "scan1"
      /\ UNCHANGED <<groupSize, maxGroups, w, stage, carryScanned, result>>
  BY DEF BlockedInv, Blocked!Iterate, Blocked!launch
<1>2. /\ Blocked!Group' = Blocked!Group /\ Blocked!Index' = Blocked!Index
      /\ Blocked!NumIterations' = Blocked!NumIterations /\ Length' = Length
      /\ \A h : Base(h)' = Base(h)
      /\ \A j : PartOf(j)' = PartOf(j)
  BY <1>1 DEF Blocked!Group, Blocked!Index, Blocked!NumIterations, Length, Blocked!ElemsPerGroup, Base,
              PartOf, Blocked!Launched, Blocked!NumThreads
<1>3. Sizes'
  BY <1>1 DEF Sizes
<1>4. rounds' = [rounds EXCEPT ![g] = @ + 1]
  BY DEF Blocked!Iterate
<1>5. rounds' \in [Blocked!Group -> 0..Blocked!NumIterations]
  <2>1. Blocked!NumIterations \in Nat
    BY <1>1, PartsCover
  <2> QED
    BY <1>1, <1>4, <2>1
<1>6. \A h \in Blocked!Group : h # g => Blocked!First(h)' = Blocked!First(h)
  BY <1>1, <1>2, <1>4 DEF Blocked!First
<1>7. Blocked!First(g)' = Blocked!First(g) + groupSize
  <2>1. Blocked!First(g) = g * Blocked!NumIterations * groupSize + rounds[g] * groupSize
    BY DEF Blocked!First
  <2>2. Blocked!First(g)' = g * Blocked!NumIterations * groupSize + (rounds[g] + 1) * groupSize
    BY <1>1, <1>2, <1>4 DEF Blocked!First
  <2>3. (rounds[g] + 1) * groupSize = rounds[g] * groupSize + groupSize /\ rounds[g] * groupSize \in Nat
    <3>1. rounds[g] \in Nat /\ groupSize \in Nat
      BY <1>1, PartsCover DEF Sizes
    <3> QED
      BY <3>1, Products
  <2>4. g * Blocked!NumIterations * groupSize \in Nat
    <3>1. g \in Nat /\ Blocked!NumIterations \in Nat /\ groupSize \in Nat
      BY <1>1, FirstType, PartsCover DEF Sizes
    <3>2. g * Blocked!NumIterations \in Nat
      BY <3>1, Products
    <3> QED
      BY <3>1, <3>2, Products
  <2> DEFINE x == g * Blocked!NumIterations * groupSize
             y == rounds[g] * groupSize
  <2>5. Blocked!First(g) = x + y /\ Blocked!First(g)' = x + (y + groupSize) /\ x \in Nat /\ y \in Nat
    BY <2>1, <2>2, <2>3, <2>4
  <2>6. groupSize \in Nat
    BY <1>1 DEF Sizes
  <2> HIDE DEF x, y
  <2> QED
    BY <2>5, <2>6
<1>8. /\ g \in Nat /\ Base(g) \in Nat /\ Blocked!First(g) \in Nat /\ Base(g) <= Blocked!First(g)
      /\ groupSize \in Nat /\ w \in Nat
  BY <1>1, FirstType, BaseType DEF Sizes
<1>9. Carried'
  <2>1. carry' = [carry EXCEPT ![g] = @ \o Elements(Blocked!First(g), Blocked!LastOf(g))]
    <3>1. Blocked!LastOf(g) \in Int
      BY <1>8 DEF Blocked!LastOf, Blocked!AtMost
    <3>2. Blocked!Elements(Blocked!First(g), Blocked!LastOf(g)) = Elements(Blocked!First(g), Blocked!LastOf(g))
      BY <1>8, <3>1, SameElements
    <3> QED
      BY <3>2 DEF Blocked!Iterate
  <2>2. carry = [h \in Blocked!Group |-> Elements(Base(h), Reach(h) - 1)]
    BY DEF BlockedInv, Carried
  <2>3. carry'[g] = Elements(Base(g), Reach(g)' - 1)
    <3>1. carry'[g] = Elements(Base(g), Blocked!AtMost(Blocked!First(g), w) - 1)
                        \o Elements(Blocked!First(g), Blocked!AtMost(Blocked!First(g) + groupSize, w) - 1)
      BY <2>1, <2>2 DEF Reach, Blocked!LastOf
    <3>2. Blocked!First(g) + groupSize \in Nat /\ Blocked!First(g) <= Blocked!First(g) + groupSize
      BY <1>8
    <3>3. carry'[g] = Elements(Base(g), Blocked!AtMost(Blocked!First(g) + groupSize, w) - 1)
      <4> DEFINE f == Blocked!First(g)
                 b == Base(g)
      <4>1. f \in Nat /\ b \in Nat /\ b <= f /\ f + groupSize \in Nat /\ f <= f + groupSize /\ w \in Nat
        BY <1>8, <3>2
      <4> HIDE DEF f, b
      <4>2. Elements(b, Blocked!AtMost(f, w) - 1) \o Elements(f, Blocked!AtMost(f + groupSize, w) - 1)
              = Elements(b, Blocked!AtMost(f + groupSize, w) - 1)
        BY <4>1, ConcatUpTo
      <4> QED
        BY <3>1, <4>2 DEF f, b
    <3>4. Reach(g)' = Blocked!AtMost(Blocked!First(g) + groupSize, w)
      BY <1>1, <1>7 DEF Reach, Blocked!AtMost
    <3> QED
      BY <3>3, <3>4
  <2>4. \A h \in Blocked!Group : h # g => carry'[h] = Elements(Base(h), Reach(h)' - 1)
    <3>1. \A h \in Blocked!Group : h # g => Reach(h)' = Reach(h)
      BY <1>1, <1>6 DEF Reach, Blocked!AtMost
    <3> QED
      BY <2>1, <2>2, <3>1
  <2>5. carry' = [h \in Blocked!Group |-> carry'[h]]
    BY <2>1, <2>2
  <2> QED
    BY <1>2, <2>3, <2>4, <2>5 DEF Carried
<1>10. Written'
  <2>1. seqScanned' = [j \in Blocked!Index |->
                         IF j \in Blocked!Chunk(g) THEN carry[g] \o Blocked!Elements(Blocked!First(g), j)
                         ELSE seqScanned[j]]
    BY DEF Blocked!Iterate
  <2> SUFFICES ASSUME NEW j \in Blocked!Index
               PROVE  seqScanned'[j] = IF j < Blocked!First(PartOf(j))' THEN Elements(Base(PartOf(j)), j)
                                       ELSE Garbage
    BY <1>2, <2>1 DEF Written
  <2>2. j \in Nat /\ j < w
    BY <1>8 DEF Blocked!Index
  <2>3. seqScanned[j] = IF j < Blocked!First(PartOf(j)) THEN Elements(Base(PartOf(j)), j) ELSE Garbage
    BY DEF BlockedInv, Written
  <2>7. ASSUME NEW h \in Blocked!Group, PartOf(j) = h
        PROVE  Blocked!First(PartOf(j))' = Blocked!First(h)'
    BY <1>2, <2>7 DEF Blocked!First
  <2>4. CASE j \in Blocked!Chunk(g)
    <3>5. PartOf(j) = g /\ Blocked!First(g) <= j
      BY <1>1, <2>4, ChunkIsNew
    <3>1. PartOf(j) = g /\ Blocked!First(g) <= j /\ j < Blocked!First(g) + groupSize
      BY <2>4, <3>5 DEF Blocked!Chunk
    <3>2. seqScanned'[j] = carry[g] \o Elements(Blocked!First(g), j)
      <4>1. Blocked!Elements(Blocked!First(g), j) = Elements(Blocked!First(g), j)
        BY <1>8, <2>2, SameElements
      <4> QED
        BY <2>1, <2>4, <4>1
    <3>3. carry[g] = Elements(Base(g), Blocked!First(g) - 1)
      <4>1. Reach(g) = Blocked!First(g)
        BY <1>8, <2>2, <3>1 DEF Reach, Blocked!AtMost
      <4> QED
        BY <4>1 DEF BlockedInv, Carried
    <3>4. seqScanned'[j] = Elements(Base(g), j)
      <4>1. Base(g) \in Int /\ Blocked!First(g) \in Int /\ j \in Int /\ Blocked!First(g) - 1 <= j
        BY <1>8, <2>2, <3>1
      <4> DEFINE f == Blocked!First(g)
                 b == Base(g)
      <4>2. f \in Int /\ b \in Int /\ b <= f /\ f - 1 <= j /\ j \in Int
        BY <1>8, <4>1
      <4> HIDE DEF f, b
      <4>3. Elements(b, f - 1) \o Elements(f, j) = Elements(b, j)
        BY <4>2, ElementsConcat
      <4> QED
        BY <3>2, <3>3, <4>3 DEF f, b
    <3> QED
      BY <1>7, <2>7, <3>1, <3>4
  <2>5. CASE j \notin Blocked!Chunk(g) /\ PartOf(j) = g
    <3>1. ~ (Blocked!First(g) <= j /\ j < Blocked!First(g) + groupSize)
      BY <2>5 DEF Blocked!Chunk
    <3>2. j < Blocked!First(g) <=> j < Blocked!First(g) + groupSize
      BY <1>8, <2>2, <3>1
    <3> QED
      BY <1>7, <2>1, <2>3, <2>5, <2>7, <3>2
  <2>6. CASE j \notin Blocked!Chunk(g) /\ PartOf(j) # g
    <3>1. PartOf(j) \in Blocked!Group
      BY <1>1, PartOfIndex
    <3>2. Blocked!First(PartOf(j))' = Blocked!First(PartOf(j))
      BY <1>6, <2>6, <2>7, <3>1
    <3> QED
      BY <2>1, <2>3, <2>6, <3>2
  <2> QED
    BY <2>4, <2>5, <2>6
<1> QED
  BY <1>1, <1>2, <1>3, <1>5, <1>9, <1>10 DEF BlockedInv, Blocked!ResultExact

(* The prefixes of the carries: the recursion of the second kernel has one  *)
(* solution, by induction on the groups.                                    *)
Prefixes ==
  CHOOSE upTo : upTo = [g \in Blocked!Group |->
                          IF g = 0 THEN carry[0] ELSE upTo[g - 1] \o carry[g]]

UpToPart(g) == Elements(0, Blocked!AtMost(Base(g + 1), w) - 1)

LEMMA PrefixesExact ==
  ASSUME BlockedInv, \A g \in Blocked!Group : rounds[g] = Blocked!NumIterations
  PROVE  /\ Prefixes = [g \in Blocked!Group |-> UpToPart(g)]
         /\ \A f : f = [g \in Blocked!Group |-> IF g = 0 THEN carry[0] ELSE f[g - 1] \o carry[g]]
                   <=> f = [g \in Blocked!Group |-> UpToPart(g)]
<1> DEFINE closed == [g \in Blocked!Group |-> UpToPart(g)]
           Solves(f) == f = [g \in Blocked!Group |-> IF g = 0 THEN carry[0] ELSE f[g - 1] \o carry[g]]
<1>1. Sizes /\ rounds \in [Blocked!Group -> 0..Blocked!NumIterations] /\ w \in Nat
  BY DEF BlockedInv, Sizes
<1>2. Parts \in Nat \ {0} /\ Blocked!Group = 0..Parts - 1 /\ Length \in Nat
  BY <1>1, PartsCover DEF Parts, Blocked!Group
<1>3. \A g \in Blocked!Group : carry[g] = Elements(Base(g), Blocked!AtMost(Base(g + 1), w) - 1)
  <2> SUFFICES ASSUME NEW g \in Blocked!Group
               PROVE  carry[g] = Elements(Base(g), Blocked!AtMost(Base(g + 1), w) - 1)
    OBVIOUS
  <2>1. Blocked!First(g) = Base(g) + Length /\ Base(g + 1) = Base(g) + Length
    BY <1>1, <1>2, FirstType, BaseType
  <2> QED
    BY <2>1 DEF BlockedInv, Carried, Reach
<1>4. ASSUME NEW g \in Nat
      PROVE  Base(g) \in Nat /\ Base(g + 1) \in Nat /\ Base(g) <= Base(g + 1) /\ Base(0) = 0
  <2>1. Base(g) \in Nat /\ Base(g + 1) = Base(g) + Length /\ Base(0) = 0
    BY <1>1, BaseType
  <2> QED
    BY <1>2, <2>1
<1>5. carry[0] = UpToPart(0)
  BY <1>2, <1>3, <1>4 DEF UpToPart
<1>6. ASSUME NEW g \in Blocked!Group, g # 0
      PROVE  g - 1 \in Blocked!Group /\ UpToPart(g - 1) \o carry[g] = UpToPart(g)
  <2>1. g - 1 \in Blocked!Group /\ g \in Nat /\ g - 1 \in Nat /\ (g - 1) + 1 = g
    BY <1>2, <1>6
  <2> DEFINE a == Base(g)
             b == Base(g + 1)
  <2>2. a \in Nat /\ b \in Nat /\ a <= b /\ 0 \in Nat /\ 0 <= a
    BY <1>4, <2>1
  <2> HIDE DEF a, b
  <2>3. Elements(0, Blocked!AtMost(a, w) - 1) \o Elements(a, Blocked!AtMost(b, w) - 1)
          = Elements(0, Blocked!AtMost(b, w) - 1)
    BY <1>1, <2>2, ConcatUpTo
  <2> QED
    BY <1>3, <2>1, <2>3 DEF a, b, UpToPart
<1>7. Solves(closed)
  BY <1>2, <1>5, <1>6
<1>8. ASSUME NEW f, Solves(f) PROVE f = closed
  <2> DEFINE S == {m \in Nat : m \in Blocked!Group => f[m] = UpToPart(m)}
  <2>1. 0 \in S
    <3>1. 0 \in Blocked!Group
      BY <1>2
    <3>2. f[0] = carry[0]
      BY <1>8, <3>1
    <3> QED
      BY <1>5, <3>2
  <2>2. ASSUME NEW m \in Nat, m \in S PROVE m + 1 \in S
    <3> SUFFICES ASSUME m + 1 \in Blocked!Group PROVE f[m + 1] = UpToPart(m + 1)
      OBVIOUS
    <3>1. m + 1 # 0 /\ (m + 1) - 1 = m
      OBVIOUS
    <3>2. m \in Blocked!Group /\ UpToPart(m) \o carry[m + 1] = UpToPart(m + 1)
      BY <1>6, <3>1
    <3>3. f[m] = UpToPart(m)
      BY <2>2, <3>2
    <3>4. f[m + 1] = f[m] \o carry[m + 1]
      BY <1>8, <3>1
    <3> QED
      BY <3>2, <3>3, <3>4
  <2> HIDE DEF S
  <2>3. Nat \subseteq S
    BY <2>1, <2>2, NatInductionOnSet
  <2>4. \A g \in Blocked!Group : f[g] = UpToPart(g)
    BY <1>2, <2>3 DEF S
  <2>5. f = [g \in Blocked!Group |-> f[g]]
    BY <1>8
  <2> QED
    BY <2>4, <2>5
<1> HIDE DEF closed
<1>9. Prefixes = closed
  <2>1. Solves(CHOOSE f : Solves(f))
    BY <1>7
  <2> QED
    BY <1>8, <2>1 DEF Prefixes
<1>10. \A f : Solves(f) <=> f = closed
  BY <1>7, <1>8
<1> QED
  BY <1>9, <1>10 DEF closed

LEMMA ScanCarriesBlocked ==
  ASSUME BlockedInv, Blocked!ScanCarries
  PROVE  BlockedInv'
<1>1. /\ \A g \in Blocked!Group : rounds[g] = Blocked!NumIterations
      /\ UNCHANGED <<groupSize, maxGroups, w, rounds, carry, seqScanned, result>>
      /\ stage' = "map"
  BY DEF Blocked!ScanCarries, Blocked!launch
<1>2. carryScanned' = Prefixes
  BY DEF Blocked!ScanCarries, Prefixes
<1>3. carryScanned' = [g \in Blocked!Group |-> UpToPart(g)]
  BY <1>1, <1>2, PrefixesExact
<1>4. /\ Blocked!Group' = Blocked!Group /\ Blocked!Index' = Blocked!Index
      /\ Blocked!NumIterations' = Blocked!NumIterations
  BY <1>1 DEF Blocked!Group, Blocked!Index, Blocked!NumIterations, Blocked!Launched, Blocked!NumThreads
<1>5. Scanned'
  <2>1. \A g : UpToPart(g)' = UpToPart(g)
    BY <1>1 DEF UpToPart, Base, Length, Blocked!ElemsPerGroup, Blocked!NumIterations,
                Blocked!NumThreads, Blocked!Launched
  <2> QED
    BY <1>1, <1>3, <1>4, <2>1 DEF Scanned, UpToPart
<1>6. Sizes' /\ Carried' /\ Written'
  BY <1>1, <1>4 DEF BlockedInv, Sizes, Carried, Written, Reach, Base, Length, Blocked!ElemsPerGroup,
                    Blocked!First, PartOf
<1> QED
  BY <1>1, <1>4, <1>5, <1>6 DEF BlockedInv, Blocked!ResultExact

LEMMA MapBlocked ==
  ASSUME BlockedInv, Blocked!Map
  PROVE  BlockedInv'
<1>1. /\ UNCHANGED <<groupSize, maxGroups, w, rounds, carry, seqScanned, carryScanned>>
      /\ stage = "map" /\ stage' = "end"
      /\ result' = [j \in Blocked!Index |->
                      IF PartOf(j) = 0 THEN seqScanned[j] ELSE carryScanned[PartOf(j) - 1] \o seqScanned[j]]
  BY DEF Blocked!Map, Blocked!launch, PartOf, Length
<1>2. /\ Blocked!Group' = Blocked!Group /\ Blocked!Index' = Blocked!Index
      /\ Blocked!NumIterations' = Blocked!NumIterations
  BY <1>1 DEF Blocked!Group, Blocked!Index, Blocked!NumIterations, Blocked!Launched, Blocked!NumThreads
<1>3. Sizes' /\ Carried' /\ Written' /\ Scanned'
  BY <1>1, <1>2 DEF BlockedInv, Sizes, Carried, Written, Scanned, Reach, Base, Length, Blocked!ElemsPerGroup,
                    Blocked!First, PartOf
<1>4. ASSUME NEW j \in Blocked!Index PROVE result'[j] = Blocked!Elements(0, j)
  <2>1. Sizes /\ Scanned /\ rounds \in [Blocked!Group -> 0..Blocked!NumIterations]
    BY <1>1 DEF BlockedInv
  <2>2. PICK g \in Blocked!Group : g = PartOf(j) /\ Base(g) <= j /\ j < Base(g) + Length
    BY <2>1, PartOfIndex
  <2>3. g \in Nat /\ Blocked!First(g) = Base(g) + Length
    BY <2>1, FirstType DEF Scanned
  <2>4. Base(g) \in Nat /\ j \in Nat /\ j < w /\ w \in Nat /\ Base(0) = 0
    BY <2>1, <2>3, BaseType DEF Blocked!Index, Sizes
  <2>5. seqScanned[j] = Elements(Base(g), j)
    BY <2>2, <2>3 DEF BlockedInv, Written
  <2>6. Blocked!Elements(0, j) = Elements(0, j)
    BY <2>4, SameElements
  <2>7. CASE g = 0
    BY <1>1, <2>2, <2>4, <2>5, <2>6, <2>7
  <2>8. CASE g # 0
    <3>1. g - 1 \in Blocked!Group /\ (g - 1) + 1 = g
      <4>1. Parts \in Nat \ {0} /\ Blocked!Group = 0..Parts - 1
        BY <2>1, PartsCover DEF Parts, Blocked!Group
      <4> QED
        BY <2>2, <2>3, <2>8, <4>1
    <3>2. carryScanned[g - 1] = Elements(0, Blocked!AtMost(Base(g), w) - 1)
      BY <2>1, <3>1 DEF Scanned
    <3> DEFINE b == Base(g)
    <3>3. b \in Int /\ 0 <= b /\ b - 1 <= j /\ j \in Int /\ b <= w /\ w \in Nat
      BY <2>2, <2>4
    <3> HIDE DEF b
    <3>4. Blocked!AtMost(b, w) = b
      BY <3>3 DEF Blocked!AtMost
    <3>5. Elements(0, b - 1) \o Elements(b, j) = Elements(0, j)
      BY <3>3, ElementsConcat
    <3>6. result'[j] = carryScanned[g - 1] \o seqScanned[j]
      BY <1>1, <2>2, <2>8
    <3> QED
      BY <2>5, <2>6, <3>2, <3>4, <3>5, <3>6 DEF b
  <2> QED
    BY <2>7, <2>8
<1> QED
  BY <1>1, <1>2, <1>3, <1>4 DEF BlockedInv, Blocked!ResultExact

WholeInv == whole => BlockedInv

LEMMA WholeStep == WholeInv /\ [Step]_everything => WholeInv'
<1> SUFFICES ASSUME WholeInv, [Step]_everything, whole' PROVE BlockedInv'
  BY DEF WholeInv
<1>1. CASE whole /\ Blocked!Next
  <2>1. CASE \E g \in Blocked!Group : Blocked!Iterate(g)
    BY <1>1, <2>1, IterateBlocked DEF WholeInv
  <2>2. CASE Blocked!ScanCarries
    BY <1>1, <2>2, ScanCarriesBlocked DEF WholeInv
  <2>3. CASE Blocked!Map
    BY <1>1, <2>3, MapBlocked DEF WholeInv
  <2> QED
    BY <1>1, <2>1, <2>2, <2>3 DEF Blocked!Next
<1>2. CASE UNCHANGED <<whole, scan>>
  <2>1. UNCHANGED <<groupSize, maxGroups, w, stage, rounds, carry, seqScanned, carryScanned, result>>
    BY <1>2 DEF scan
  <2>2. BlockedInv
    BY <1>2 DEF WholeInv
  <2>3. /\ Blocked!Group' = Blocked!Group /\ Blocked!Index' = Blocked!Index
        /\ Blocked!NumIterations' = Blocked!NumIterations
    BY <2>1 DEF Blocked!Group, Blocked!Index, Blocked!NumIterations, Blocked!Launched, Blocked!NumThreads
  <2>4. Sizes' /\ Carried' /\ Written' /\ (Scanned <=> Scanned')
    BY <2>1, <2>2, <2>3 DEF BlockedInv, Sizes, Carried, Written, Scanned, Reach, Base, Length,
                            Blocked!ElemsPerGroup, Blocked!First, PartOf
  <2> QED
    BY <2>1, <2>2, <2>3, <2>4 DEF BlockedInv, Blocked!ResultExact
<1> QED
  BY <1>1, <1>2 DEF Step, everything

LEMMA WholeInvariance == Scans => []WholeInv
<1>1. Begin => WholeInv
  BY InitBlocked DEF Begin, ScanInit, WholeInv
<1> QED
  BY WholeStep, <1>1, PTL DEF Scans

(* The result of a scan is exact, for all sizes of groups, numbers of them, *)
(* lengths of the input, and orders in which the groups get on.             *)
THEOREM ScanIsExact == Scans => []ScanExact
<1>1. WholeInv => ScanExact
  BY DEF WholeInv, BlockedInv, ScanExact
<1> QED
  BY WholeInvariance, <1>1, PTL

(* The carry of the last group is that of the whole input, even if its part *)
(* and others lie behind the end.                                           *)
THEOREM CarryIsExact == Scans => []ScanCarry
<1>1. WholeInv => ScanCarry
  <2> SUFFICES ASSUME BlockedInv, stage \in {"map", "end"}
               PROVE  carryScanned[Parts - 1] = Blocked!Elements(0, w - 1)
    BY DEF WholeInv, ScanCarry, Blocked!CarryReturned, Parts
  <2>1. Sizes /\ Scanned /\ w \in Nat
    BY DEF BlockedInv, Sizes
  <2>2. Parts \in Nat \ {0} /\ Length \in Nat /\ w <= Parts * Length
    BY <2>1, PartsCover
  <2>3. Parts - 1 \in Blocked!Group /\ (Parts - 1) + 1 = Parts
    BY <2>2 DEF Parts, Blocked!Group
  <2>4. carryScanned[Parts - 1] = Elements(0, Blocked!AtMost(Base(Parts), w) - 1)
    BY <2>1, <2>3 DEF Scanned
  <2>5. Parts * Length \in Nat
    BY <2>2, Products
  <2>6. Blocked!AtMost(Base(Parts), w) = w
    BY <2>1, <2>2, <2>5 DEF Base, Blocked!AtMost
  <2>7. Blocked!Elements(0, w - 1) = Elements(0, w - 1)
    BY <2>1, SameElements
  <2> QED
    BY <2>4, <2>6, <2>7
<1> QED
  BY WholeInvariance, <1>1, PTL

(* No element is written twice, as the iterations of no two groups, and no  *)
(* two of one group, have an element in common.                             *)
THEOREM WrittenOnce == Scans => NeverRewritten
<1>1. WholeInv /\ [Step]_everything
        => [whole => \A j \in Blocked!Index : seqScanned[j] # Garbage => seqScanned'[j] = seqScanned[j]]_everything
  <2> SUFFICES ASSUME WholeInv, Step, whole, NEW j \in Blocked!Index, seqScanned[j] # Garbage
               PROVE  seqScanned'[j] = seqScanned[j]
    OBVIOUS
  <2>1. CASE \E g \in Blocked!Group : Blocked!Iterate(g)
    <3> PICK g \in Blocked!Group : Blocked!Iterate(g)
      BY <2>1
    <3>1. j \notin Blocked!Chunk(g)
      <4>1. rounds[g] < Blocked!NumIterations
        BY DEF Blocked!Iterate
      <4> QED
        BY <4>1, ChunkIsNew DEF WholeInv
    <3> QED
      BY <3>1 DEF Blocked!Iterate
  <2>2. CASE Blocked!ScanCarries \/ Blocked!Map
    BY <2>2 DEF Blocked!ScanCarries, Blocked!Map
  <2> QED
    BY <2>1, <2>2 DEF Step, Blocked!Next
<1> QED
  BY WholeInvariance, <1>1, PTL DEF Scans, NeverRewritten

-----------------------------------------------------------------------------
(* One group of the first kernel.                                           *)

(* The places of the scan, and those around it.                             *)
ScanPlaces ==
  {"mine", "read", "readBarrier", "write", "writeBarrier", "blockBarrier", "pack", "packBarrier",
   "carryRead", "carryWrite", "carryBarrier", "restore", "scanned"}
KernelPlaces == ScanPlaces \cup {"fold", "combineBarrier", "carryOut", "carryOutBarrier", "end"}

KernelShape ==
  /\ lockstep \in Lockstep /\ width = GroupSize
  /\ group \in 0..NumGroups - 1 /\ elements \in Nat \ {0}
  /\ iter \in [Thread -> Nat] /\ \A s, t \in Thread : iter[s] = iter[t]
  /\ \A t \in Thread : pc[t] \in KernelPlaces

(* The first element of iteration k, and the last of those up to x.         *)
From(k) == Start + k * GroupSize
UpTo(x) == IF x < elements THEN x ELSE elements - 1

(* What is scanned in iteration k: the first thread has all elements up to  *)
(* its own.                                                                 *)
SumsAt(k) ==
  [a \in Thread |-> [b \in Thread |->
     Elements(IF a = 0 THEN Start ELSE From(k) + a, UpTo(From(k) + b))]]

(* The last thread is in another block than the first, or in the same wave. *)
Settled == BlockSize < GroupSize \/ 1 \notin Lockstep

KernelInv ==
  /\ KernelShape /\ Control
  /\ \A t \in Thread : pc[t] = "end" <=> NumIterations <= iter[t]
  /\ Data(SumsAt(iter[0]))
  /\ \A t \in Thread : pc[t] = "combineBarrier" => acc[t] = SumsAt(iter[0])[t][t]
  /\ CarryExact
  /\ ScanoutExact

LEMMA Launch ==
  ASSUME KernelShape
  PROVE  /\ GroupSize \in Nat \ {0} /\ NumIterations \in Nat \ {0} /\ Start \in Nat
         /\ 0 \in Thread /\ LastThread \in Thread /\ iter[0] \in Nat
         /\ \A t \in Thread : t \in Nat /\ iter[t] = iter[0]
         /\ \A k \in Nat : From(k) \in Nat /\ Start <= From(k) /\ From(k + 1) = From(k) + GroupSize
<1>1. GroupSize \in Nat \ {0} /\ NumGroups \in Nat \ {0} /\ elements \in Nat \ {0} /\ group \in Nat
  BY GroupAssumption, LaunchAssumption DEF KernelShape
<1>2. 0 \in Thread /\ LastThread \in Thread
  BY <1>1 DEF Thread, LastThread
<1> DEFINE n == NumGroups * GroupSize
<1>3. n \in Nat \ {0}
  BY <1>1
<1> HIDE DEF n
<1>4. elements + n - 1 \in Nat
  BY <1>1, <1>3
<1>5. NumIterations \in Nat \ {0}
  <2> DEFINE q == (elements + n - 1) \div n
  <2>1. q \in Nat /\ elements + n - 1 < n * q + n
    BY <1>3, <1>4, Division
  <2> HIDE DEF q
  <2>2. q # 0
    <3> SUFFICES ASSUME q = 0 PROVE FALSE
      OBVIOUS
    <3>1. n * 0 = 0
      BY <1>3
    <3> QED
      BY <1>1, <1>3, <2>1, <3>1
  <2> QED
    BY <2>1, <2>2 DEF q, n, NumIterations, RoundingUp, NumThreads
<1> DEFINE i == NumIterations
<1> HIDE DEF i
<1>6. group * i \in Nat /\ (group * i) * GroupSize \in Nat
  BY <1>1, <1>5, Products DEF i
<1>7. Start \in Nat
  BY <1>6 DEF Start, i
<1>8. ASSUME NEW k \in Nat
      PROVE  From(k) \in Nat /\ Start <= From(k) /\ From(k + 1) = From(k) + GroupSize
  <2> DEFINE s == Start
             x == k * GroupSize
  <2>1. x \in Nat /\ (k + 1) * GroupSize = x + GroupSize /\ s \in Nat
    BY <1>1, <1>7, Products
  <2> HIDE DEF s, x
  <2>2. From(k) = s + x /\ From(k + 1) = s + (k + 1) * GroupSize
    BY DEF From, s, x
  <2>3. s <= s + x /\ s + x \in Nat /\ s + (x + GroupSize) = (s + x) + GroupSize
    BY <1>1, <2>1
  <2> QED
    BY <2>1, <2>2, <2>3 DEF s
<1> QED
  BY <1>1, <1>2, <1>5, <1>7, <1>8 DEF KernelShape, Thread

LEMMA SumsAtAdd ==
  ASSUME KernelShape, NEW k \in Nat
  PROVE  Adds(SumsAt(k))
<1> SUFFICES ASSUME NEW a \in Thread, NEW b \in Thread, NEW c \in Thread, a <= b, b < c
             PROVE  SumsAt(k)[a][b] \o SumsAt(k)[b + 1][c] = SumsAt(k)[a][c]
  BY DEF Adds
<1> DEFINE f == From(k)
           s == IF a = 0 THEN Start ELSE f + a
           d == f + (b + 1)
           x == f + b
           y == f + c
           m == b + 1
<1>1. a \in Nat /\ b \in Nat /\ c \in Nat /\ m \in Thread /\ m # 0
  BY GroupAssumption DEF Thread
<1>2. f \in Nat /\ Start \in Nat /\ Start <= f /\ elements \in Nat \ {0}
  BY Launch DEF KernelShape
<1>3. /\ SumsAt(k)[a][b] = Elements(s, UpTo(x)) /\ SumsAt(k)[m][c] = Elements(d, UpTo(y))
      /\ SumsAt(k)[a][c] = Elements(s, UpTo(y))
  BY <1>1 DEF SumsAt
<1>4. s \in Nat /\ d \in Nat /\ x \in Nat /\ y \in Nat /\ d = x + 1 /\ s <= d /\ d <= y
  BY <1>1, <1>2
<1> HIDE DEF f, s, d, x, y, m
<1>5. UpTo(x) \in Int /\ UpTo(y) \in Int
  BY <1>2, <1>4 DEF UpTo
<1>6. CASE x < elements
  <2>1. UpTo(x) = d - 1 /\ d - 1 <= UpTo(y)
    BY <1>2, <1>4, <1>6 DEF UpTo
  <2> DEFINE u == UpTo(y)
  <2>2. s \in Int /\ d \in Int /\ u \in Int /\ s <= d /\ d - 1 <= u
    BY <1>4, <1>5, <2>1
  <2> HIDE DEF u
  <2>3. Elements(s, d - 1) \o Elements(d, u) = Elements(s, u)
    BY <2>2, ElementsConcat
  <2> QED
    BY <1>3, <2>1, <2>3 DEF m, u
<1>7. CASE ~ (x < elements)
  <2>1. UpTo(x) = UpTo(y) /\ UpTo(y) < d
    BY <1>2, <1>4, <1>7 DEF UpTo
  <2>2. Elements(d, UpTo(y)) = <<>>
    BY <1>4, <1>5, <2>1, ElementsEmpty
  <2> DEFINE e == Elements(s, UpTo(y))
  <2>3. e \in Seq(Int)
    <3>1. s \in Int
      BY <1>4
    <3> QED
      BY <1>5, <3>1, ElementsSeq
  <2> HIDE DEF e
  <2>4. e \o <<>> = e
    BY <2>3
  <2> QED
    BY <1>3, <2>1, <2>2, <2>4 DEF e, m
<1> QED
  BY <1>6, <1>7

(* A fold is the sum of one thread.                                         *)
LEMMA FoldedExact ==
  ASSUME KernelShape, CarryExact, NEW t \in Thread, pc[t] = "fold"
  PROVE  Folded(t) = SumsAt(iter[0])[t][t]
<1> DEFINE k == iter[0]
           f == From(k)
<1>1. k \in Nat /\ iter[t] = k /\ t \in Nat /\ GroupSize \in Nat
  BY Launch
<1>2. f \in Nat /\ Start \in Nat /\ Start <= f /\ elements \in Nat \ {0}
  BY <1>1, Launch DEF KernelShape
<1>3. Index(t) = f + t
  BY <1>1 DEF Index, From
<1>4. accumulator[t] = IF t # 0 THEN <<>> ELSE Elements(Start, Before(k + 0) - 1)
  BY <1>1 DEF CarryExact
<1>5. SumsAt(k)[t][t] = Elements(IF t = 0 THEN Start ELSE f + t, UpTo(f + t))
  BY DEF SumsAt
<1>6. Before(k + 0) = IF f < elements THEN f ELSE elements
  BY <1>1 DEF Before, From
<1> HIDE DEF k, f
<1>7. CASE t # 0
  <2> DEFINE x == f + t
  <2>1. x \in Nat
    BY <1>1, <1>2
  <2> HIDE DEF x
  <2>2. CASE x < elements
    <3>1. Folded(t) = <<>> \o <<x>>
      BY <1>3, <1>4, <1>7, <2>2 DEF Folded, x
    <3>2. Elements(x, x) = <<x>>
      BY <2>1, ElementsOne
    <3>3. <<>> \o <<x>> = <<x>>
      OBVIOUS
    <3> QED
      BY <1>5, <1>7, <2>2, <3>1, <3>2, <3>3 DEF UpTo, x, k
  <2>3. CASE ~ (x < elements)
    <3>1. Folded(t) = <<>>
      BY <1>3, <1>4, <1>7, <2>3 DEF Folded, x
    <3>2. Elements(x, elements - 1) = <<>>
      BY <1>2, <2>1, <2>3, ElementsEmpty
    <3> QED
      BY <1>5, <1>7, <2>3, <3>1, <3>2 DEF UpTo, x, k
  <2> QED
    BY <2>2, <2>3
<1>8. CASE t = 0
  <2>1. f + t = f
    BY <1>2, <1>8
  <2>2. CASE f < elements
    <3>1. Folded(t) = Elements(Start, f - 1) \o <<f>>
      BY <1>3, <1>4, <1>6, <1>8, <2>1, <2>2 DEF Folded
    <3>2. Elements(f, f) = <<f>>
      BY <1>2, ElementsOne
    <3>3. Elements(Start, f - 1) \o Elements(f, f) = Elements(Start, f)
      BY <1>2, ElementsConcat
    <3> QED
      BY <1>5, <1>8, <2>1, <2>2, <3>1, <3>2, <3>3 DEF UpTo, k
  <2>3. CASE ~ (f < elements)
    BY <1>3, <1>4, <1>5, <1>6, <1>8, <2>1, <2>3 DEF Folded, UpTo, k
  <2> QED
    BY <2>2, <2>3
<1> QED
  BY <1>7, <1>8

(* What the scan leaves at the index of the last thread when the first one  *)
(* reads it.                                                                *)
LEMMA LastIsDone ==
  ASSUME Settled, KernelInv, pc[0] = "carryOut"
  PROVE  acc[LastThread] = Elements(Start, Before(iter[0] + 1) - 1)
<1> DEFINE k == iter[0]
           f == From(k)
<1>1. /\ GroupSize \in Nat \ {0} /\ 0 \in Thread /\ LastThread \in Thread /\ k \in Nat
      /\ f \in Nat /\ Start \in Nat /\ elements \in Nat \ {0}
  BY Launch DEF KernelInv, KernelShape
<1>2. From(k + 1) = f + GroupSize
  BY <1>1, Launch DEF KernelInv
<1>3. Before(k + 1) = IF f + GroupSize < elements THEN f + GroupSize ELSE elements
  BY <1>2 DEF Before, From
<1>4. InBounds(LastThread)
  BY <1>1 DEF InBounds, LastThread, KernelInv, KernelShape
<1>5. pc[LastThread] \in {"restore", "scanned", "carryOut", "carryOutBarrier", "end"}
  <2>1. PhaseOf(pc[LastThread]) = "after"
    BY <1>1 DEF KernelInv, Control, PhaseOf
  <2>2. pc[LastThread] \in KernelPlaces
    BY <1>1 DEF KernelInv, KernelShape
  <2> QED
    BY <2>1, <2>2 DEF PhaseOf, KernelPlaces, ScanPlaces
<1>6. pc[LastThread] # "end"
  <2>1. /\ pc[0] = "end" <=> NumIterations <= iter[0]
        /\ pc[LastThread] = "end" <=> NumIterations <= iter[LastThread]
        /\ iter[LastThread] = iter[0]
    BY <1>1 DEF KernelInv, KernelShape
  <2> QED
    BY <2>1
<1>7. pc[LastThread] # "restore" \/ ~ IsFirstBlock(LastThread)
  <2> SUFFICES ASSUME pc[LastThread] = "restore", IsFirstBlock(LastThread) PROVE FALSE
    OBVIOUS
  <2>1. LastThread < BlockSize /\ IsFirstBlock(0)
    BY <1>1, FirstBlock, GroupAssumption
  <2>2. lockstep # 1
    BY <1>1, <2>1, GroupAssumption DEF LastThread, Settled, KernelInv, KernelShape
  <2>3. BlockId(LastThread) = BlockId(0)
    BY <2>1 DEF IsFirstBlock
  <2>4. 0 \div lockstep = LastThread \div lockstep
    BY <1>1, <2>2, <2>3, SameWave DEF KernelInv, Control
  <2> QED
    BY <1>1, <2>4 DEF KernelInv, Control
<1>8. Result(SumsAt(k), pc[LastThread], LastThread, acc[LastThread])
  BY <1>1, <1>4 DEF KernelInv, Data
<1>9. acc[LastThread] = SumsAt(k)[0][LastThread]
  BY <1>5, <1>6, <1>7, <1>8 DEF Result
<1>10. SumsAt(k)[0][LastThread] = Elements(Start, UpTo(f + LastThread))
  BY <1>1 DEF SumsAt
<1> HIDE DEF k, f
<1>11. UpTo(f + LastThread) = Before(k + 1) - 1
  BY <1>1, <1>3 DEF UpTo, LastThread
<1> QED
  BY <1>9, <1>10, <1>11 DEF k

LEMMA InitKernel ==
  ASSUME KernelInit
  PROVE  KernelInv
<1>1. \A t \in Thread : pc[t] = "fold" /\ iter[t] = 0 /\ skip[t] = 1 /\ pass[t] = 1 /\ accumulator[t] = <<>>
  BY DEF KernelInit
<1>2. KernelShape
  <2>1. elements \in Nat \ {0}
    BY LaunchAssumption DEF KernelInit
  <2> QED
    BY <1>1, <2>1 DEF KernelInit, KernelShape, KernelPlaces
<1>3. /\ GroupSize \in Nat \ {0} /\ NumIterations \in Nat \ {0} /\ Start \in Nat /\ 0 \in Thread
      /\ elements \in Nat \ {0}
  BY <1>2, Launch DEF KernelShape
<1>4. Control
  <2>1. Shape
    BY <1>3, LockstepAssumption DEF KernelInit, Shape
  <2>2. \A t \in Thread : PlaceOK(pc[t], skip[t], pass[t])
    BY <1>1 DEF PlaceOK, Loop
  <2> QED
    BY <1>1, <2>1, <2>2 DEF Control, KernelInit
<1>5. Data(SumsAt(iter[0]))
  <2>1. \A t \in Thread : Full(t) => Last(t) \in Thread
    BY <1>4, LastOfFull DEF Control, Thread
  <2> QED
    BY <1>1, <2>1 DEF Data, Part, Block, Result, Total, Loop
<1>6. CarryExact
  <2>1. Before(0 + 0) = IF Start < elements THEN Start ELSE elements
    BY <1>3 DEF Before
  <2> DEFINE b == Before(0 + 0) - 1
  <2>2. b \in Int /\ b < Start
    BY <1>3, <2>1
  <2> HIDE DEF b
  <2>3. Elements(Start, b) = <<>>
    BY <1>3, <2>2, ElementsEmpty
  <2> QED
    BY <1>1, <2>3 DEF CarryExact, b
<1>7. ScanoutExact
  BY DEF KernelInit, ScanoutExact
<1>8. \A t \in Thread : pc[t] = "end" <=> NumIterations <= iter[t]
  BY <1>1, <1>3
<1> QED
  BY <1>1, <1>2, <1>4, <1>5, <1>6, <1>7, <1>8 DEF KernelInv

(* What depends on the launch alone.                                        *)
LEMMA LaunchKept ==
  ASSUME UNCHANGED launch
  PROVE  /\ Start' = Start /\ NumIterations' = NumIterations
         /\ \A k : From(k)' = From(k) /\ Before(k)' = Before(k) /\ SumsAt(k)' = SumsAt(k)
         /\ \A x : UpTo(x)' = UpTo(x)
BY DEF launch, Start, NumIterations, From, Before, SumsAt, UpTo

(* A wave goes from one place after the scan to the next.                   *)
LEMMA MoveData ==
  ASSUME NEW tot, Control, Data(tot), NEW T \in Waves, NEW from, NEW to, At(T, from),
         pc' = [t \in Thread |-> IF t \in T THEN to ELSE pc[t]],
         UNCHANGED <<width, acc, pass, skip, own>>,
         from \in {"scanned", "carryOut", "carryOutBarrier"}, to \in {"carryOut", "carryOutBarrier"}
  PROVE  Data(tot)'
<1>1. T \subseteq Thread /\ \A t \in T : pc[t] = from
  BY OneWave DEF At
<1>2. \A t \in Thread : pc'[t] = IF t \in T THEN to ELSE pc[t]
  OBVIOUS
<1>3. \A t \in Thread : (HasPart(pass[t], t)' <=> HasPart(pass[t], t)) /\ (InBounds(t)' <=> InBounds(t))
                        /\ (Full(t)' <=> Full(t))
  BY DEF HasPart, InBounds, Full
<1>4. ASSUME NEW t \in Thread, HasPart(pass[t], t)
      PROVE  Part(tot, pc'[t], pass'[t], t, skip'[t], acc'[t], own'[pass'[t]][t])
  <2>1. CASE t \in T
    BY <1>2, <2>1 DEF Part
  <2>2. CASE t \notin T
    <3>1. Part(tot, pc[t], pass[t], t, skip[t], acc[t], own[pass[t]][t])
      BY <1>4 DEF Data
    <3> QED
      BY <1>2, <2>2, <3>1
  <2> QED
    BY <2>1, <2>2
<1>5. ASSUME NEW t \in Thread, InBounds(t)
      PROVE  Block(tot, pc'[t], pass'[t], t, own'[1][t]) /\ Result(tot, pc'[t], t, acc'[t])
  <2>1. Block(tot, pc[t], pass[t], t, own[1][t]) /\ Result(tot, pc[t], t, acc[t])
    BY <1>5 DEF Data
  <2>2. CASE t \in T
    BY <1>1, <1>2, <2>1, <2>2 DEF Block, Result, Loop
  <2>3. CASE t \notin T
    BY <1>2, <2>1, <2>3
  <2> QED
    BY <2>2, <2>3
<1>6. ASSUME NEW t \in Thread, Full(t)
      PROVE  Total(tot, pc'[Last(t)], t, acc'[t])
  <2>1. Last(t) \in Thread
    BY <1>6, LastOfFull DEF Control, Thread
  <2>2. Total(tot, pc[Last(t)], t, acc[t])
    BY <1>6 DEF Data
  <2> QED
    BY <1>2, <2>1, <2>2 DEF Total
<1> QED
  BY <1>3, <1>4, <1>5, <1>6 DEF Data

(* Before a scan starts, and after the last, nothing is said of it.         *)
LEMMA IdleData ==
  ASSUME NEW tot, Control, UNCHANGED <<width>>,
         \A t \in Thread : pc'[t] \in {"fold", "combineBarrier", "end"}
  PROVE  Data(tot)'
<1>1. \A t \in Thread : Full(t)' => Last(t) \in Thread
  BY LastOfFull DEF Control, Thread, Full
<1> QED
  BY <1>1 DEF Data, Part, Block, Result, Total, Loop

LEMMA FoldStep ==
  ASSUME KernelInv, NEW T \in Waves, Fold(T)
  PROVE  KernelInv'
<1>1. T \subseteq Thread /\ (\A t \in T : pc[t] = "fold") /\ \E t \in T : TRUE
  BY OneWave DEF Fold, At
<1>2. /\ pc' = [t \in Thread |-> IF t \in T THEN "combineBarrier" ELSE pc[t]]
      /\ UNCHANGED <<lockstep, width, pass, skip, own, group, elements, iter, accumulator, scanout>>
  BY DEF Fold, Goto, device, kernel
<1>3. KernelShape /\ Control /\ 0 \in Thread
  BY Launch DEF KernelInv
<1>4. KernelShape'
  BY <1>2, <1>3 DEF KernelShape, KernelPlaces
<1>5. Control'
  <2>1. At(T, "fold") /\ Goto(T, LAMBDA t : "combineBarrier") /\ UNCHANGED <<lockstep, width, pass, skip>>
    BY DEF Fold, device
  <2>2. PhaseOf("combineBarrier") = PhaseOf("fold") /\ "fold" \notin Loop /\ "combineBarrier" \notin Loop
    BY DEF PhaseOf, Loop
  <2> QED
    BY <1>3, <2>1, <2>2, MoveControl
<1>6. \A t \in Thread : pc[t] \in {"fold", "combineBarrier"}
  <2>1. \A t \in Thread : PhaseOf(pc[t]) = "fold"
    BY <1>1, <1>3 DEF Control, PhaseOf
  <2> QED
    BY <2>1 DEF PhaseOf
<1>7. Data(SumsAt(iter[0]))'
  <2>1. \A t \in Thread : pc'[t] \in {"fold", "combineBarrier", "end"}
    BY <1>2, <1>6
  <2>2. SumsAt(iter[0])' = SumsAt(iter[0])
    BY <1>2 DEF SumsAt, From, UpTo, Start, NumIterations
  <2>3. PICK h : h = SumsAt(iter[0])
    OBVIOUS
  <2>4. Data(h)'
    BY <1>2, <1>3, <2>1, IdleData
  <2> QED
    BY <2>2, <2>3, <2>4 DEF Data
<1>8. ASSUME NEW t \in Thread, pc'[t] = "combineBarrier" PROVE acc'[t] = SumsAt(iter[0])[t][t]
  <2> DEFINE stores(s) == TRUE /\ Self(s) = t
  <2>1. acc'[t] = IF \E s \in T : stores(s) THEN Folded(CHOOSE s \in T : stores(s)) ELSE acc[t]
    BY DEF Fold, Store
  <2>2. \A s \in T : stores(s) <=> s = t
    BY DEF Self
  <2> HIDE DEF stores
  <2>3. CASE t \in T
    <3>1. (CHOOSE s \in T : stores(s)) = t
      BY <2>2, <2>3
    <3>2. acc'[t] = Folded(t)
      BY <2>1, <2>2, <2>3, <3>1
    <3> QED
      BY <1>1, <1>3, <2>3, <3>2, FoldedExact DEF KernelInv
  <2>4. CASE t \notin T
    <3>1. acc'[t] = acc[t] /\ pc[t] = "combineBarrier"
      BY <1>2, <1>8, <2>1, <2>2, <2>4
    <3> QED
      BY <3>1 DEF KernelInv
  <2> QED
    BY <2>3, <2>4
<1>9. (\A t \in Thread : pc[t] = "combineBarrier" => acc[t] = SumsAt(iter[0])[t][t])'
  <2>1. SumsAt(iter[0])' = SumsAt(iter[0])
    BY <1>2 DEF SumsAt, From, UpTo, Start, NumIterations
  <2> QED
    BY <1>8, <2>1
<1>10. CarryExact'
  <2>1. \A t \in Thread : pc'[t] \in {"fold", "carryOutBarrier", "end"} => pc'[t] = pc[t]
    BY <1>2
  <2> QED
    BY <1>2, <2>1 DEF KernelInv, CarryExact, Before, Start, NumIterations
<1>11. ScanoutExact'
  BY <1>2 DEF KernelInv, ScanoutExact, Start, NumIterations
<1>12. \A t \in Thread : pc'[t] = "end" <=> NumIterations' <= iter'[t]
  <2>1. \A t \in T : ~ (NumIterations <= iter[t])
    BY <1>1 DEF KernelInv
  <2> QED
    BY <1>1, <1>2, <2>1 DEF KernelInv, NumIterations
<1> QED
  BY <1>4, <1>5, <1>7, <1>9, <1>10, <1>11, <1>12 DEF KernelInv

LEMMA WaveStepPlaces ==
  ASSUME NEW T \in Waves, WaveStep(T)
  PROVE  /\ UNCHANGED <<lockstep, width, pass>>
         /\ \A t \in Thread : IF t \in T THEN pc[t] \in ScanPlaces /\ pc'[t] \in ScanPlaces
                              ELSE pc'[t] = pc[t]
<1>1. T \subseteq Thread
  BY OneWave
<1>2. \A d : AfterIteration(d) \in ScanPlaces
  BY DEF AfterIteration, ScanPlaces
<1>3. CASE ReadMine(T)
  BY <1>1, <1>2, <1>3 DEF ReadMine, At, Goto, device, ScanPlaces
<1>4. CASE ReadOther(T)
  BY <1>1, <1>4 DEF ReadOther, At, Goto, device, ScanPlaces
<1>5. CASE Write(T)
  <2>1. \A t \in T : pc[t] \in ScanPlaces
    BY <1>5 DEF Write, At, ScanPlaces
  <2>2. "writeBarrier" \in ScanPlaces
    BY DEF ScanPlaces
  <2> QED
    BY <1>1, <1>2, <1>5, <2>1, <2>2 DEF Write, Goto, device
<1>6. CASE Pack(T)
  BY <1>1, <1>6 DEF Pack, At, Goto, device, ScanPlaces
<1>7. CASE ReadCarry(T)
  BY <1>1, <1>7 DEF ReadCarry, At, Goto, device, ScanPlaces
<1>8. CASE WriteCarry(T)
  BY <1>1, <1>8 DEF WriteCarry, At, Goto, device, ScanPlaces
<1>9. CASE Restore(T)
  BY <1>1, <1>9 DEF Restore, At, Goto, device, ScanPlaces
<1> QED
  BY <1>3, <1>4, <1>5, <1>6, <1>7, <1>8, <1>9 DEF WaveStep

LEMMA SyncPlaces ==
  ASSUME Sync
  PROVE  /\ UNCHANGED <<lockstep, width>>
         /\ \A t \in Thread : pc[t] \in ScanPlaces /\ pc'[t] \in ScanPlaces
<1>1. \A d : AfterIteration(d) \in ScanPlaces
  BY DEF AfterIteration, ScanPlaces
<1>2. CASE ReadBarrier
  BY <1>2 DEF ReadBarrier, Barrier, At, GotoAll, device, ScanPlaces
<1>3. CASE WriteBarrier
  <2>1. \A t \in Thread : pc[t] \in ScanPlaces
    BY <1>3 DEF WriteBarrier, Barrier, At, ScanPlaces
  <2> QED
    BY <1>1, <1>3, <2>1 DEF WriteBarrier, Goto, device
<1>4. CASE BlockBarrier
  BY <1>4 DEF BlockBarrier, Barrier, At, Goto, device, ScanPlaces
<1>5. CASE PackBarrier
  BY <1>5 DEF PackBarrier, Barrier, At, GotoAll, device, ScanPlaces
<1>6. CASE CarryBarrier
  BY <1>6 DEF CarryBarrier, Barrier, At, GotoAll, device, ScanPlaces
<1> QED
  BY <1>2, <1>3, <1>4, <1>5, <1>6 DEF Sync

(* A step within the scan.                                                  *)
LEMMA ScanStep ==
  ASSUME KernelInv, UNCHANGED <<lockstep, width>>, UNCHANGED kernel, Control', Data(SumsAt(iter[0]))',
         \A t \in Thread : pc[t] = pc'[t] \/ (pc[t] \in ScanPlaces /\ pc'[t] \in ScanPlaces),
         \E t \in Thread : pc[t] \in ScanPlaces
  PROVE  KernelInv'
<1>1. UNCHANGED <<group, elements, iter, accumulator, scanout>>
  BY DEF kernel
<1>2. KernelShape'
  BY <1>1 DEF KernelInv, KernelShape, KernelPlaces
<1>3. \A t \in Thread : pc'[t] \in {"fold", "combineBarrier", "carryOutBarrier", "end"} \/
                        pc[t] \in {"fold", "combineBarrier", "carryOutBarrier", "end"} => pc'[t] = pc[t]
  BY DEF ScanPlaces
<1>4. (\A t \in Thread : pc[t] = "combineBarrier" => acc[t] = SumsAt(iter[0])[t][t])'
  <2> SUFFICES ASSUME NEW t \in Thread, pc'[t] = "combineBarrier" PROVE FALSE
    OBVIOUS
  <2>1. PICK s \in Thread : pc[s] \in ScanPlaces
    OBVIOUS
  <2>2. pc[t] = "combineBarrier"
    BY <1>3
  <2>3. PhaseOf(pc[s]) = PhaseOf(pc[t])
    BY DEF KernelInv, Control
  <2> QED
    BY <2>1, <2>2, <2>3 DEF PhaseOf, ScanPlaces
<1>5. CarryExact'
  BY <1>1, <1>3 DEF KernelInv, CarryExact, Before, Start, NumIterations
<1>6. ScanoutExact'
  BY <1>1 DEF KernelInv, ScanoutExact, Start, NumIterations
<1>7. (\A t \in Thread : pc[t] = "end" <=> NumIterations <= iter[t])'
  BY <1>1, <1>3 DEF KernelInv, NumIterations
<1> QED
  BY <1>2, <1>4, <1>5, <1>6, <1>7 DEF KernelInv

LEMMA ScanWaveStep ==
  ASSUME KernelInv, NEW T \in Waves, WaveStep(T), UNCHANGED kernel
  PROVE  KernelInv'
<1>1. KernelShape /\ Control /\ Data(SumsAt(iter[0])) /\ iter[0] \in Nat
  BY Launch DEF KernelInv
<1>2. Control'
  BY <1>1, WaveStepControl
<1>3. Data(SumsAt(iter[0]))'
  <2>1. SumsAt(iter[0])' = SumsAt(iter[0])
    BY DEF kernel, SumsAt, From, UpTo, Start, NumIterations
  <2>2. PICK h : h = SumsAt(iter[0])
    OBVIOUS
  <2>3. Adds(h)
    <3> DEFINE k == iter[0]
    <3>1. k \in Nat
      BY <1>1
    <3> HIDE DEF k
    <3>2. Adds(SumsAt(k))
      BY <1>1, <3>1, SumsAtAdd
    <3> QED
      BY <2>2, <3>2 DEF k
  <2>4. Data(h)'
    BY <1>1, <2>2, <2>3, WaveStepData
  <2> QED
    BY <2>1, <2>2, <2>4 DEF Data
<1>4. T \subseteq Thread /\ \E t \in T : TRUE
  BY OneWave
<1>5. /\ UNCHANGED <<lockstep, width>>
      /\ \A t \in Thread : pc[t] = pc'[t] \/ (pc[t] \in ScanPlaces /\ pc'[t] \in ScanPlaces)
      /\ \E t \in Thread : pc[t] \in ScanPlaces
  BY <1>4, WaveStepPlaces
<1> QED
  BY <1>2, <1>3, <1>5, ScanStep

LEMMA ScanSync ==
  ASSUME KernelInv, Sync, UNCHANGED kernel
  PROVE  KernelInv'
<1>1. KernelShape /\ Control /\ Data(SumsAt(iter[0])) /\ 0 \in Thread
  BY Launch DEF KernelInv
<1>2. Control'
  BY <1>1, SyncControl
<1>3. Data(SumsAt(iter[0]))'
  <2>1. SumsAt(iter[0])' = SumsAt(iter[0])
    BY DEF kernel, SumsAt, From, UpTo, Start, NumIterations
  <2>2. PICK h : h = SumsAt(iter[0])
    OBVIOUS
  <2>3. Data(h)'
    BY <1>1, <2>2, SyncData
  <2> QED
    BY <2>1, <2>2, <2>3 DEF Data
<1>4. /\ UNCHANGED <<lockstep, width>>
      /\ \A t \in Thread : pc[t] = pc'[t] \/ (pc[t] \in ScanPlaces /\ pc'[t] \in ScanPlaces)
      /\ \E t \in Thread : pc[t] \in ScanPlaces
  BY <1>1, SyncPlaces
<1> QED
  BY <1>2, <1>3, <1>4, ScanStep

(* The scan starts.                                                         *)
LEMMA CombineStep ==
  ASSUME KernelInv, CombineBarrier
  PROVE  KernelInv'
<1>1. KernelShape /\ Control /\ Shape /\ iter[0] \in Nat
  BY Launch DEF KernelInv, Control
<1>2. \A t \in Thread : pc[t] = "combineBarrier"
  BY DEF CombineBarrier, Barrier, At
<1>3. /\ pc' = [t \in Thread |-> "mine"] /\ pass' = [t \in Thread |-> 1]
      /\ UNCHANGED <<lockstep, width, acc, skip, own, group, elements, iter, accumulator, scanout>>
  BY DEF CombineBarrier, GotoAll, device, kernel
<1>4. Control'
  <2>1. Barrier("combineBarrier") /\ UNCHANGED <<lockstep, width, skip>>
    BY <1>3 DEF CombineBarrier
  <2> QED
    BY <1>1, <1>3, <2>1, MeetControl
<1>5. KernelShape'
  BY <1>1, <1>3 DEF KernelShape, KernelPlaces, ScanPlaces
<1>6. Data(SumsAt(iter[0]))'
  <2>1. SumsAt(iter[0])' = SumsAt(iter[0])
    BY <1>3 DEF SumsAt, From, UpTo, Start, NumIterations
  <2>2. PICK h : h = SumsAt(iter[0])
    OBVIOUS
  <2> DEFINE k == [t \in Thread |-> skip[t]]
  <2>3. skip' = [t \in Thread |-> k[t]]
    BY <1>1, <1>3 DEF Control
  <2> HIDE DEF k
  <2>4. \A t \in Thread : HasPart(1, t) => Part(h, "mine", 1, t, k[t], acc[t], own[1][t])
    <3> SUFFICES ASSUME NEW t \in Thread PROVE Part(h, "mine", 1, t, k[t], acc[t], own[1][t])
      OBVIOUS
    <3>1. acc[t] = h[t][t]
      BY <1>2, <2>2 DEF KernelInv
    <3>2. Value(h, 1, t, 1) = h[t][t]
      BY Alone
    <3> QED
      BY <3>1, <3>2 DEF Part
  <2>5. \A t \in Thread : InBounds(t) => /\ Block(h, "mine", 1, t, own[1][t])
                                         /\ Result(h, "mine", t, acc[t])
    BY DEF Block, Result
  <2>6. \A t \in Thread : Full(t) => Total(h, "mine", t, acc[t])
    BY DEF Total
  <2>7. Data(h)'
    BY <1>1, <1>3, <2>3, <2>4, <2>5, <2>6, BarrierData
  <2> QED
    BY <2>1, <2>2, <2>7 DEF Data
<1>7. CarryExact'
  BY <1>3 DEF CarryExact
<1>8. ScanoutExact'
  BY <1>3 DEF KernelInv, ScanoutExact, Start, NumIterations
<1>9. (\A t \in Thread : pc[t] = "combineBarrier" => acc[t] = SumsAt(iter[0])[t][t])'
  BY <1>3
<1>10. (\A t \in Thread : pc[t] = "end" <=> NumIterations <= iter[t])'
  BY <1>2, <1>3 DEF KernelInv, NumIterations
<1> QED
  BY <1>4, <1>5, <1>6, <1>7, <1>8, <1>9, <1>10 DEF KernelInv

(* A step of a wave from one place after the scan to the next.              *)
LEMMA AfterScan ==
  ASSUME KernelInv, NEW T \in Waves, NEW from, NEW to, At(T, from),
         pc' = [t \in Thread |-> IF t \in T THEN to ELSE pc[t]],
         from \in {"scanned", "carryOut"}, to \in {"carryOut", "carryOutBarrier"},
         UNCHANGED <<lockstep, width, acc, pass, skip, own, group, elements, iter>>
  PROVE  /\ KernelShape' /\ Control' /\ Data(SumsAt(iter[0]))'
         /\ (\A t \in Thread : pc[t] = "combineBarrier" => acc[t] = SumsAt(iter[0])[t][t])'
         /\ (\A t \in Thread : pc[t] = "end" <=> NumIterations <= iter[t])'
<1>1. KernelShape /\ Control /\ Data(SumsAt(iter[0]))
  BY DEF KernelInv
<1>2. T \subseteq Thread /\ \A t \in T : pc[t] = from
  BY OneWave DEF At
<1>3. \A t \in Thread : pc'[t] = IF t \in T THEN to ELSE pc[t]
  OBVIOUS
<1>4. KernelShape'
  BY <1>1, <1>3 DEF KernelShape, KernelPlaces
<1>5. Control'
  <2>1. PhaseOf(to) = PhaseOf(from) /\ from \notin Loop /\ to \notin Loop
    BY DEF PhaseOf, Loop
  <2>2. Goto(T, LAMBDA t : to)
    BY DEF Goto
  <2> QED
    BY <1>1, <2>1, <2>2, MoveControl
<1>6. SumsAt(iter[0])' = SumsAt(iter[0])
  BY DEF SumsAt, From, UpTo, Start, NumIterations
<1>7. Data(SumsAt(iter[0]))'
  <2>1. PICK h : h = SumsAt(iter[0])
    OBVIOUS
  <2>2. /\ from \in {"scanned", "carryOut", "carryOutBarrier"}
        /\ to \in {"carryOut", "carryOutBarrier"}
        /\ UNCHANGED <<width, acc, pass, skip, own>>
    OBVIOUS
  <2>3. Data(h)
    BY <1>1, <2>1
  <2>4. Data(h)'
    BY <1>1, <2>2, <2>3, MoveData
  <2> QED
    BY <1>6, <2>1, <2>4 DEF Data
<1>8. (\A t \in Thread : pc[t] = "combineBarrier" => acc[t] = SumsAt(iter[0])[t][t])'
  BY <1>3, <1>6 DEF KernelInv
<1>9. (\A t \in Thread : pc[t] = "end" <=> NumIterations <= iter[t])'
  BY <1>2, <1>3 DEF KernelInv, NumIterations
<1> QED
  BY <1>4, <1>5, <1>7, <1>8, <1>9

(* What a thread that is through with the scan finds at its index.          *)
LEMMA ScannedExact ==
  ASSUME KernelInv, NEW t \in Thread, pc[t] = "scanned", Index(t) < elements
  PROVE  acc[t] = Elements(Start, Index(t))
<1>1. /\ InBounds(t) /\ t \in Thread /\ 0 \in Thread /\ iter[t] = iter[0]
      /\ elements \in Nat
  BY Launch DEF KernelInv, KernelShape, InBounds, Thread
<1>2. acc[t] = SumsAt(iter[0])[0][t]
  BY <1>1 DEF KernelInv, Data, Result
<1>3. SumsAt(iter[0])[0][t] = Elements(Start, UpTo(From(iter[0]) + t))
  BY <1>1 DEF SumsAt
<1>4. UpTo(From(iter[0]) + t) = Index(t)
  BY <1>1 DEF UpTo, From, Index
<1> QED
  BY <1>2, <1>3, <1>4

LEMMA StoreScannedStep ==
  ASSUME KernelInv, NEW T \in Waves, StoreScanned(T)
  PROVE  KernelInv'
<1>1. At(T, "scanned") /\ Goto(T, LAMBDA t : "carryOut")
      /\ UNCHANGED <<lockstep, width, acc, pass, skip, own, group, elements, iter, accumulator>>
  BY DEF StoreScanned, device, launch
<1>2. /\ KernelShape' /\ Control' /\ Data(SumsAt(iter[0]))'
      /\ (\A t \in Thread : pc[t] = "combineBarrier" => acc[t] = SumsAt(iter[0])[t][t])'
      /\ (\A t \in Thread : pc[t] = "end" <=> NumIterations <= iter[t])'
  <2>1. /\ "scanned" \in {"scanned", "carryOut"} /\ "carryOut" \in {"carryOut", "carryOutBarrier"}
        /\ UNCHANGED <<lockstep, width, acc, pass, skip, own, group, elements, iter>>
        /\ pc' = [t \in Thread |-> IF t \in T THEN "carryOut" ELSE pc[t]]
    BY <1>1 DEF Goto
  <2> QED
    BY <1>1, <2>1, AfterScan
<1>3. CarryExact'
  <2>1. \A t \in Thread : pc'[t] \in {"fold", "carryOutBarrier", "end"} => pc'[t] = pc[t]
    BY <1>1 DEF Goto
  <2> QED
    BY <1>1, <2>1 DEF KernelInv, CarryExact, Before, Start, NumIterations
<1>4. ScanoutExact'
  <2> DEFINE stored == {t \in T : Index(t) < elements}
  <2>1. scanout' = [j \in DOMAIN scanout \cup {Index(t) : t \in stored} |->
                      IF \E t \in stored : Index(t) = j
                      THEN acc[CHOOSE t \in stored : Index(t) = j]
                      ELSE scanout[j]]
    BY DEF StoreScanned
  <2>2. \A t \in stored : t \in Thread /\ acc[t] = Elements(Start, Index(t))
    BY <1>1, OneWave, ScannedExact DEF At
  <2> HIDE DEF stored
  <2>3. ASSUME NEW j \in DOMAIN scanout' PROVE scanout'[j] = Elements(Start, j)
    <3>1. CASE \E t \in stored : Index(t) = j
      <4> DEFINE s == CHOOSE t \in stored : Index(t) = j
      <4>1. s \in stored /\ Index(s) = j
        BY <3>1
      <4>2. scanout'[j] = acc[s]
        BY <2>1, <2>3, <3>1
      <4> HIDE DEF s
      <4> QED
        BY <2>2, <4>1, <4>2
    <3>2. CASE ~ \E t \in stored : Index(t) = j
      <4>1. j \in DOMAIN scanout /\ scanout'[j] = scanout[j]
        BY <2>1, <2>3, <3>2
      <4> QED
        BY <4>1 DEF KernelInv, ScanoutExact
    <3> QED
      BY <3>1, <3>2
  <2>4. Start' = Start
    BY <1>1 DEF Start, NumIterations
  <2> QED
    BY <2>3, <2>4 DEF ScanoutExact
<1> QED
  BY <1>2, <1>3, <1>4 DEF KernelInv

LEMMA CarryOutStep ==
  ASSUME Settled, KernelInv, NEW T \in Waves, CarryOut(T)
  PROVE  KernelInv'
<1>1. At(T, "carryOut") /\ Goto(T, LAMBDA t : "carryOutBarrier")
      /\ UNCHANGED <<lockstep, width, acc, pass, skip, own, group, elements, iter, scanout>>
  BY DEF CarryOut, device, launch
<1>2. /\ KernelShape' /\ Control' /\ Data(SumsAt(iter[0]))'
      /\ (\A t \in Thread : pc[t] = "combineBarrier" => acc[t] = SumsAt(iter[0])[t][t])'
      /\ (\A t \in Thread : pc[t] = "end" <=> NumIterations <= iter[t])'
  <2>1. /\ "carryOut" \in {"scanned", "carryOut"} /\ "carryOutBarrier" \in {"carryOut", "carryOutBarrier"}
        /\ UNCHANGED <<lockstep, width, acc, pass, skip, own, group, elements, iter>>
        /\ pc' = [t \in Thread |-> IF t \in T THEN "carryOutBarrier" ELSE pc[t]]
    BY <1>1 DEF Goto
  <2> QED
    BY <1>1, <2>1, AfterScan
<1>3. ScanoutExact'
  BY <1>1 DEF KernelInv, ScanoutExact, Start, NumIterations
<1>4. CarryExact'
  <2>1. \A k : Before(k)' = Before(k)
    BY <1>1 DEF Before, Start, NumIterations
  <2>2. Start' = Start
    BY <1>1 DEF Start, NumIterations
  <2>3. T \subseteq Thread /\ \A t \in T : pc[t] = "carryOut"
    BY <1>1, OneWave DEF At
  <2>4. \A t \in Thread : iter[t] = iter[0] /\ iter[0] \in Nat
    BY Launch DEF KernelInv
  <2>5. \A t \in Thread : /\ pc'[t] = IF t \in T THEN "carryOutBarrier" ELSE pc[t]
                          /\ accumulator'[t] = IF t \notin T THEN accumulator[t]
                                               ELSE IF t = 0 THEN acc[LastThread] ELSE <<>>
    BY <1>1 DEF Goto, CarryOut
  <2>6. ASSUME NEW t \in Thread, pc'[t] \in {"fold", "carryOutBarrier", "end"}
        PROVE  accumulator'[t] =
                 IF t # 0 THEN <<>>
                 ELSE Elements(Start, Before(iter[t] + (IF pc'[t] = "carryOutBarrier" THEN 1 ELSE 0)) - 1)
    <3>1. CASE t \in T
      <4>1. t = 0 => acc[LastThread] = Elements(Start, Before(iter[t] + 1) - 1)
        BY <2>3, <2>4, <3>1, LastIsDone
      <4> QED
        BY <2>5, <3>1, <4>1
    <3>2. CASE t \notin T
      BY <2>5, <2>6, <3>2 DEF KernelInv, CarryExact
    <3> QED
      BY <3>1, <3>2
  <2> QED
    BY <1>1, <2>1, <2>2, <2>6 DEF CarryExact, Before
<1> QED
  BY <1>2, <1>3, <1>4 DEF KernelInv

LEMMA CarryOutBarrierStep ==
  ASSUME KernelInv, CarryOutBarrier
  PROVE  KernelInv'
<1>1. KernelShape /\ Control /\ Shape
  BY DEF KernelInv, Control
<1>2. PICK k \in Nat : \A t \in Thread : iter[t] = k
  BY <1>1, Launch
<1>3. 0 \in Thread /\ NumIterations \in Nat
  BY <1>1, Launch
<1> DEFINE next == IF k + 1 < NumIterations THEN "fold" ELSE "end"
<1>4. /\ pc' = [t \in Thread |-> next] /\ iter' = [t \in Thread |-> k + 1]
      /\ UNCHANGED <<lockstep, width, acc, pass, skip, own, group, elements, accumulator, scanout>>
  BY <1>2 DEF CarryOutBarrier, Goto, device, launch
<1>5. \A t \in Thread : pc[t] = "carryOutBarrier"
  BY DEF CarryOutBarrier, Barrier, At
<1>6. Control'
  <2>1. PICK p \in 1..2 : \A t \in Thread : pass[t] = p
    BY <1>1, OnePass
  <2>2. pass' = [t \in Thread |-> p]
    BY <1>1, <1>4, <2>1 DEF Control
  <2>3. Barrier("carryOutBarrier")
    BY DEF CarryOutBarrier
  <2>4. next \in {"fold", "end"}
    OBVIOUS
  <2> HIDE DEF next
  <2>5. UNCHANGED <<lockstep, width, skip>>
    BY <1>4
  <2> QED
    BY <1>1, <1>4, <2>2, <2>3, <2>4, <2>5, MeetControl
<1>7. KernelShape'
  BY <1>1, <1>4 DEF KernelShape, KernelPlaces
<1>8. Data(SumsAt(iter[0]))'
  <2>1. PICK h : h = SumsAt(iter[0])'
    OBVIOUS
  <2>2. \A t \in Thread : pc'[t] \in {"fold", "combineBarrier", "end"}
    BY <1>4
  <2>3. UNCHANGED <<width>>
    BY <1>4
  <2>4. Data(h)'
    BY <1>1, <2>2, <2>3, IdleData
  <2> QED
    BY <2>1, <2>4 DEF Data
<1>9. (\A t \in Thread : pc[t] = "combineBarrier" => acc[t] = SumsAt(iter[0])[t][t])'
  BY <1>4
<1>10. CarryExact'
  <2>1. \A j : Before(j)' = Before(j)
    BY <1>4 DEF Before, Start, NumIterations
  <2>2. Start' = Start
    BY <1>4 DEF Start, NumIterations
  <2>3. ASSUME NEW t \in Thread
        PROVE  accumulator'[t] = IF t # 0 THEN <<>> ELSE Elements(Start, Before(k + 1) - 1)
    BY <1>2, <1>4, <1>5 DEF KernelInv, CarryExact
  <2>4. \A t \in Thread : iter'[t] = k + 1 /\ pc'[t] # "carryOutBarrier" /\ (k + 1) + 0 = k + 1
    BY <1>4
  <2>5. \A t \in Thread :
          accumulator'[t] =
            IF t # 0 THEN <<>>
            ELSE Elements(Start, Before(iter'[t] + (IF pc'[t] = "carryOutBarrier" THEN 1 ELSE 0)) - 1)
    BY <2>3, <2>4
  <2> QED
    BY <1>4, <2>2, <2>5 DEF CarryExact, Before
<1>11. ScanoutExact'
  BY <1>4 DEF KernelInv, ScanoutExact, Start, NumIterations
<1>12. (\A t \in Thread : pc[t] = "end" <=> NumIterations <= iter[t])'
  <2>1. NumIterations' = NumIterations
    BY <1>4 DEF NumIterations
  <2> QED
    BY <1>3, <1>4, <2>1
<1> QED
  BY <1>6, <1>7, <1>8, <1>9, <1>10, <1>11, <1>12 DEF KernelInv

LEMMA KernelStepInv ==
  ASSUME Settled, KernelInv, KernelNext
  PROVE  KernelInv'
<1>1. ASSUME NEW T \in Waves, KernelStep(T) PROVE KernelInv'
  BY <1>1, FoldStep, StoreScannedStep, CarryOutStep, ScanWaveStep DEF KernelStep
<1>2. ASSUME KernelSync PROVE KernelInv'
  BY <1>2, CombineStep, CarryOutBarrierStep, ScanSync DEF KernelSync
<1> QED
  BY <1>1, <1>2 DEF KernelNext

(* After the scan only the threads of the first block write, and the first  *)
(* thread reads what is the last one's.                                     *)
LEMMA RaceFreeKernel ==
  ASSUME Settled, KernelInv
  PROVE  KernelRaceFree
<1> SUFFICES ASSUME NEW s \in Thread, NEW t \in Thread, s \div lockstep # t \div lockstep
             PROVE  KernelWrites(s) \cap (KernelReads(t) \cup KernelWrites(t)) = {}
  BY DEF KernelRaceFree
<1>1. /\ Control /\ PhaseOf(pc[s]) = PhaseOf(pc[t]) /\ s # t
      /\ Writes(s) \cap (Reads(t) \cup Writes(t)) = {}
  BY ControlRaceFree DEF KernelInv, Control, RaceFree
<1>2. CASE PhaseOf(pc[s]) = "fold"
  <2>1. pc[s] \in {"fold", "combineBarrier"} /\ pc[t] \in {"fold", "combineBarrier"}
    BY <1>1, <1>2 DEF PhaseOf
  <2>2. KernelWrites(s) \subseteq {s} /\ KernelWrites(t) \subseteq {t} /\ KernelReads(t) = {}
    BY <2>1 DEF KernelWrites, KernelReads, Writes, Reads
  <2> QED
    BY <1>1, <2>2
<1>3. CASE PhaseOf(pc[s]) = "after"
  <2>1. pc[s] \notin {"fold", "write", "pack", "carryWrite"} /\ pc[t] \notin {"fold", "write", "pack", "carryWrite"}
        /\ pc[t] \notin {"mine", "read", "carryRead"}
    BY <1>1, <1>3 DEF PhaseOf
  <2>2. KernelWrites(s) \subseteq {s} /\ KernelWrites(t) \subseteq {t}
        /\ (KernelWrites(s) # {} => IsFirstBlock(s))
    BY <2>1 DEF KernelWrites, Writes
  <2>3. KernelReads(t) \subseteq {t} \/ (KernelReads(t) = {LastThread} /\ t = 0)
    BY <2>1 DEF KernelReads, Reads
  <2>4. CASE KernelReads(t) \subseteq {t}
    BY <1>1, <2>2, <2>4
  <2>5. CASE KernelReads(t) = {LastThread} /\ t = 0
    <3>1. IsFirstBlock(s) => s # LastThread
      <4> SUFFICES ASSUME IsFirstBlock(s), s = LastThread PROVE FALSE
        OBVIOUS
      <4>1. s < BlockSize /\ IsFirstBlock(t) /\ GroupSize \in Nat /\ BlockSize \in Nat \ {0}
        BY <2>5, FirstBlock, GroupAssumption
      <4>2. lockstep # 1
        BY <4>1 DEF LastThread, Settled, KernelInv, KernelShape
      <4> QED
        BY <1>1, <4>1, <4>2, SameWave DEF IsFirstBlock, Control
    <3> QED
      BY <1>1, <2>2, <2>5, <3>1
  <2> QED
    BY <2>3, <2>4, <2>5
<1>4. CASE PhaseOf(pc[s]) \notin {"fold", "after"}
  <2>1. pc[s] # "fold" /\ pc[t] \notin {"fold", "scanned", "carryOut"}
    BY <1>1, <1>4 DEF PhaseOf
  <2>2. KernelWrites(s) = Writes(s) /\ KernelWrites(t) = Writes(t) /\ KernelReads(t) = Reads(t)
    BY <2>1 DEF KernelWrites, KernelReads
  <2> QED
    BY <1>1, <2>2
<1> QED
  BY <1>2, <1>3, <1>4

GroupInv == ~whole => KernelInv

LEMMA GroupInvariance ==
  ASSUME Settled
  PROVE  Scans => []GroupInv
<1>1. Begin => GroupInv
  BY InitKernel DEF Begin, ScanInit, GroupInv
<1>2. GroupInv /\ [Step]_everything => GroupInv'
  <2> SUFFICES ASSUME GroupInv, [Step]_everything, ~whole' PROVE KernelInv'
    BY DEF GroupInv
  <2>1. CASE Step
    BY <2>1, KernelStepInv DEF Step, GroupInv
  <2>2. CASE UNCHANGED everything
    <3>1. /\ KernelInv
          /\ UNCHANGED <<lockstep, width, acc, pc, pass, skip, own, group, elements, iter, accumulator, scanout>>
      BY <2>2 DEF everything, allVars, vars, kernel, GroupInv
    <3>2. KernelShape' /\ Control'
      BY <3>1 DEF KernelInv, KernelShape, Control, Shape, PlaceOK, PhaseOf, DistanceAt
    <3>3. SumsAt(iter[0])' = SumsAt(iter[0]) /\ Start' = Start /\ NumIterations' = NumIterations
          /\ \A k : Before(k)' = Before(k)
      BY <3>1 DEF SumsAt, From, UpTo, Start, NumIterations, Before
    <3>4. Data(SumsAt(iter[0]))'
      <4>1. PICK h : h = SumsAt(iter[0])
        OBVIOUS
      <4>2. Data(h)'
        BY <3>1, <4>1 DEF KernelInv, Data, HasPart, Full, InBounds
      <4> QED
        BY <3>3, <4>1, <4>2 DEF Data
    <3>5. CarryExact' /\ ScanoutExact'
      BY <3>1 DEF KernelInv, CarryExact, ScanoutExact, Start, NumIterations, Before
    <3>6. (\A t \in Thread : pc[t] = "combineBarrier" => acc[t] = SumsAt(iter[0])[t][t])'
      BY <3>1, <3>3 DEF KernelInv
    <3>7. (\A t \in Thread : pc[t] = "end" <=> NumIterations <= iter[t])'
      BY <3>1, <3>3 DEF KernelInv
    <3> QED
      BY <3>2, <3>4, <3>5, <3>6, <3>7 DEF KernelInv
  <2> QED
    BY <2>1, <2>2
<1> QED
  BY <1>1, <1>2, PTL DEF Scans

(* The theorems about the first kernel hold unless the last thread is in    *)
(* the block of the first one and all threads run alone: then the first may *)
(* take the last one's entry before it is restored (ScanKernelOneBlock).    *)

(* Whatever a thread stores is the scan from the first element of its group *)
(* on, in any iteration, for all sizes and orders of the waves.             *)
THEOREM StoredIsExact ==
  ASSUME Settled
  PROVE  Scans => []StoredExact
<1>1. GroupInv => StoredExact
  BY DEF GroupInv, KernelInv, StoredExact
<1> QED
  BY GroupInvariance, <1>1, PTL

(* Between two iterations the first thread has what was scanned so far as   *)
(* its accumulator, and all others the neutral element.                     *)
THEOREM CarriedIsExact ==
  ASSUME Settled
  PROVE  Scans => []CarriedExact
<1>1. GroupInv => CarriedExact
  BY DEF GroupInv, KernelInv, CarriedExact
<1> QED
  BY GroupInvariance, <1>1, PTL

(* No wave writes an index of local memory that another one accesses, from  *)
(* the fold of an iteration to the carry-out that starts the next.          *)
THEOREM KernelIsRaceFree ==
  ASSUME Settled
  PROVE  Scans => []NoKernelRaces
<1>1. GroupInv => NoKernelRaces
  BY RaceFreeKernel DEF GroupInv, NoKernelRaces
<1> QED
  BY GroupInvariance, <1>1, PTL

KernelBarriers == Barriers \cup {"combineBarrier", "carryOutBarrier"}

KernelWaitTogether ==
  \A s, t \in Thread : pc[s] \in KernelBarriers /\ pc[t] \in KernelBarriers \cup {"end"} => pc[s] = pc[t]

(* Threads that wait in an iteration wait at one barrier, and none is       *)
(* through its iterations while others still wait.                          *)
THEOREM KernelWaitsTogether ==
  ASSUME Settled
  PROVE  Scans => [](~ whole => KernelWaitTogether)
<1>1. GroupInv => (~ whole => KernelWaitTogether)
  <2> SUFFICES ASSUME KernelInv, NEW s \in Thread, NEW t \in Thread,
                      pc[s] \in KernelBarriers, pc[t] \in KernelBarriers \cup {"end"}
               PROVE  pc[s] = pc[t]
    BY DEF GroupInv, KernelWaitTogether
  <2>1. PhaseOf(pc[s]) = PhaseOf(pc[t])
    BY DEF KernelInv, Control
  <2>2. CASE pc[s] \in Barriers
    <3>1. pc[t] \in Barriers
      BY <2>1, <2>2 DEF PhaseOf, Barriers, KernelBarriers
    <3> QED
      BY <2>2, <3>1, ControlWaits DEF KernelInv, WaitTogether
  <2>3. CASE pc[s] = "combineBarrier"
    BY <2>1, <2>3 DEF PhaseOf, Barriers, KernelBarriers
  <2>4. CASE pc[s] = "carryOutBarrier"
    <3>1. pc[t] \in {"carryOutBarrier", "end"}
      BY <2>1, <2>4 DEF PhaseOf, Barriers, KernelBarriers
    <3>2. pc[t] # "end"
      BY <2>4 DEF KernelInv, KernelShape
    <3> QED
      BY <2>4, <3>1, <3>2
  <2> QED
    BY <2>2, <2>3, <2>4 DEF KernelBarriers
<1> QED
  BY GroupInvariance, <1>1, PTL

-----------------------------------------------------------------------------
(* The group as one of BlockedScan's: what it has scanned is complete up to *)
(* the iteration in which the first thread has taken the carry-out.         *)
Late == {"carryOut", "carryOutBarrier"}

(* All that matters to BlockedScan happens in three kinds of steps.         *)
LEMMA KindsOfSteps ==
  ASSUME KernelInv, KernelNext
  PROVE  \/ \E T \in Waves : StoreScanned(T) \/ CarryOut(T)
         \/ CarryOutBarrier
         \/ /\ UNCHANGED <<group, elements, iter, accumulator, scanout>>
            /\ \A t \in Thread : pc'[t] = pc[t] \/ (pc[t] \notin Late /\ pc'[t] \notin Late)
<1> DEFINE Others == \A t \in Thread : pc'[t] = pc[t] \/ (pc[t] \notin Late /\ pc'[t] \notin Late)
<1>1. ASSUME NEW T \in Waves, Fold(T)
      PROVE  UNCHANGED <<group, elements, iter, accumulator, scanout>> /\ Others
  BY <1>1 DEF Fold, At, Goto, kernel, Late
<1>2. ASSUME NEW T \in Waves, WaveStep(T), UNCHANGED kernel
      PROVE  UNCHANGED <<group, elements, iter, accumulator, scanout>> /\ Others
  <2>1. \A t \in Thread : pc'[t] = pc[t] \/ (pc[t] \in ScanPlaces /\ pc'[t] \in ScanPlaces)
    BY <1>2, WaveStepPlaces
  <2> QED
    BY <1>2, <2>1 DEF kernel, Late, ScanPlaces
<1>3. ASSUME CombineBarrier
      PROVE  UNCHANGED <<group, elements, iter, accumulator, scanout>> /\ Others
  BY <1>3 DEF CombineBarrier, Barrier, At, GotoAll, kernel, Late
<1>4. ASSUME Sync, UNCHANGED kernel
      PROVE  UNCHANGED <<group, elements, iter, accumulator, scanout>> /\ Others
  <2>1. \A t \in Thread : pc[t] \in ScanPlaces /\ pc'[t] \in ScanPlaces
    BY <1>4, SyncPlaces
  <2> QED
    BY <1>4, <2>1 DEF kernel, Late, ScanPlaces
<1> QED
  BY <1>1, <1>2, <1>3, <1>4 DEF KernelNext, KernelStep, KernelSync

(* What the first thread carries, at any time, and the elements that have   *)
(* been stored.                                                             *)
CarriesOn == accumulator[0] = Elements(Start, Before(Done) - 1)

HasStored(j) ==
  /\ Start <= j /\ j < elements
  /\ \/ j < From(iter[0])
     \/ \E t \in Thread : pc[t] \in Late /\ j = Index(t)

StoredInOrder == DOMAIN scanout = {j \in Nat : HasStored(j)}

(* The first thread is at the carry-out: the only step that counts.         *)
LEMMA CarryOutCounts ==
  ASSUME Settled, KernelInv, CarriesOn, StoredInOrder, NEW T \in Waves, CarryOut(T)
  PROVE  /\ CarriesOn' /\ StoredInOrder'
         /\ UNCHANGED <<group, elements>>
         /\ IF 0 \in T THEN pc[0] = "carryOut" /\ Done = iter[0] /\ Done' = Done + 1
            ELSE Done' = Done /\ accumulator'[0] = accumulator[0]
<1>1. /\ 0 \in Thread /\ T \subseteq Thread /\ iter[0] \in Nat
      /\ \A t \in T : pc[t] = "carryOut"
  BY Launch, OneWave DEF KernelInv, CarryOut, At
<1>2. /\ UNCHANGED <<group, elements, iter, scanout>>
      /\ \A t \in Thread : pc'[t] = IF t \in T THEN "carryOutBarrier" ELSE pc[t]
      /\ accumulator'[0] = IF 0 \in T THEN acc[LastThread] ELSE accumulator[0]
  BY <1>1 DEF CarryOut, Goto, launch
<1>3. IF 0 \in T THEN pc[0] = "carryOut" /\ Done = iter[0] /\ Done' = Done + 1 ELSE Done' = Done
  BY <1>1, <1>2 DEF Done
<1>4. UNCHANGED launch
  BY <1>2 DEF launch
<1>5. CarriesOn'
  <2>1. accumulator'[0] = Elements(Start, Before(Done') - 1)
    <3>1. CASE 0 \in T
      <4>1. accumulator'[0] = Elements(Start, Before(iter[0] + 1) - 1)
        BY <1>1, <1>2, <3>1, LastIsDone
      <4> QED
        BY <1>3, <3>1, <4>1
    <3>2. CASE 0 \notin T
      BY <1>2, <1>3, <3>2 DEF CarriesOn
    <3> QED
      BY <3>1, <3>2
  <2>2. Start' = Start /\ \A k : Before(k)' = Before(k)
    BY <1>4, LaunchKept
  <2> QED
    BY <2>1, <2>2 DEF CarriesOn, Before
<1>6. StoredInOrder'
  <2>1. \A t \in Thread : Index(t)' = Index(t) /\ (pc'[t] \in Late <=> pc[t] \in Late)
    BY <1>1, <1>2 DEF Index, Start, NumIterations, Late
  <2>2. Start' = Start /\ From(iter[0])' = From(iter[0])
    BY <1>2, <1>4, LaunchKept DEF From
  <2>3. \A j \in Nat : HasStored(j)' <=> HasStored(j)
    BY <1>2, <2>1, <2>2 DEF HasStored
  <2> QED
    BY <1>2, <2>3 DEF StoredInOrder
<1> QED
  BY <1>2, <1>3, <1>5, <1>6

LEMMA StoreScannedCounts ==
  ASSUME KernelInv, CarriesOn, StoredInOrder, NEW T \in Waves, StoreScanned(T)
  PROVE  /\ CarriesOn' /\ StoredInOrder'
         /\ UNCHANGED <<group, elements, accumulator>> /\ Done' = Done
<1>1. /\ 0 \in Thread /\ T \subseteq Thread /\ \A t \in T : pc[t] = "scanned"
  BY Launch, OneWave DEF KernelInv, StoreScanned, At
<1>2. /\ UNCHANGED <<group, elements, iter, accumulator>>
      /\ \A t \in Thread : pc'[t] = IF t \in T THEN "carryOut" ELSE pc[t]
  BY <1>1 DEF StoreScanned, Goto, launch
<1>3. Done' = Done
  BY <1>1, <1>2 DEF Done
<1>4. UNCHANGED launch
  BY <1>2 DEF launch
<1>5. CarriesOn'
  <2>1. Start' = Start /\ \A k : Before(k)' = Before(k)
    BY <1>4, LaunchKept
  <2> QED
    BY <1>2, <1>3, <2>1 DEF CarriesOn, Before
<1>6. StoredInOrder'
  <2> DEFINE stored == {t \in T : Index(t) < elements}
  <2>1. DOMAIN scanout' = DOMAIN scanout \cup {Index(t) : t \in stored}
    BY DEF StoreScanned
  <2>2. \A t \in Thread : Index(t)' = Index(t) /\ (pc'[t] \in Late <=> pc[t] \in Late \/ t \in T)
    BY <1>1, <1>2 DEF Index, Start, NumIterations, Late
  <2>3. Start' = Start /\ From(iter[0])' = From(iter[0])
    BY <1>2, <1>4, LaunchKept DEF From
  <2>4. \A t \in T : Index(t) \in Nat /\ Start <= Index(t)
    <3> TAKE t \in T
    <3>1. Index(t) = From(iter[0]) + t /\ t \in Nat /\ From(iter[0]) \in Nat /\ Start <= From(iter[0]) /\ Start \in Nat
      BY <1>1, Launch DEF KernelInv, Index, From
    <3> HIDE DEF stored
    <3> QED
      BY <3>1
  <2>5. \A j \in Nat : HasStored(j)' <=> HasStored(j) \/ \E t \in stored : j = Index(t)
    BY <1>1, <1>2, <2>2, <2>3, <2>4 DEF HasStored
  <2>6. \A t \in stored : Index(t) \in Nat
    BY <2>4
  <2> HIDE DEF stored
  <2> QED
    BY <2>1, <2>5, <2>6 DEF StoredInOrder
<1> QED
  BY <1>2, <1>3, <1>5, <1>6

LEMMA CarryOutBarrierCounts ==
  ASSUME KernelInv, CarriesOn, StoredInOrder, CarryOutBarrier
  PROVE  /\ CarriesOn' /\ StoredInOrder'
         /\ UNCHANGED <<group, elements, accumulator>> /\ Done' = Done
<1>1. /\ 0 \in Thread /\ GroupSize \in Nat \ {0} /\ Start \in Nat
      /\ \A t \in Thread : iter[t] = iter[0] /\ iter[t] \in Nat /\ t \in Nat
      /\ \A t \in Thread : pc[t] = "carryOutBarrier"
  BY Launch DEF KernelInv, CarryOutBarrier, Barrier, At
<1>2. /\ UNCHANGED <<group, elements, accumulator, scanout>>
      /\ \A t \in Thread : pc'[t] \in {"fold", "end"} /\ iter'[t] = iter[0] + 1
  BY <1>1 DEF CarryOutBarrier, Goto, launch
<1>3. Done' = Done
  BY <1>1, <1>2 DEF Done
<1>4. UNCHANGED launch
  BY <1>2 DEF launch
<1>5. CarriesOn'
  <2>1. Start' = Start /\ \A k : Before(k)' = Before(k)
    BY <1>4, LaunchKept
  <2> QED
    BY <1>2, <1>3, <2>1 DEF CarriesOn, Before
<1>6. StoredInOrder'
  <2> DEFINE f == From(iter[0])
  <2>1. f \in Nat /\ From(iter[0] + 1) = f + GroupSize
    BY <1>1, Launch DEF KernelInv
  <2>2. From(iter[0])' = f + GroupSize /\ Start' = Start
    BY <1>1, <1>2, <1>4, <2>1, LaunchKept DEF From
  <2>3. \A t \in Thread : Index(t) = f + t
    BY <1>1 DEF Index, From
  <2>4. \A t \in Thread : pc[t] \in Late /\ pc'[t] \notin Late
    BY <1>1, <1>2 DEF Late
  <2> HIDE DEF f
  <2>5. ASSUME NEW j \in Nat
        PROVE  j < f + GroupSize <=> j < f \/ \E t \in Thread : j = f + t
    <3>1. ASSUME f <= j, j < f + GroupSize PROVE j - f \in Thread /\ j = f + (j - f)
      BY <1>1, <2>1, <3>1 DEF Thread
    <3>2. \A t \in Thread : f + t < f + GroupSize
      BY <1>1, <2>1 DEF Thread
    <3> QED
      BY <1>1, <2>1, <3>1, <3>2
  <2>6. \A j \in Nat : HasStored(j)' <=> HasStored(j)
    BY <1>2, <2>2, <2>3, <2>4, <2>5 DEF HasStored, f
  <2> QED
    BY <1>2, <2>6 DEF StoredInOrder
<1> QED
  BY <1>2, <1>3, <1>5, <1>6

LEMMA OtherStepsCount ==
  ASSUME KernelInv, CarriesOn, StoredInOrder,
         UNCHANGED <<group, elements, iter, accumulator, scanout>>,
         \A t \in Thread : pc'[t] = pc[t] \/ (pc[t] \notin Late /\ pc'[t] \notin Late)
  PROVE  CarriesOn' /\ StoredInOrder' /\ Done' = Done
<1>1. 0 \in Thread
  BY Launch DEF KernelInv
<1>2. Done' = Done
  BY <1>1 DEF Done, Late
<1>3. Start' = Start /\ \A k : Before(k)' = Before(k) /\ From(k)' = From(k)
  BY LaunchKept DEF launch
<1>4. CarriesOn'
  BY <1>2, <1>3 DEF CarriesOn, Before
<1>5. \A j \in Nat : HasStored(j)' <=> HasStored(j)
  <2>1. \A t \in Thread : Index(t)' = Index(t) /\ (pc'[t] \in Late <=> pc[t] \in Late)
    BY DEF Index, Start, NumIterations
  <2>2. From(iter[0])' = From(iter[0])
    BY <1>3 DEF From
  <2> QED
    BY <1>3, <2>1, <2>2 DEF HasStored
<1> QED
  BY <1>2, <1>4, <1>5 DEF StoredInOrder

(* What the group counts as having written: the scan of every element of    *)
(* the iterations that are done, whether it is in memory or in a register.  *)
StoredSoFar ==
  \A j \in 0..elements - 1 :
    StoredBy(j) = IF Start <= j /\ j < From(Done) THEN Elements(Start, j) ELSE Garbage

LEMMA StoredValue ==
  ASSUME KernelInv, StoredInOrder
  PROVE  StoredSoFar
<1> SUFFICES ASSUME NEW j \in 0..elements - 1
             PROVE  StoredBy(j) = IF Start <= j /\ j < From(Done) THEN Elements(Start, j) ELSE Garbage
  BY DEF StoredSoFar
<1> DEFINE k == iter[0]
           f == From(k)
<1>1. /\ GroupSize \in Nat \ {0} /\ 0 \in Thread /\ k \in Nat
      /\ f \in Nat /\ Start \in Nat /\ Start <= f /\ elements \in Nat \ {0} /\ j \in Nat /\ j < elements
      /\ From(k + 1) = f + GroupSize
      /\ \A t \in Thread : t \in Nat /\ iter[t] = k
  BY Launch DEF KernelInv, KernelShape
<1>2. \/ Done = k /\ pc[0] # "carryOutBarrier"
      \/ Done = k + 1 /\ pc[0] = "carryOutBarrier"
  BY <1>1 DEF Done
<1>3. /\ Start + Done * GroupSize = From(Done)
      /\ Start + (Done + 1) * GroupSize = From(Done + 1)
      /\ f <= From(Done) /\ From(Done) \in Nat
  <2>1. f <= f + GroupSize /\ f + GroupSize \in Nat
    BY <1>1
  <2> QED
    BY <1>1, <1>2, <2>1 DEF From
<1>4. \A t \in Thread : Index(t) = f + t
  BY <1>1 DEF Index, From
<1>5. j \in DOMAIN scanout <=> HasStored(j)
  BY <1>1 DEF StoredInOrder
<1>6. CASE Start <= j /\ j < From(Done) /\ j \in DOMAIN scanout
  <2>1. StoredBy(j) = scanout[j]
    BY <1>3, <1>6 DEF StoredBy
  <2> QED
    BY <1>6, <2>1 DEF KernelInv, ScanoutExact
<1>7. CASE Start <= j /\ j < From(Done) /\ j \notin DOMAIN scanout
  <2> DEFINE t == j - f
  <2>1. f <= j /\ \A s \in Thread : ~ (pc[s] \in Late /\ j = Index(s))
    BY <1>1, <1>5, <1>7 DEF HasStored
  <2>2. Done = k + 1 /\ pc[0] = "carryOutBarrier" /\ j < f + GroupSize
    BY <1>1, <1>2, <1>7, <2>1
  <2>3. t \in Thread /\ j = f + t /\ t \in 0..GroupSize - 1
    BY <1>1, <2>1, <2>2 DEF Thread
  <2> HIDE DEF t, f, k
  <2>4. pc[t] \notin Late
    BY <1>4, <2>1, <2>3
  <2>5. PhaseOf(pc[t]) = "after" /\ pc[t] \in KernelPlaces /\ pc[t] # "end"
    <3>1. PhaseOf(pc[0]) = "after"
      BY <2>2 DEF PhaseOf
    <3>2. PhaseOf(pc[t]) = "after" /\ pc[t] \in KernelPlaces
      BY <1>1, <2>3, <3>1 DEF KernelInv, Control, KernelShape
    <3>3. pc[0] # "end" /\ iter[t] = iter[0]
      BY <1>1, <2>2, <2>3
    <3> QED
      BY <1>1, <2>3, <3>2, <3>3 DEF KernelInv
  <2>6. pc[t] \in {"restore", "scanned"}
    BY <2>4, <2>5 DEF PhaseOf, KernelPlaces, ScanPlaces, Late
  <2>7. own[1][t] = SumsAt(k)[0][t]
    <3>1. InBounds(t)
      BY <1>1, <2>3 DEF KernelInv, KernelShape, InBounds
    <3>2. Block(SumsAt(k), pc[t], pass[t], t, own[1][t])
      BY <2>3, <3>1 DEF KernelInv, Data, k
    <3> QED
      BY <2>6, <3>2 DEF Block
  <2>8. SumsAt(k)[0][t] = Elements(Start, j)
    <3>1. SumsAt(k)[0][t] = Elements(Start, UpTo(f + t))
      BY <1>1, <2>3 DEF SumsAt, f
    <3> QED
      BY <1>1, <2>3, <3>1 DEF UpTo
  <2>9. (j - Start) % GroupSize = t
    <3>1. f = Start + k * GroupSize
      BY DEF f, From
    <3>2. k * GroupSize = GroupSize * k /\ GroupSize * k \in Nat
      BY <1>1, Products
    <3> DEFINE m == GroupSize * k
    <3>3. m \in Nat /\ f = Start + m
      BY <3>1, <3>2
    <3> HIDE DEF m
    <3>4. j - Start = m + t /\ j - Start \in Nat
      BY <1>1, <2>3, <3>3
    <3> DEFINE x == j - Start
    <3>5. x \in Nat /\ x = GroupSize * k + t
      BY <3>4 DEF m
    <3> HIDE DEF x
    <3>6. x % GroupSize = t
      BY <1>1, <2>3, <3>5, RestUnique
    <3> QED
      BY <3>6 DEF x
  <2>10. StoredBy(j) = own[1][t]
    BY <1>3, <1>7, <2>9 DEF StoredBy
  <2> QED
    BY <1>7, <2>7, <2>8, <2>10
<1>8. CASE ~ (Start <= j /\ j < From(Done))
  <2>1. ASSUME HasStored(j) PROVE Start <= j /\ j < From(Done + 1)
    <3>1. Start <= j /\ ~ (j < f)
      BY <1>1, <1>3, <1>8, <2>1 DEF HasStored
    <3>2. PICK t \in Thread : j = f + t
      BY <1>4, <2>1, <3>1 DEF HasStored
    <3>3. j < f + GroupSize
      BY <1>1, <3>2 DEF Thread
    <3>4. Done = k
      BY <1>1, <1>2, <1>8, <3>1, <3>3
    <3> QED
      BY <1>1, <3>1, <3>3, <3>4
  <2> QED
    BY <1>3, <1>5, <1>8, <2>1 DEF StoredBy
<1> QED
  BY <1>6, <1>7, <1>8

(* The group as launched with those before and behind it.                   *)
KernelLaunch ==
  groupSize = GroupSize /\ maxGroups = NumGroups /\ w = elements /\ stage = "scan1" /\ elements \in ElementCounts

(* numberOfGroups launches no group without a first element: no more of     *)
(* them than there are parts of a group's size.                             *)
FullyLaunched == \A n \in ElementCounts : (NumGroups - 1) * GroupSize < n

LEMMA MappedLaunch ==
  ASSUME FullyLaunched, KernelLaunch
  PROVE  /\ FirstKernel!Launched = NumGroups /\ FirstKernel!Group = 0..NumGroups - 1
         /\ FirstKernel!NumIterations = NumIterations
         /\ FirstKernel!Index = 0..elements - 1
<1>1. /\ GroupSize \in Nat \ {0} /\ NumGroups \in Nat \ {0} /\ elements \in Nat \ {0}
      /\ (NumGroups - 1) * GroupSize < elements
  BY GroupAssumption, LaunchAssumption DEF KernelLaunch, FullyLaunched
<1> DEFINE q == (elements + GroupSize - 1) \div GroupSize
<1>2. q \in Nat /\ elements <= q * GroupSize
  BY <1>1, RoundedUp DEF Blocked!DivRoundingUp
<1>3. FirstKernel!DivRoundingUp(w, groupSize) = q
  BY DEF FirstKernel!DivRoundingUp, KernelLaunch
<1> HIDE DEF q
<1>4. NumGroups <= q
  <2> DEFINE m == NumGroups - 1
  <2>1. m \in Nat /\ m * GroupSize < elements /\ m * GroupSize \in Nat
    BY <1>1
  <2>2. m < q => NumGroups <= q
    BY <1>1, <1>2
  <2> HIDE DEF m
  <2>3. q <= m => q * GroupSize <= m * GroupSize
    BY <1>1, <1>2, <2>1, ProductMonotonic
  <2>4. q * GroupSize \in Nat
    BY <1>1, <1>2, Products
  <2> QED
    BY <1>1, <1>2, <2>1, <2>2, <2>3, <2>4
<1>5. FirstKernel!Launched = NumGroups
  BY <1>1, <1>2, <1>3, <1>4
     DEF FirstKernel!Launched, FirstKernel!NumberOfGroups, FirstKernel!AtMost, FirstKernel!AtLeast, KernelLaunch
<1>6. FirstKernel!NumThreads = NumThreads
  BY <1>5 DEF FirstKernel!NumThreads, NumThreads, KernelLaunch
<1>7. FirstKernel!NumIterations = NumIterations
  BY <1>6 DEF FirstKernel!NumIterations, FirstKernel!DivRoundingUp, NumIterations, RoundingUp, KernelLaunch
<1> QED
  BY <1>5, <1>7 DEF FirstKernel!Group, FirstKernel!Index, KernelLaunch

(* Where the iteration the group is at starts, and ends.                    *)
LEMMA MappedFirst ==
  ASSUME FullyLaunched, KernelLaunch, KernelInv, ~ whole
  PROVE  /\ FirstKernel!First(group) = From(Done)
         /\ FirstKernel!Chunk(group) = {j \in 0..elements - 1 : From(Done) <= j /\ j < From(Done + 1)}
         /\ FirstKernel!LastOf(group) = Before(Done + 1) - 1
<1>1. group \in 0..NumGroups - 1 /\ elements \in Nat \ {0} /\ Done \in Nat /\ groupSize = GroupSize
  BY Launch DEF KernelInv, KernelShape, Done, KernelLaunch
<1>2. FirstKernel!NumIterations = NumIterations /\ FirstKernel!Index = 0..elements - 1
  BY MappedLaunch
<1>3. FirstKernel!First(group) = From(Done)
  <2>1. (IF whole THEN rounds ELSE OfGroup(Done, 0))[group] = Done
    BY <1>1 DEF OfGroup
  <2> QED
    BY <1>1, <1>2, <2>1 DEF FirstKernel!First, From, Start
<1>4. From(Done) + groupSize = From(Done + 1) /\ From(Done + 1) \in Nat
  BY <1>1, Launch DEF KernelInv
<1>5. FirstKernel!LastOf(group) = Before(Done + 1) - 1
  <2>1. Before(Done + 1) = IF From(Done + 1) < elements THEN From(Done + 1) ELSE elements
    BY DEF Before, From
  <2>2. FirstKernel!LastOf(group) = (IF elements < From(Done + 1) THEN elements ELSE From(Done + 1)) - 1
    BY <1>3, <1>4 DEF FirstKernel!LastOf, FirstKernel!AtMost, KernelLaunch
  <2> QED
    BY <1>1, <1>4, <2>1, <2>2
<1> QED
  BY <1>2, <1>3, <1>4, <1>5 DEF FirstKernel!Chunk

LEMMA MappedElements ==
  ASSUME NEW a \in Int, NEW b \in Int
  PROVE  FirstKernel!Elements(a, b) = Elements(a, b)
<1>1. 1..FirstKernel!AtLeast(b - a + 1, 0) = 1..b - a + 1
  BY DEF FirstKernel!AtLeast
<1> QED
  BY <1>1 DEF FirstKernel!Elements, Elements

(* The step in which the first thread takes the carry-out is the iteration  *)
(* of the group, ...                                                        *)
LEMMA IterateMapped ==
  ASSUME FullyLaunched, ~ whole, ~ whole', KernelLaunch, KernelInv, CarriesOn, CarriesOn',
         StoredSoFar, StoredSoFar', UNCHANGED <<group, elements>>, UNCHANGED scan,
         pc[0] = "carryOut", Done = iter[0], Done' = Done + 1
  PROVE  group \in FirstKernel!Group /\ FirstKernel!Iterate(group)
<1>1. /\ group \in 0..NumGroups - 1 /\ elements \in Nat \ {0} /\ 0 \in Thread /\ Start \in Nat
      /\ Done \in Nat /\ Done < NumIterations /\ NumIterations \in Nat
      /\ GroupSize \in Nat \ {0}
  <2>1. NumIterations \in Nat /\ iter[0] \in Nat /\ 0 \in Thread /\ Start \in Nat /\ GroupSize \in Nat \ {0}
    BY Launch DEF KernelInv
  <2>2. ~ (NumIterations <= iter[0])
    BY <2>1 DEF KernelInv
  <2> QED
    BY <2>1, <2>2 DEF KernelInv, KernelShape
<1>2. /\ From(Done) \in Nat /\ Start <= From(Done) /\ From(Done + 1) = From(Done) + GroupSize
      /\ From(Done + 1) \in Nat
  BY <1>1, Launch DEF KernelInv
<1>3. /\ FirstKernel!Group = 0..NumGroups - 1 /\ FirstKernel!Index = 0..elements - 1
      /\ FirstKernel!NumIterations = NumIterations
  BY MappedLaunch
<1>4. /\ FirstKernel!First(group) = From(Done)
      /\ FirstKernel!Chunk(group) = {j \in 0..elements - 1 : From(Done) <= j /\ j < From(Done + 1)}
      /\ FirstKernel!LastOf(group) = Before(Done + 1) - 1
  BY MappedFirst
<1>5. Start' = Start /\ From(Done)' = From(Done + 1) /\ Before(Done)' = Before(Done + 1)
  <2>1. Start' = Start /\ \A k : Before(k)' = Before(k) /\ From(k)' = From(k)
    BY LaunchKept DEF launch
  <2> QED
    BY <2>1 DEF Before, From
<1>6. accumulator[0] = Elements(Start, Before(Done) - 1)
      /\ accumulator'[0] = Elements(Start, Before(Done + 1) - 1)
  BY <1>5 DEF CarriesOn
<1>7. Before(Done) = Blocked!AtMost(From(Done), elements)
      /\ Before(Done + 1) = Blocked!AtMost(From(Done + 1), elements)
  <2>1. ASSUME NEW x \in Nat
        PROVE  Blocked!AtMost(x, elements) = IF x < elements THEN x ELSE elements
    BY <1>1, <2>1 DEF Blocked!AtMost
  <2>2. /\ Before(Done) = IF From(Done) < elements THEN From(Done) ELSE elements
        /\ Before(Done + 1) = IF From(Done + 1) < elements THEN From(Done + 1) ELSE elements
    BY DEF Before, From
  <2> QED
    BY <1>2, <2>1, <2>2
<1>8. Before(Done + 1) - 1 \in Int
  BY <1>1, <1>2, <1>7 DEF Blocked!AtMost
<1> DEFINE a == From(Done)
           b == From(Done + 1)
           before == IF whole THEN carry ELSE OfGroup(accumulator[0], <<>>)
<1>9. before[group] = accumulator[0]
  BY <1>1 DEF OfGroup
<1>10. [j \in 0..elements - 1 |-> StoredBy(j)]'
         = [j \in FirstKernel!Index |->
              IF j \in FirstKernel!Chunk(group)
              THEN before[group] \o FirstKernel!Elements(FirstKernel!First(group), j)
              ELSE [i \in 0..elements - 1 |-> StoredBy(i)][j]]
  <2> SUFFICES ASSUME NEW j \in 0..elements - 1
               PROVE  StoredBy(j)' = IF j \in FirstKernel!Chunk(group)
                                     THEN before[group] \o FirstKernel!Elements(FirstKernel!First(group), j)
                                     ELSE StoredBy(j)
    BY <1>3
  <2>1. j \in Nat /\ j < elements
    BY <1>1
  <2>2. /\ StoredBy(j) = IF Start <= j /\ j < a THEN Elements(Start, j) ELSE Garbage
        /\ StoredBy(j)' = IF Start <= j /\ j < b THEN Elements(Start, j) ELSE Garbage
    BY <1>5 DEF StoredSoFar
  <2>3. CASE j \in FirstKernel!Chunk(group)
    <3>1. a <= j /\ j < b
      BY <1>4, <2>3
    <3>2. Before(Done) = a
      BY <1>1, <1>2, <1>7, <2>1, <3>1 DEF Blocked!AtMost
    <3>3. FirstKernel!Elements(FirstKernel!First(group), j) = Elements(a, j)
      BY <1>2, <1>4, <2>1, MappedElements
    <3>4. a \in Int /\ Start \in Int /\ j \in Int /\ Start <= a /\ a - 1 <= j
      BY <1>1, <1>2, <2>1, <3>1
    <3> HIDE DEF a, b, before
    <3>5. Elements(Start, a - 1) \o Elements(a, j) = Elements(Start, j)
      BY <3>4, ElementsConcat
    <3>6. before[group] = Elements(Start, a - 1)
      BY <1>6, <1>9, <3>2
    <3>7. Start <= j
      BY <3>1, <3>4
    <3> QED
      BY <2>2, <2>3, <3>1, <3>3, <3>5, <3>6, <3>7
  <2>4. CASE j \notin FirstKernel!Chunk(group)
    <3>1. ~ (a <= j /\ j < b)
      BY <1>4, <2>4
    <3>2. a \in Nat /\ b \in Nat /\ a <= b
      BY <1>1, <1>2
    <3> HIDE DEF a, b, before
    <3>3. j < a <=> j < b
      BY <2>1, <3>1, <3>2
    <3> QED
      BY <2>2, <2>4, <3>3
  <2> QED
    BY <2>3, <2>4
<1>11. OfGroup(accumulator[0], <<>>)'
         = [before EXCEPT ![group] = @ \o FirstKernel!Elements(FirstKernel!First(group),
                                                               FirstKernel!LastOf(group))]
  <2>1. FirstKernel!Elements(FirstKernel!First(group), FirstKernel!LastOf(group))
          = Elements(a, Before(Done + 1) - 1)
    BY <1>2, <1>4, <1>8, MappedElements
  <2>2. Start \in Nat /\ a \in Nat /\ b \in Nat /\ elements \in Nat /\ Start <= a /\ a <= b
    BY <1>1, <1>2
  <2>3. Before(Done) = Blocked!AtMost(a, elements) /\ Before(Done + 1) = Blocked!AtMost(b, elements)
    BY <1>7
  <2>4. before = [g \in 0..NumGroups - 1 |-> IF g = group THEN accumulator[0] ELSE <<>>]
    BY DEF OfGroup
  <2>5. OfGroup(accumulator[0], <<>>)' = [g \in 0..NumGroups - 1 |-> IF g = group THEN accumulator'[0] ELSE <<>>]
    BY DEF OfGroup
  <2> HIDE DEF a, b, before
  <2>6. Elements(Start, Blocked!AtMost(a, elements) - 1) \o Elements(a, Blocked!AtMost(b, elements) - 1)
          = Elements(Start, Blocked!AtMost(b, elements) - 1)
    BY <2>2, ConcatUpTo
  <2>7. accumulator[0] \o Elements(a, Before(Done + 1) - 1) = accumulator'[0]
    BY <1>6, <2>3, <2>6
  <2> QED
    BY <1>1, <1>9, <2>1, <2>4, <2>5, <2>7
<1>12. OfGroup(Done, 0)' = [(IF whole THEN rounds ELSE OfGroup(Done, 0)) EXCEPT ![group] = @ + 1]
  BY <1>1 DEF OfGroup
<1>13. (IF whole THEN rounds ELSE OfGroup(Done, 0))[group] < FirstKernel!NumIterations
  BY <1>1, <1>3 DEF OfGroup
<1>14. OfGroup(Garbage, Garbage)' = OfGroup(Garbage, Garbage) /\ elements' = elements
  BY DEF OfGroup
<1>15. UNCHANGED <<groupSize, maxGroups, w, stage>> /\ stage = "scan1"
  BY DEF scan, KernelLaunch
<1> QED
  BY <1>1, <1>3, <1>10, <1>11, <1>12, <1>13, <1>14, <1>15 DEF FirstKernel!Iterate, FirstKernel!launch

(* ... and all others are none of BlockedScan's.                            *)
LEMMA StutterMapped ==
  ASSUME ~ whole, ~ whole', StoredSoFar, StoredSoFar', UNCHANGED <<group, elements>>, UNCHANGED scan,
         Done' = Done, accumulator'[0] = accumulator[0]
  PROVE  UNCHANGED FirstKernel!vars
<1>1. Start' = Start /\ From(Done)' = From(Done)
  <2>1. Start' = Start /\ \A k : From(k)' = From(k)
    BY LaunchKept DEF launch
  <2> QED
    BY <2>1 DEF From
<1>2. \A j \in 0..elements - 1 : StoredBy(j)' = StoredBy(j)
  BY <1>1 DEF StoredSoFar
<1>3. [j \in 0..elements - 1 |-> StoredBy(j)]' = [j \in 0..elements - 1 |-> StoredBy(j)]
  BY <1>2
<1>4. /\ OfGroup(Done, 0)' = OfGroup(Done, 0)
      /\ OfGroup(accumulator[0], <<>>)' = OfGroup(accumulator[0], <<>>)
      /\ OfGroup(Garbage, Garbage)' = OfGroup(Garbage, Garbage)
  BY DEF OfGroup
<1> QED
  BY <1>3, <1>4 DEF FirstKernel!vars, FirstKernel!launch, scan

(* A group that has done nothing yet, among others that do nothing.         *)
LEMMA InitMapped ==
  ASSUME FullyLaunched, ~ whole, KernelInit, KernelLaunch, StoredSoFar
  PROVE  FirstKernel!Init
<1>1. /\ group \in 0..NumGroups - 1 /\ elements \in ElementCounts /\ iter = [t \in Thread |-> 0]
      /\ pc = [t \in Thread |-> "fold"] /\ accumulator = [t \in Thread |-> <<>>]
      /\ 0 \in Thread /\ Start \in Nat /\ From(0) = Start
  <2>1. KernelShape
    BY InitKernel DEF KernelInv
  <2>2. 0 \in Thread /\ Start \in Nat /\ GroupSize \in Nat
    BY <2>1, Launch
  <2> QED
    BY <2>2 DEF KernelInit, From
<1>2. Done = 0
  BY <1>1 DEF Done
<1>3. FirstKernel!Group = 0..NumGroups - 1 /\ FirstKernel!Index = 0..elements - 1
  BY MappedLaunch
<1>4. OfGroup(Done, 0) = [g \in FirstKernel!Group |-> 0]
  BY <1>2, <1>3 DEF OfGroup
<1>5. OfGroup(accumulator[0], <<>>) = [g \in FirstKernel!Group |-> <<>>]
  BY <1>1, <1>3 DEF OfGroup
<1>6. [j \in 0..elements - 1 |-> StoredBy(j)] = [j \in FirstKernel!Index |-> FirstKernel!Scratch]
  <2>1. ASSUME NEW j \in 0..elements - 1 PROVE StoredBy(j) = FirstKernel!Scratch
    <3>1. ~ (Start <= j /\ j < From(Done))
      BY <1>1, <1>2
    <3> QED
      BY <3>1 DEF StoredSoFar, Garbage, FirstKernel!Scratch
  <2> QED
    BY <1>3, <2>1
<1>7. OfGroup(Garbage, Garbage) = [g \in FirstKernel!Group |-> FirstKernel!Scratch]
  BY <1>3 DEF OfGroup, Garbage, FirstKernel!Scratch
<1>8. [j \in 0..elements - 1 |-> Garbage] = [j \in FirstKernel!Index |-> FirstKernel!Scratch]
  BY <1>3 DEF Garbage, FirstKernel!Scratch
<1>9. /\ groupSize \in GroupSizes \cup {GroupSize} /\ maxGroups \in MaxNumGroups \cup {NumGroups}
      /\ w \in ScanLengths \cup ElementCounts /\ stage = "scan1"
  BY <1>1 DEF KernelLaunch
<1> QED
  BY <1>4, <1>5, <1>6, <1>7, <1>8, <1>9 DEF FirstKernel!Init

(* All of a scan is BlockedScan's as it is.                                 *)
LEMMA WholeMapped ==
  ASSUME whole
  PROVE  /\ FirstKernel!Launched = Blocked!Launched /\ FirstKernel!Group = Blocked!Group
         /\ FirstKernel!NumIterations = Blocked!NumIterations
         /\ FirstKernel!ElemsPerGroup = Blocked!ElemsPerGroup
         /\ FirstKernel!Index = Blocked!Index
         /\ \A g : /\ FirstKernel!First(g) = Blocked!First(g) /\ FirstKernel!Chunk(g) = Blocked!Chunk(g)
                   /\ FirstKernel!LastOf(g) = Blocked!LastOf(g)
         /\ \A a, b : FirstKernel!Elements(a, b) = Blocked!Elements(a, b)
<1>1. FirstKernel!Launched = Blocked!Launched
  BY DEF FirstKernel!Launched, Blocked!Launched, FirstKernel!NumberOfGroups, Blocked!NumberOfGroups,
         FirstKernel!AtMost, Blocked!AtMost, FirstKernel!AtLeast, Blocked!AtLeast,
         FirstKernel!DivRoundingUp, Blocked!DivRoundingUp
<1>2. FirstKernel!Group = Blocked!Group /\ FirstKernel!Index = Blocked!Index
  BY <1>1 DEF FirstKernel!Group, Blocked!Group, FirstKernel!Index, Blocked!Index
<1>3. FirstKernel!NumIterations = Blocked!NumIterations
  BY <1>1 DEF FirstKernel!NumIterations, Blocked!NumIterations, FirstKernel!NumThreads, Blocked!NumThreads,
              FirstKernel!DivRoundingUp, Blocked!DivRoundingUp
<1>4. FirstKernel!ElemsPerGroup = Blocked!ElemsPerGroup
  BY <1>3 DEF FirstKernel!ElemsPerGroup, Blocked!ElemsPerGroup
<1>5. ASSUME NEW g PROVE FirstKernel!First(g) = Blocked!First(g)
  BY <1>3 DEF FirstKernel!First, Blocked!First
<1>6. ASSUME NEW g
      PROVE  FirstKernel!Chunk(g) = Blocked!Chunk(g) /\ FirstKernel!LastOf(g) = Blocked!LastOf(g)
  BY <1>2, <1>5 DEF FirstKernel!Chunk, Blocked!Chunk, FirstKernel!LastOf, Blocked!LastOf,
                    FirstKernel!AtMost, Blocked!AtMost
<1>7. \A a, b : FirstKernel!Elements(a, b) = Blocked!Elements(a, b)
  BY DEF FirstKernel!Elements, Blocked!Elements, FirstKernel!AtLeast, Blocked!AtLeast
<1> QED
  BY <1>1, <1>2, <1>3, <1>4, <1>5, <1>6, <1>7

LEMMA WholeInitMapped ==
  ASSUME whole, Blocked!Init
  PROVE  FirstKernel!Init
<1>1. FirstKernel!Group = Blocked!Group /\ FirstKernel!Index = Blocked!Index
  BY WholeMapped
<1>2. FirstKernel!Scratch = Blocked!Scratch
  BY DEF FirstKernel!Scratch, Blocked!Scratch
<1> QED
  BY <1>1, <1>2 DEF FirstKernel!Init, Blocked!Init

LEMMA WholeIterateMapped ==
  ASSUME whole, whole', NEW g \in Blocked!Group, Blocked!Iterate(g)
  PROVE  FirstKernel!Iterate(g)
<1>1. /\ FirstKernel!NumIterations = Blocked!NumIterations /\ FirstKernel!Index = Blocked!Index
      /\ FirstKernel!First(g) = Blocked!First(g) /\ FirstKernel!Chunk(g) = Blocked!Chunk(g)
      /\ FirstKernel!LastOf(g) = Blocked!LastOf(g)
      /\ \A a, b : FirstKernel!Elements(a, b) = Blocked!Elements(a, b)
  BY WholeMapped
<1> QED
  BY <1>1 DEF FirstKernel!Iterate, Blocked!Iterate, FirstKernel!launch, Blocked!launch

LEMMA WholeMapMapped ==
  ASSUME whole, whole', Blocked!Map
  PROVE  FirstKernel!Map
<1>1. FirstKernel!ElemsPerGroup = Blocked!ElemsPerGroup /\ FirstKernel!Index = Blocked!Index
  BY WholeMapped
<1> QED
  BY <1>1 DEF FirstKernel!Map, Blocked!Map, FirstKernel!launch, Blocked!launch

(* The recursion of the second kernel has one solution, which both find.    *)
LEMMA WholeScanCarriesMapped ==
  ASSUME whole, whole', BlockedInv, Blocked!ScanCarries
  PROVE  FirstKernel!ScanCarries
<1>1. FirstKernel!Group = Blocked!Group /\ FirstKernel!NumIterations = Blocked!NumIterations
  BY WholeMapped
<1>2. \A g \in Blocked!Group : rounds[g] = Blocked!NumIterations
  BY DEF Blocked!ScanCarries
<1> DEFINE carries == IF whole THEN carry ELSE OfGroup(accumulator[0], <<>>)
           Solves(f) == f = [g \in FirstKernel!Group |->
                               IF g = 0 THEN carries[0] ELSE f[g - 1] \o carries[g]]
           closed == [g \in Blocked!Group |-> UpToPart(g)]
<1>3. carries = carry
  OBVIOUS
<1>4. \A f : Solves(f) <=> f = closed
  <2>1. \A f : f = [g \in Blocked!Group |-> IF g = 0 THEN carry[0] ELSE f[g - 1] \o carry[g]] <=> f = closed
    BY <1>2, PrefixesExact
  <2> HIDE DEF closed, carries
  <2> QED
    BY <1>1, <1>3, <2>1
<1> HIDE DEF Solves, closed
<1>5. (CHOOSE f : Solves(f)) = closed
  <2>1. Solves(CHOOSE f : Solves(f))
    BY <1>4
  <2> QED
    BY <1>4, <2>1
<1>6. carryScanned' = closed
  <2>1. Prefixes = closed
    BY <1>2, PrefixesExact DEF closed
  <2> QED
    BY <2>1 DEF Blocked!ScanCarries, Prefixes
<1>7. (CHOOSE f : Solves(f)) = carryScanned'
  BY <1>5, <1>6
<1>8. (IF whole THEN carryScanned ELSE OfGroup(Garbage, Garbage))' =
        LET upTo[g \in FirstKernel!Group] == IF g = 0 THEN carries[0] ELSE upTo[g - 1] \o carries[g]
        IN upTo
  BY <1>7 DEF Solves
<1>9. /\ UNCHANGED <<groupSize, maxGroups, w, rounds, carry, seqScanned, result>>
      /\ stage = "scan1" /\ stage' = "map"
  BY DEF Blocked!ScanCarries, Blocked!launch
<1> QED
  BY <1>1, <1>2, <1>8, <1>9 DEF FirstKernel!ScanCarries, FirstKernel!launch

Counted == ~ whole => KernelLaunch /\ CarriesOn /\ StoredInOrder
SoFar == ~ whole => StoredSoFar

LEMMA InitCounts ==
  ASSUME KernelInit
  PROVE  CarriesOn /\ StoredInOrder
<1>1. /\ KernelInv /\ 0 \in Thread /\ Start \in Nat /\ GroupSize \in Nat
  BY InitKernel, Launch DEF KernelInv
<1>2. pc[0] = "fold" /\ iter[0] = 0 /\ Done = iter[0] + 0 /\ scanout = <<>>
      /\ \A t \in Thread : pc[t] = "fold"
  BY <1>1 DEF KernelInit, Done
<1>3. CarriesOn
  BY <1>1, <1>2 DEF KernelInv, CarryExact, CarriesOn
<1>4. \A j \in Nat : ~ HasStored(j)
  <2>1. From(iter[0]) = Start
    BY <1>1, <1>2 DEF From
  <2> QED
    BY <1>1, <1>2, <2>1 DEF HasStored, Late
<1>5. DOMAIN scanout = {}
  BY <1>2
<1> QED
  BY <1>3, <1>4, <1>5 DEF StoredInOrder

LEMMA StepCounts ==
  ASSUME Settled, ~ whole, GroupInv, Counted, [Step]_everything
  PROVE  /\ ~ whole' /\ Counted' /\ UNCHANGED <<group, elements>> /\ UNCHANGED scan
         /\ \/ Done' = Done /\ accumulator'[0] = accumulator[0]
            \/ pc[0] = "carryOut" /\ Done = iter[0] /\ Done' = Done + 1
<1>1. ~ whole' /\ UNCHANGED scan /\ (KernelNext \/ UNCHANGED allVars)
  BY DEF Step, everything
<1>2. KernelInv /\ KernelLaunch /\ CarriesOn /\ StoredInOrder
  BY DEF GroupInv, Counted
<1>3. KernelLaunch' <=> (KernelLaunch /\ elements' = elements)
  BY <1>1, <1>2 DEF KernelLaunch, scan
<1>4. CASE \E T \in Waves : StoreScanned(T) \/ CarryOut(T)
  BY <1>1, <1>2, <1>3, <1>4, StoreScannedCounts, CarryOutCounts DEF Counted
<1>5. CASE CarryOutBarrier
  BY <1>1, <1>2, <1>3, <1>5, CarryOutBarrierCounts DEF Counted
<1>6. CASE /\ UNCHANGED <<group, elements, iter, accumulator, scanout>>
           /\ \A t \in Thread : pc'[t] = pc[t] \/ (pc[t] \notin Late /\ pc'[t] \notin Late)
  BY <1>1, <1>2, <1>3, <1>6, OtherStepsCount DEF Counted
<1>7. CASE UNCHANGED allVars
  <2>1. /\ UNCHANGED <<group, elements, iter, accumulator, scanout>>
        /\ \A t \in Thread : pc'[t] = pc[t] \/ (pc[t] \notin Late /\ pc'[t] \notin Late)
    BY <1>7 DEF allVars, vars, kernel
  <2> QED
    BY <1>6, <2>1
<1> QED
  BY <1>1, <1>2, <1>4, <1>5, <1>6, <1>7, KindsOfSteps

(* The waves of a group do what BlockedScan has as one step, and the whole  *)
(* of a scan is BlockedScan's: what is scanned, stored and carried changes  *)
(* in the step in which the first thread takes the carry-out, and in no     *)
(* other.  It is so for a kernel of as many groups as numberOfGroups        *)
(* launches, which is no more than there are parts of a group's size.       *)
THEOREM GroupsIterate ==
  ASSUME Settled, FullyLaunched
  PROVE  Scans => ImplementsIterations
<1>1. Begin => FirstKernel!Init /\ Counted
  <2> SUFFICES ASSUME Begin PROVE FirstKernel!Init /\ Counted
    OBVIOUS
  <2>1. CASE whole
    BY <2>1, WholeInitMapped DEF Begin, ScanInit, Counted
  <2>2. CASE ~ whole
    <3>1. KernelInit /\ KernelLaunch
      BY <2>2 DEF Begin, ScanInit, KernelLaunch, KernelInit
    <3>2. CarriesOn /\ StoredInOrder /\ KernelInv
      BY <3>1, InitCounts, InitKernel
    <3>3. StoredSoFar
      BY <3>2, StoredValue
    <3> QED
      BY <2>2, <3>1, <3>2, <3>3, InitMapped DEF Counted
  <2> QED
    BY <2>1, <2>2
<1>2. GroupInv /\ Counted /\ [Step]_everything => Counted'
  <2> SUFFICES ASSUME GroupInv, Counted, [Step]_everything PROVE Counted'
    OBVIOUS
  <2>1. CASE whole
    BY <2>1 DEF Step, everything, Counted
  <2>2. CASE ~ whole
    BY <2>2, StepCounts
  <2> QED
    BY <2>1, <2>2
<1>3. GroupInv /\ Counted => SoFar
  BY StoredValue DEF GroupInv, Counted, SoFar
<1>4. WholeInv /\ GroupInv /\ Counted /\ SoFar /\ Counted' /\ SoFar' /\ [Step]_everything
        => [FirstKernel!Next]_(FirstKernel!vars)
  <2> SUFFICES ASSUME WholeInv, GroupInv, Counted, SoFar, Counted', SoFar', [Step]_everything
               PROVE  FirstKernel!Next \/ UNCHANGED FirstKernel!vars
    OBVIOUS
  <2>1. CASE whole
    <3>1. BlockedInv /\ whole' /\ (Blocked!Next \/ UNCHANGED scan)
      BY <2>1 DEF WholeInv, Step, everything
    <3>2. CASE \E g \in Blocked!Group : Blocked!Iterate(g)
      BY <2>1, <3>1, <3>2, WholeIterateMapped, WholeMapped DEF FirstKernel!Next
    <3>3. CASE Blocked!ScanCarries
      BY <2>1, <3>1, <3>3, WholeScanCarriesMapped DEF FirstKernel!Next
    <3>4. CASE Blocked!Map
      BY <2>1, <3>1, <3>4, WholeMapMapped DEF FirstKernel!Next
    <3>5. CASE UNCHANGED scan
      BY <2>1, <3>1, <3>5 DEF scan, FirstKernel!vars, FirstKernel!launch
    <3> QED
      BY <3>1, <3>2, <3>3, <3>4, <3>5 DEF Blocked!Next
  <2>2. CASE ~ whole
    <3>1. /\ ~ whole' /\ UNCHANGED <<group, elements>> /\ UNCHANGED scan
          /\ \/ Done' = Done /\ accumulator'[0] = accumulator[0]
             \/ pc[0] = "carryOut" /\ Done = iter[0] /\ Done' = Done + 1
      BY <2>2, StepCounts
    <3>2. /\ KernelInv /\ KernelLaunch /\ CarriesOn /\ StoredSoFar
          /\ CarriesOn' /\ StoredSoFar'
      BY <2>2, <3>1 DEF GroupInv, Counted, SoFar
    <3>3. CASE Done' = Done /\ accumulator'[0] = accumulator[0]
      BY <2>2, <3>1, <3>2, <3>3, StutterMapped
    <3>4. CASE pc[0] = "carryOut" /\ Done = iter[0] /\ Done' = Done + 1
      <4>1. group \in FirstKernel!Group /\ FirstKernel!Iterate(group)
        BY <2>2, <3>1, <3>2, <3>4, IterateMapped
      <4> QED
        BY <4>1 DEF FirstKernel!Next
    <3> QED
      BY <3>1, <3>3, <3>4
  <2> QED
    BY <2>1, <2>2
<1> QED
  BY <1>1, <1>2, <1>3, <1>4, WholeInvariance, GroupInvariance, PTL
     DEF Scans, ImplementsIterations, FirstKernel!Spec
=============================================================================
