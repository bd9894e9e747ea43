--------------------------- MODULE Python_proofs ----------------------------
(***************************************************************************)
(* Compiled Python programs compute the values of Primitive.hs, for all    *)
(* widths of the integer types; and they read their input, whatever it is, *)
(* once and to the end.                                                    *)
(*                                                                         *)
(* PyScalar.  The invariant says how x is related to v in each state of    *)
(* trust: it is v, or it is a number of a type at least as wide that       *)
(* differs from v by a multiple of the modulus.  What has to be shown of   *)
(* each operator is that it keeps the relation its row in PyScalar claims. *)
(*                                                                         *)
(* PyValues, in the second half.  One lemma for each function of the       *)
(* reader says that it reads on: it leaves a later reader of the same      *)
(* input and does not return only at the two ends of the input that        *)
(* HangsOnlyAtTheEnd names.  Functions called one after the other and      *)
(* optional ones keep that; the functions that read lists call each other, *)
(* with fewer characters every time.                                       *)
(***************************************************************************)
EXTENDS PyScalar, PyValues, SequenceTheorems, WellFoundedInduction, TLAPS

(***************************************************************************)
(* Division with a positive divisor                                        *)
(***************************************************************************)
LEMMA DivMod ==
  ASSUME NEW m \in Nat \ {0}, NEW n \in Int
  PROVE  /\ n % m \in 0..(m - 1)
         /\ n \div m \in Int
         /\ n = m * (n \div m) + (n % m)
BY Z3

LEMMA ModUnique ==
  ASSUME NEW m \in Nat \ {0}, NEW n \in Int, NEW q \in Int, NEW r \in 0..(m - 1),
         n = m * q + r
  PROVE  n % m = r
<1> DEFINE d == n \div m - q
<1>1. n % m \in 0..(m - 1) /\ n \div m \in Int /\ n = m * (n \div m) + (n % m)
  BY DivMod
<1>2. d \in Int /\ n % m \in Int /\ r \in Int
  BY <1>1
<1>3. m * d = r - (n % m)
  BY <1>1
<1>4. -m < m * d /\ m * d < m
  BY <1>1, <1>3
<1> HIDE DEF d
<1>5. d >= 1 => m * d >= m
  BY <1>2, Z3
<1>6. d <= -1 => m * d <= -m
  BY <1>2, Z3
<1>7. d = 0
  BY <1>2, <1>4, <1>5, <1>6
<1> QED BY <1>2, <1>3, <1>7

LEMMA ModShift ==
  ASSUME NEW m \in Nat \ {0}, NEW n \in Int, NEW k \in Int
  PROVE  (n + k * m) % m = n % m
<1>1. n % m \in 0..(m - 1) /\ n \div m \in Int /\ n = m * (n \div m) + (n % m)
  BY DivMod
<1>2. n + k * m = m * (n \div m + k) + (n % m)
  BY <1>1
<1>3. n + k * m \in Int /\ n \div m + k \in Int
  BY <1>1
<1> QED BY ONLY <1>1, <1>2, <1>3, ModUnique, m \in Nat \ {0}

LEMMA ModSmall ==
  ASSUME NEW m \in Nat \ {0}, NEW n \in 0..(m - 1)
  PROVE  n % m = n
<1>1. n = m * 0 + n
  OBVIOUS
<1> QED BY ONLY <1>1, ModUnique, m \in Nat \ {0}, n \in 0..(m - 1), n \in Int, 0 \in Int

(* A quotient of natural numbers is no larger than the dividend.            *)
LEMMA DivSmall ==
  ASSUME NEW a \in Nat, NEW b \in Nat \ {0}
  PROVE  a \div b \in 0..a
<1>1. a % b \in 0..(b - 1) /\ a \div b \in Int /\ a = b * (a \div b) + (a % b)
  BY DivMod
<1> DEFINE q == a \div b
<1>2. q \in Int /\ b * q <= a /\ b * q > a - b
  BY <1>1
<1> HIDE DEF q
<1>3. q >= 0
  <2>1. q <= -1 => b * q <= -b
    BY <1>2, Z3
  <2> QED BY <1>2, <2>1
<1>4. b * q >= q
  BY <1>2, <1>3, Z3
<1>5. q <= a
  BY <1>2, <1>4
<1> QED BY <1>2, <1>3, <1>5 DEF q

(***************************************************************************)
(* Wrapping around                                                         *)
(***************************************************************************)
(* Half of a modulus is a number, and at least 2.                           *)
LEMMA Half ==
  ASSUME NEW m \in Modulus
  PROVE  /\ m \in Nat \ {0}
         /\ m \div 2 \in Nat
         /\ m = 2 * (m \div 2)
         /\ m \div 2 >= 2
         /\ Low(m) = -(m \div 2)
<1>1. PICK h \in 2..m : m = 2 * h
  BY ModulusAssumption
<1>2. m \in Nat /\ h \in Nat
  BY ModulusAssumption
<1>3. m \div 2 = h
  BY <1>1, <1>2
<1> QED BY <1>1, <1>2, <1>3 DEF Low

LEMMA WrapRange ==
  ASSUME NEW m \in Modulus, NEW n \in Int
  PROVE  Wrap(m, n) \in Numbers(m) /\ Wrap(m, n) \in Int
<1>1. n - Low(m) \in Int
  BY Half
<1>2. (n - Low(m)) % m \in 0..(m - 1)
  BY <1>1, Half, DivMod
<1> QED BY <1>2, Half DEF Wrap, Numbers

LEMMA WrapNumber ==
  ASSUME NEW m \in Modulus, NEW n \in Numbers(m)
  PROVE  Wrap(m, n) = n
<1>1. n - Low(m) \in 0..(m - 1)
  BY Half DEF Numbers
<1>2. (n - Low(m)) % m = n - Low(m)
  BY <1>1, Half, ModSmall
<1> QED BY <1>2, Half DEF Wrap, Numbers

(* Numbers that differ by a multiple of the modulus wrap to the same.       *)
LEMMA WrapShift ==
  ASSUME NEW m \in Modulus, NEW n \in Int, NEW k \in Int
  PROVE  Wrap(m, n + k * m) = Wrap(m, n)
<1>1. n - Low(m) \in Int /\ k * m \in Int /\ m \in Nat \ {0}
  BY Half
<1>2. ((n - Low(m)) + k * m) % m = (n - Low(m)) % m
  BY <1>1, ModShift
<1>3. (n + k * m) - Low(m) = (n - Low(m)) + k * m
  BY <1>1, Half
<1> QED BY <1>2, <1>3 DEF Wrap

(* A number wraps to one that differs from it by a multiple.                *)
LEMMA WrapDiffers ==
  ASSUME NEW m \in Modulus, NEW n \in Int
  PROVE  \E k \in Int : Wrap(m, n) = n + k * m
<1> DEFINE a == n - Low(m)
<1>1. a \in Int /\ m \in Nat \ {0} /\ Low(m) \in Int
  BY Half
<1> HIDE DEF a
<1>2. a \div m \in Int /\ a % m \in Int /\ a = m * (a \div m) + (a % m)
  BY <1>1, DivMod
<1> DEFINE k == -(a \div m)
<1>3. k \in Int /\ a % m = a + k * m
  BY <1>1, <1>2
<1> HIDE DEF k
<1>4. Wrap(m, n) = n + k * m
  <2>1. n = a + Low(m)
    BY Half DEF a
  <2>2. k * m \in Int
    BY <1>1, <1>3
  <2> QED BY <1>1, <1>3, <2>1, <2>2 DEF Wrap, a
<1> QED BY <1>3, <1>4

LEMMA WordRange ==
  ASSUME NEW m \in Modulus, NEW n \in Int
  PROVE  Word(m, n) \in 0..(m - 1) /\ Word(m, n) \in Nat
<1>1. m \in Nat \ {0}
  BY Half
<1>2. n % m \in 0..(m - 1)
  BY <1>1, DivMod
<1> QED BY <1>1, <1>2 DEF Word

(* No number but the multiples of the modulus has no bit set.               *)
LEMMA WordZero ==
  ASSUME NEW m \in Modulus, NEW n \in Numbers(m), n # 0
  PROVE  Word(m, n) # 0
<1>1. n \in Int /\ m \in Nat \ {0} /\ n < m /\ n > -m
  BY Half DEF Numbers
<1>2. CASE n > 0
  BY <1>1, <1>2, ModSmall DEF Word
<1>3. CASE n < 0
  <2>1. n + m \in 0..(m - 1) /\ n + m # 0
    BY <1>1, <1>3
  <2>2. (n + 1 * m) % m = n % m
    <3>1. 1 \in Int
      OBVIOUS
    <3> QED BY ONLY <1>1, <3>1, ModShift
  <2>3. n + 1 * m = n + m
    BY <1>1
  <2> QED BY <1>1, <2>1, <2>2, <2>3, ModSmall DEF Word
<1> QED BY <1>1, <1>2, <1>3

(***************************************************************************)
(* Operators on exact values                                               *)
(***************************************************************************)
(* An operation on two integers of one type wraps around in it.             *)
LEMMA ArithInt ==
  ASSUME NEW m \in Modulus, NEW a, NEW b, NEW n
  PROVE  Arith(SInt(m, a), SInt(m, b), n) = intValue(m, n)
BY DEF Arith, SInt, NpInt, Larger, intValue

LEMMA ArithUInt ==
  ASSUME NEW m \in Modulus, NEW a, NEW b, NEW n
  PROVE  Arith(UInt(m, a), UInt(m, b), n) = UInt(m, n % m)
BY DEF Arith, UInt, NpUInt, Larger

LEMMA UnsignedInt ==
  ASSUME NEW m, NEW a
  PROVE  unsigned(SInt(m, a)) = UInt(m, Word(m, a))
BY DEF unsigned, SInt, NpUInt, Word

LEMMA SignedUInt ==
  ASSUME NEW m, NEW a
  PROVE  signed(UInt(m, a)) = intValue(m, a)
BY DEF signed, UInt, NpInt, intValue

LEMMA Fields ==
  ASSUME NEW m, NEW a
  PROVE  /\ SInt(m, a).kind = "int" /\ SInt(m, a).mod = m /\ SInt(m, a).val = a
         /\ UInt(m, a).kind = "uint" /\ UInt(m, a).mod = m /\ UInt(m, a).val = a
         /\ Float(a).kind = "float" /\ Float(a).val = a
BY DEF SInt, UInt, Float

(* Quotient and remainder of the bits fit into the unsigned type.           *)
LEMMA UDivExact ==
  ASSUME NEW m \in Modulus, NEW a \in Numbers(m), NEW b \in Numbers(m), b # 0
  PROVE  /\ udivN(SInt(m, a), SInt(m, b)) = intValue(m, FloorDiv(Word(m, a), Word(m, b)))
         /\ umodN(SInt(m, a), SInt(m, b)) = intValue(m, FloorMod(Word(m, a), Word(m, b)))
<1> DEFINE A == Word(m, a)
           B == Word(m, b)
           q == FloorDiv(A, B)
           r == FloorMod(A, B)
<1>1. a \in Int /\ b \in Int /\ m \in Nat \ {0}
  BY Half DEF Numbers
<1>2. A \in 0..(m - 1) /\ A \in Nat /\ B \in 0..(m - 1) /\ B \in Nat /\ B # 0
  BY <1>1, WordRange, WordZero
<1> HIDE DEF A, B
<1>3. q = A \div B /\ r = A - B * (A \div B)
  BY <1>2 DEF FloorDiv, FloorMod
<1>4. q \in 0..(m - 1)
  <2>1. A \div B \in 0..A
    BY <1>2, DivSmall
  <2> QED BY <1>1, <1>2, <1>3, <2>1
<1>5. r \in 0..(m - 1)
  <2>1. A % B \in 0..(B - 1) /\ A \div B \in Int /\ A = B * (A \div B) + (A % B)
    BY <1>2, DivMod
  <2>2. r = A % B
    BY <1>2, <1>3, <2>1
  <2> QED BY <1>1, <1>2, <2>1, <2>2
<1> HIDE DEF q, r
<1>6. q % m = q /\ r % m = r
  BY <1>1, <1>4, <1>5, ModSmall
<1>7. unsigned(SInt(m, a)) = UInt(m, A) /\ unsigned(SInt(m, b)) = UInt(m, B)
  BY UnsignedInt DEF A, B
<1>8. udivN(SInt(m, a), SInt(m, b)) = signed(UInt(m, q))
  BY <1>6, <1>7, ArithUInt, Fields DEF udivN, q
<1>9. umodN(SInt(m, a), SInt(m, b)) = signed(UInt(m, r))
  BY <1>6, <1>7, ArithUInt, Fields DEF umodN, r
<1> QED BY <1>8, <1>9, SignedUInt DEF q, r, A, B

(* The smaller and the larger of two numbers, of either signedness.         *)
LEMMA MinMaxExact ==
  ASSUME NEW m \in Modulus, NEW a \in Numbers(m), NEW b \in Numbers(m)
  PROVE  /\ sminN(SInt(m, a), SInt(m, b)) = intValue(m, Smaller(a, b))
         /\ smaxN(SInt(m, a), SInt(m, b)) = intValue(m, Larger(a, b))
         /\ uminN(SInt(m, a), SInt(m, b)) = intValue(m, Smaller(Word(m, a), Word(m, b)))
         /\ umaxN(SInt(m, a), SInt(m, b)) = intValue(m, Larger(Word(m, a), Word(m, b)))
<1>1. Wrap(m, a) = a /\ Wrap(m, b) = b
  BY WrapNumber
<1>2. sminN(SInt(m, a), SInt(m, b)) = SInt(m, Smaller(a, b))
  BY Fields DEF sminN, Smaller
<1>3. smaxN(SInt(m, a), SInt(m, b)) = SInt(m, Larger(a, b))
  BY Fields DEF smaxN, Larger
<1>4. Smaller(a, b) \in {a, b} /\ Larger(a, b) \in {a, b}
  BY DEF Smaller, Larger
<1>5. \A A, B : /\ sminN(UInt(m, A), UInt(m, B)) = UInt(m, Smaller(A, B))
               /\ smaxN(UInt(m, A), UInt(m, B)) = UInt(m, Larger(A, B))
  BY Fields DEF sminN, smaxN, Smaller, Larger
<1>6. uminN(SInt(m, a), SInt(m, b)) = intValue(m, Smaller(Word(m, a), Word(m, b)))
  BY <1>5, UnsignedInt, SignedUInt DEF uminN
<1>7. umaxN(SInt(m, a), SInt(m, b)) = intValue(m, Larger(Word(m, a), Word(m, b)))
  BY <1>5, UnsignedInt, SignedUInt DEF umaxN
<1>8. intValue(m, Smaller(a, b)) = SInt(m, Smaller(a, b)) /\ intValue(m, Larger(a, b)) = SInt(m, Larger(a, b))
  BY <1>1, <1>4 DEF intValue
<1> QED BY <1>2, <1>3, <1>6, <1>7, <1>8

(* Signs and, but for the smallest number, magnitudes are in the type.      *)
LEMMA SignExact ==
  ASSUME NEW m \in Modulus, NEW a \in Numbers(m)
  PROVE  /\ signN(SInt(m, a)) = SInt(m, Sign(a))
         /\ intValue(m, Sign(a)) = SInt(m, Sign(a))
<1>1. Sign(a) \in Numbers(m)
  BY Half DEF Sign, Numbers
<1>2. intValue(m, Sign(a)) = SInt(m, Sign(a))
  BY <1>1, WrapNumber DEF intValue
<1> QED BY <1>2, ArithInt, Fields DEF signN

LEMMA AbsExact ==
  ASSUME NEW m \in Modulus, NEW a \in Numbers(m), a # Low(m)
  PROVE  /\ absN(SInt(m, a)) = SInt(m, Magnitude(a))
         /\ Magnitude(a) \in 0..(m \div 2 - 1)
         /\ Magnitude(a) = a * Sign(a)
<1>1. Magnitude(a) \in 0..(m \div 2 - 1)
  BY Half DEF Magnitude, Numbers
<1>2. Magnitude(a) \in Numbers(m)
  BY <1>1, Half DEF Numbers
<1>3. intValue(m, Magnitude(a)) = SInt(m, Magnitude(a))
  BY <1>2, WrapNumber DEF intValue
<1>4. absN(SInt(m, a)) = SInt(m, Magnitude(a))
  BY <1>3, ArithInt, Fields DEF absN
<1>5. Magnitude(a) = a * Sign(a)
  BY Half DEF Magnitude, Sign, Numbers
<1> QED BY <1>1, <1>4, <1>5

(* Dividing magnitudes and putting the signs back rounds towards zero.      *)
LEMMA QuotExact ==
  ASSUME NEW m \in Modulus, NEW a \in Numbers(m), NEW b \in Numbers(m),
         b # 0, a # Low(m), b # Low(m)
  PROVE  /\ squotN(SInt(m, a), SInt(m, b)) = intValue(m, Quot(a, b))
         /\ sremN(SInt(m, a), SInt(m, b)) = intValue(m, Rem(a, b))
<1> DEFINE A == Magnitude(a)
           B == Magnitude(b)
           q == A \div B
           r == A - B * q
           h == m \div 2
<1>1. /\ a \in Int /\ b \in Int /\ h \in Nat
      /\ A \in 0..(h - 1) /\ B \in 0..(h - 1) /\ B # 0
      /\ Numbers(m) = -h..(h - 1)
  BY AbsExact, Half DEF Magnitude, Numbers
<1>2. absN(SInt(m, a)) = SInt(m, A) /\ absN(SInt(m, b)) = SInt(m, B)
  BY AbsExact
<1>3. signN(SInt(m, a)) = SInt(m, Sign(a)) /\ signN(SInt(m, b)) = SInt(m, Sign(b))
  BY SignExact
<1>4. /\ a < 0 => A = -a /\ Sign(a) = -1
      /\ a = 0 => A = 0 /\ Sign(a) = 0
      /\ a > 0 => A = a /\ Sign(a) = 1
      /\ b < 0 => B = -b /\ Sign(b) = -1
      /\ b > 0 => B = b /\ Sign(b) = 1
  BY <1>1 DEF Sign, Magnitude
<1>5. Quot(a, b) = IF (a < 0) = (b < 0) THEN q ELSE -q
  BY DEF Quot
<1> HIDE DEF A, B, h
<1>6. q \in 0..A
  BY <1>1, DivSmall
<1>7. r \in 0..(B - 1)
  <2>1. A \in Int /\ B \in Nat \ {0}
    BY <1>1
  <2>2. A % B \in 0..(B - 1) /\ q \in Int /\ A = B * q + (A % B)
    BY ONLY <2>1, DivMod
  <2> QED BY <2>1, <2>2
<1>8. FloorDiv(A, B) = q /\ FloorMod(A, B) = r
  BY <1>1 DEF FloorDiv, FloorMod
<1> HIDE DEF q
<1>9. A = 0 => q = 0
  BY <1>6
<1>10. r \in Int /\ q \in Int /\ Sign(a) \in {-1, 0, 1} /\ Sign(b) \in {-1, 1}
  BY <1>1, <1>4, <1>6, <1>7
<1>11. Rem(a, b) = r * Sign(a)
  <2>1. Rem(a, b) = a - b * Quot(a, b)
    BY DEF Rem
  <2>2. CASE a = 0
    BY <1>1, <1>4, <1>5, <1>9, <1>10, <2>1, <2>2
  <2>3. CASE a > 0 /\ b > 0
    BY <1>1, <1>4, <1>5, <1>10, <2>1, <2>3
  <2>4. CASE a > 0 /\ b < 0
    BY <1>1, <1>4, <1>5, <1>10, <2>1, <2>4
  <2>5. CASE a < 0 /\ b > 0
    BY <1>1, <1>4, <1>5, <1>10, <2>1, <2>5
  <2>6. CASE a < 0 /\ b < 0
    BY <1>1, <1>4, <1>5, <1>10, <2>1, <2>6
  <2> QED BY <1>1, <2>2, <2>3, <2>4, <2>5, <2>6
<1>12. Quot(a, b) = (q * Sign(a)) * Sign(b)
  BY <1>1, <1>4, <1>5, <1>9, <1>10
<1> HIDE DEF r
<1>13. /\ q \in Numbers(m) /\ r \in Numbers(m)
       /\ q * Sign(a) \in Numbers(m) /\ r * Sign(a) \in Numbers(m)
  BY <1>1, <1>6, <1>7, <1>10
<1>14. \A n \in Numbers(m) : intValue(m, n) = SInt(m, n)
  BY WrapNumber DEF intValue
<1>15. squotN(SInt(m, a), SInt(m, b)) = intValue(m, (q * Sign(a)) * Sign(b))
  BY <1>2, <1>3, <1>8, <1>13, <1>14, ArithInt, Fields DEF squotN
<1>16. sremN(SInt(m, a), SInt(m, b)) = intValue(m, r * Sign(a))
  BY <1>2, <1>3, <1>8, <1>13, <1>14, ArithInt, Fields DEF sremN
<1> QED BY <1>11, <1>12, <1>15, <1>16

LEMMA USignumExact ==
  ASSUME NEW m \in Modulus, NEW a \in Numbers(m), a # Low(m)
  PROVE  usignum(SInt(m, a)) = intValue(m, Sign(Word(m, a)))
<1>1. a \in Int /\ Word(m, a) \in Nat
  BY WordRange DEF Numbers, Low
<1>2. CASE a = 0
  <2>1. Word(m, 0) = 0
    BY Half, ModSmall DEF Word
  <2>2. 0 \in Numbers(m)
    BY Half DEF Numbers
  <2> QED BY <1>2, <2>1, <2>2, SignExact, Fields DEF usignum
<1>3. CASE a > 0
  <2>1. Sign(Word(m, a)) = 1 /\ Sign(a) = 1
    BY <1>1, <1>3, WordZero DEF Sign
  <2> QED BY <1>1, <1>3, <2>1, SignExact, Fields DEF usignum
<1>4. CASE a < 0
  <2>1. Sign(Word(m, a)) = 1 /\ Sign(-a) = 1
    BY <1>1, <1>4, WordZero DEF Sign
  <2>2. -a \in Numbers(m)
    BY <1>1, <1>4, Half DEF Numbers
  <2>3. Arith(SInt(m, a), SInt(m, a), -a) = SInt(m, -a)
    BY <2>2, ArithInt, WrapNumber DEF intValue
  <2>4. usignum(SInt(m, a)) = signN(SInt(m, -a))
    BY <1>4, <2>3, Fields DEF usignum
  <2> QED BY <2>1, <2>2, <2>4, SignExact
<1> QED BY <1>1, <1>2, <1>3, <1>4

(***************************************************************************)
(* Values of which only the bits are right                                 *)
(***************************************************************************)
(* z stands, in a type at least as wide, for a number that differs from n   *)
(* by a multiple of m.                                                      *)
SameBits(z, m, n) ==
  /\ z.kind \in {"int", "uint"}
  /\ z.mod \in Modulus
  /\ z.mod >= m
  /\ z.val \in Int
  /\ \E k \in Int : z.val = n + k * m
  /\ z.kind = "uint" => z.mod = m /\ z.val \in 0..(m - 1)

(* The bits are those of the number.                                        *)
LEMMA SameWord ==
  ASSUME NEW z, NEW m \in Modulus, NEW n \in Int, SameBits(z, m, n)
  PROVE  z.val % m = Word(m, n)
<1>1. PICK k \in Int : z.val = n + k * m
  BY DEF SameBits
<1>2. (n + k * m) % m = n % m
  BY Half, ModShift
<1> QED BY <1>1, <1>2 DEF Word

(* Wrapping around in a type keeps the differences by multiples of the      *)
(* moduli of smaller types.                                                 *)
LEMMA WrapWider ==
  ASSUME NEW m \in Modulus, NEW w \in Modulus, m <= w,
         NEW n \in Int, NEW b \in Int, NEW k \in Int, n = b + k * m
  PROVE  SameBits(SInt(w, Wrap(w, n)), m, Wrap(m, b))
<1>1. PICK i \in Int : Wrap(w, n) = n + i * w
  BY WrapDiffers
<1>2. PICK j \in Int : Wrap(m, b) = b + j * m
  BY WrapDiffers
<1>3. PICK q \in 1..w : w = q * m
  BY ModulusAssumption
<1>4. m \in Nat /\ w \in Nat /\ q \in Int
  BY <1>3, Half
<1>5. (k - j + i * q) \in Int
  BY <1>1, <1>2, <1>4
<1>6. Wrap(w, n) = Wrap(m, b) + (k - j + i * q) * m
  BY <1>1, <1>2, <1>3, <1>4
<1>7. Wrap(w, n) \in Int
  BY WrapRange
<1>8. \E i0 \in Int : Wrap(w, n) = Wrap(m, b) + i0 * m
  BY <1>5, <1>6
<1>9. w >= m
  BY <1>4
<1>10. SInt(w, Wrap(w, n)).kind # "uint"
  BY Fields
<1> QED BY <1>7, <1>8, <1>9, <1>10, Fields DEF SameBits

(* An operation on such a value and a number of the type is done in the     *)
(* wider type, or in the next one if the value is unsigned.                 *)
LEMMA ArithBits ==
  ASSUME NEW z, NEW m \in Modulus, NEW n, SameBits(z, m, n),
         ~(z.kind = "uint" /\ z.mod = Top), NEW c
  PROVE  \E w \in Modulus : w >= m /\ \A l : Arith(z, SInt(m, c), l) = SInt(w, Wrap(w, l))
<1>1. CASE z.kind = "int"
  <2>0. z.mod \in Nat /\ m \in Nat /\ z.mod >= m
    BY Half DEF SameBits
  <2>1. Larger(z.mod, m) = z.mod
    BY <2>0 DEF Larger
  <2>2. \A l : Arith(z, SInt(m, c), l) = SInt(z.mod, Wrap(z.mod, l))
    BY <1>1, <2>1, Fields DEF Arith, NpInt
  <2> QED BY <2>2 DEF SameBits
<1>2. CASE z.kind = "uint"
  <2>1. z.mod = m /\ m # Top
    BY <1>2 DEF SameBits
  <2>2. PICK w \in Modulus : w > m /\ \A l \in Modulus : l > m => w <= l
    BY <2>1, ModulusAssumption
  <2>3. w \in Wider(m) /\ \A l \in Wider(m) : w <= l
    BY <2>2 DEF Wider
  <2>4. Following(m) \in Wider(m)
    BY <2>3 DEF Following
  <2>5. Wider(m) # {} /\ Following(m) \in Modulus /\ Following(m) > m
    BY <2>3, <2>4 DEF Wider
  <2>6. ~(m < m) /\ Following(m) >= m
    BY <2>5, Half
  <2>7. \A l : Arith(z, SInt(m, c), l) = SInt(Following(m), Wrap(Following(m), l))
    BY <1>2, <2>1, <2>5, <2>6, Fields DEF Arith, NpInt
  <2> QED BY <2>5, <2>6, <2>7
<1> QED BY <1>1, <1>2 DEF SameBits

(* Sums, differences, products and shifts keep the bits right.              *)
LEMMA RingBits ==
  ASSUME NEW z, NEW m \in Modulus, NEW n \in Int, SameBits(z, m, n),
         ~(z.kind = "uint" /\ z.mod = Top), NEW c \in Int, NEW b \in Int
  PROVE  /\ SameBits(Arith(z, SInt(m, c), z.val + b), m, Wrap(m, n + b))
         /\ SameBits(Arith(z, SInt(m, c), z.val - b), m, Wrap(m, n - b))
         /\ SameBits(Arith(z, SInt(m, c), z.val * b), m, Wrap(m, n * b))
<1>1. PICK w \in Modulus : w >= m /\ \A l : Arith(z, SInt(m, c), l) = SInt(w, Wrap(w, l))
  BY ArithBits
<1>2. PICK k \in Int : z.val = n + k * m
  BY DEF SameBits
<1>3. m \in Nat /\ w \in Nat /\ z.val \in Int
  BY Half DEF SameBits
<1>4. z.val + b = (n + b) + k * m /\ z.val - b = (n - b) + k * m
  BY <1>2, <1>3
<1>5. z.val * b = n * b + (k * b) * m
  BY <1>2, <1>3
<1>6. n + b \in Int /\ n - b \in Int /\ n * b \in Int /\ k * b \in Int
      /\ z.val + b \in Int /\ z.val - b \in Int /\ z.val * b \in Int /\ m <= w
  BY <1>1, <1>3
<1>7. SameBits(SInt(w, Wrap(w, z.val + b)), m, Wrap(m, n + b))
  BY <1>4, <1>6, WrapWider
<1>8. SameBits(SInt(w, Wrap(w, z.val - b)), m, Wrap(m, n - b))
  BY <1>4, <1>6, WrapWider
<1>9. SameBits(SInt(w, Wrap(w, z.val * b)), m, Wrap(m, n * b))
  BY <1>5, <1>6, WrapWider
<1> QED BY <1>1, <1>7, <1>8, <1>9

(* So does the complement, in the type of the value.                        *)
LEMMA ComplementBits ==
  ASSUME NEW z, NEW m \in Modulus, NEW n \in Int, SameBits(z, m, n)
  PROVE  SameBits(complementN(z), m, Wrap(m, -n - 1))
<1>1. PICK k \in Int : z.val = n + k * m
  BY DEF SameBits
<1>2. m \in Nat \ {0} /\ z.val \in Int /\ z.mod \in Modulus /\ m <= z.mod
  BY Half DEF SameBits
<1>3. /\ -z.val - 1 \in Int /\ -n - 1 \in Int /\ -k \in Int
      /\ -z.val - 1 = (-n - 1) + (-k) * m
  BY <1>1, <1>2
<1>4. Larger(z.mod, z.mod) = z.mod
  BY DEF Larger
<1>5. CASE z.kind = "int"
  <2>1. complementN(z) = SInt(z.mod, Wrap(z.mod, -z.val - 1))
    BY <1>4, <1>5 DEF complementN, Arith, NpInt
  <2> QED BY <1>2, <1>3, <2>1, WrapWider
<1>6. CASE z.kind = "uint"
  <2> DEFINE u == -z.val - 1
  <2>1. z.mod = m /\ z.val \in 0..(m - 1)
    BY <1>6 DEF SameBits
  <2>2. complementN(z) = UInt(m, u % m)
    BY <1>4, <1>6, <2>1 DEF complementN, Arith, NpUInt
  <2>3. u + m \in 0..(m - 1) /\ u \in Int
    BY <1>2, <2>1
  <2>4. u % m = u + m
    <3>1. (u + 1 * m) % m = u % m
      <4>1. 1 \in Int
        OBVIOUS
      <4> QED BY ONLY <1>2, <2>3, <4>1, ModShift
    <3>2. u + 1 * m = u + m
      BY <1>2
    <3> QED BY <1>2, <2>3, <3>1, <3>2, ModSmall
  <2>5. PICK j \in Int : Wrap(m, -n - 1) = (-n - 1) + j * m
    BY <1>3, WrapDiffers
  <2>6. 1 - k - j \in Int /\ u + m = Wrap(m, -n - 1) + (1 - k - j) * m
    BY <1>2, <1>3, <2>5
  <2> HIDE DEF u
  <2>7. \E i \in Int : u + m = Wrap(m, -n - 1) + i * m
    BY <2>6
  <2>8. m >= m
    BY <1>2
  <2> QED BY <2>2, <2>3, <2>4, <2>7, <2>8, Fields DEF SameBits
<1> QED BY <1>5, <1>6 DEF SameBits

(***************************************************************************)
(* The invariant                                                           *)
(***************************************************************************)
(* How the Python value z and the value w of Primitive.hs are related.      *)
Related(z, w, t) ==
  /\ t \in {"exact", "unsigned", "lost"}
  /\ t = "exact" => z = w
  /\ \/ \E m \in Modulus : \E n \in Numbers(m) :
          w = SInt(m, n) /\ (t = "unsigned" => SameBits(z, m, n))
     \/ \E n \in Int : w = Float(n) /\ t # "unsigned"

Inv == Related(x, v, trust) /\ SameBranch

LEMMA RelatedInt ==
  ASSUME NEW z, NEW m \in Modulus, NEW n \in Int, NEW t \in {"exact", "unsigned", "lost"},
         t = "exact" => z = intValue(m, n),
         t = "unsigned" => SameBits(z, m, Wrap(m, n))
  PROVE  Related(z, intValue(m, n), t)
<1>1. Wrap(m, n) \in Numbers(m)
  BY WrapRange
<1> QED BY <1>1 DEF Related, intValue

LEMMA RelatedFloat ==
  ASSUME NEW z, NEW n \in Int, NEW t \in {"exact", "lost"},
         t = "exact" => z = Float(n)
  PROVE  Related(z, Float(n), t)
BY DEF Related

(* What an operation on integers may assume.                                *)
LEMMA IntOperand ==
  ASSUME Related(x, v, trust), Holds("int")
  PROVE  /\ v.mod \in Modulus /\ v.val \in Numbers(v.mod) /\ v.val \in Int
         /\ trust \in {"exact", "unsigned"}
         /\ trust = "exact" => x = SInt(v.mod, v.val)
         /\ trust = "unsigned" => SameBits(x, v.mod, v.val)
<1>1. ~\E n \in Int : v = Float(n) /\ trust # "unsigned"
  BY Fields DEF Holds
<1>2. PICK m \in Modulus : \E n \in Numbers(m) :
        v = SInt(m, n) /\ (trust = "unsigned" => SameBits(x, m, n))
  BY <1>1 DEF Related
<1>3. PICK n \in Numbers(m) : v = SInt(m, n) /\ (trust = "unsigned" => SameBits(x, m, n))
  BY <1>2
<1>4. v.mod = m /\ v.val = n /\ n \in Int
  BY <1>3, Fields DEF Numbers
<1> QED BY <1>3, <1>4 DEF Related, Holds

LEMMA FloatOperand ==
  ASSUME Related(x, v, trust), Holds("float")
  PROVE  v.val \in Int /\ trust = "exact" /\ x = Float(v.val) /\ v = Float(v.val)
<1>1. ~\E m \in Modulus : \E n \in Numbers(m) :
        v = SInt(m, n) /\ (trust = "unsigned" => SameBits(x, m, n))
  BY Fields DEF Holds
<1>2. PICK n \in Int : v = Float(n) /\ trust # "unsigned"
  BY <1>1 DEF Related
<1>3. v.val = n /\ trust = "exact" /\ x = v
  BY <1>2, Fields DEF Related, Holds
<1> QED BY <1>2, <1>3

(* Quotients and remainders are integers.                                   *)
LEMMA DivInt ==
  ASSUME NEW a \in Int, NEW b \in Int, b # 0
  PROVE  /\ FloorDiv(a, b) \in Int /\ FloorMod(a, b) \in Int
         /\ Quot(a, b) \in Int /\ Rem(a, b) \in Int
<1>1. \A d \in Nat \ {0} : \A n \in Int : n \div d \in Int
  BY DivMod
<1>2. FloorDiv(a, b) \in Int
  <2>1. CASE b > 0
    BY <1>1, <2>1 DEF FloorDiv
  <2>2. CASE b < 0
    <3>1. -a \in Int /\ -b \in Nat \ {0}
      BY <2>2
    <3> QED BY <1>1, <2>2, <3>1 DEF FloorDiv
  <2> QED BY <2>1, <2>2
<1>3. Magnitude(a) \in Int /\ Magnitude(b) \in Nat \ {0}
  BY DEF Magnitude
<1>4. Quot(a, b) \in Int
  BY <1>1, <1>3 DEF Quot
<1>5. FloorMod(a, b) \in Int
  BY <1>2 DEF FloorMod
<1> QED BY <1>2, <1>4, <1>5 DEF Rem

(***************************************************************************)
(* Each action keeps the relation                                          *)
(***************************************************************************)
LEMMA LoadRelated ==
  ASSUME Load
  PROVE  Related(x', v', trust') /\ branch' = <<FALSE, FALSE>>
BY DEF Load, Apply, Related

LEMMA RingRelated ==
  ASSUME Related(x, v, trust), Ring
  PROVE  Related(x', v', trust') /\ branch' = <<FALSE, FALSE>>
<1> DEFINE m == v.mod
           a == v.val
<1>1. /\ m \in Modulus /\ a \in Int
      /\ trust \in {"exact", "unsigned"}
      /\ trust = "exact" => x = SInt(m, a)
      /\ trust = "unsigned" => SameBits(x, m, a)
  BY IntOperand DEF Ring
<1>2. PICK n \in Numbers(m) :
        \/ Apply(addN(x, SInt(m, n)), intValue(m, a + n), KeepsBits)
        \/ Apply(subN(x, SInt(m, n)), intValue(m, a - n), KeepsBits)
        \/ Apply(mulN(x, SInt(m, n)), intValue(m, a * n), KeepsBits)
  BY DEF Ring
<1> HIDE DEF m, a
<1>3. n \in Int /\ a + n \in Int /\ a - n \in Int /\ a * n \in Int
  BY <1>1 DEF Numbers
<1>4. /\ KeepsBits \in {"exact", "unsigned", "lost"}
      /\ KeepsBits = "exact" => trust = "exact"
      /\ KeepsBits = "unsigned" => trust = "unsigned" /\ ~(x.kind = "uint" /\ x.mod = Top)
  BY <1>1 DEF KeepsBits
<1>5. KeepsBits = "exact" =>
        /\ addN(x, SInt(m, n)) = intValue(m, a + n)
        /\ subN(x, SInt(m, n)) = intValue(m, a - n)
        /\ mulN(x, SInt(m, n)) = intValue(m, a * n)
  BY <1>1, <1>4, ArithInt, Fields DEF addN, subN, mulN
<1>6. KeepsBits = "unsigned" =>
        /\ SameBits(addN(x, SInt(m, n)), m, Wrap(m, a + n))
        /\ SameBits(subN(x, SInt(m, n)), m, Wrap(m, a - n))
        /\ SameBits(mulN(x, SInt(m, n)), m, Wrap(m, a * n))
  <2>1. /\ addN(x, SInt(m, n)) = Arith(x, SInt(m, n), x.val + n)
        /\ subN(x, SInt(m, n)) = Arith(x, SInt(m, n), x.val - n)
        /\ mulN(x, SInt(m, n)) = Arith(x, SInt(m, n), x.val * n)
    BY Fields DEF addN, subN, mulN
  <2> SUFFICES ASSUME KeepsBits = "unsigned"
               PROVE  /\ SameBits(Arith(x, SInt(m, n), x.val + n), m, Wrap(m, a + n))
                      /\ SameBits(Arith(x, SInt(m, n), x.val - n), m, Wrap(m, a - n))
                      /\ SameBits(Arith(x, SInt(m, n), x.val * n), m, Wrap(m, a * n))
    BY <2>1
  <2>2. SameBits(x, m, a) /\ ~(x.kind = "uint" /\ x.mod = Top)
    BY <1>1, <1>4
  <2> QED BY ONLY <1>1, <1>3, <2>2, RingBits
<1>7. /\ Related(addN(x, SInt(m, n)), intValue(m, a + n), KeepsBits)
      /\ Related(subN(x, SInt(m, n)), intValue(m, a - n), KeepsBits)
      /\ Related(mulN(x, SInt(m, n)), intValue(m, a * n), KeepsBits)
  BY <1>1, <1>3, <1>4, <1>5, <1>6, RelatedInt
<1> QED BY <1>2, <1>7 DEF Apply

(* The operations that need the value itself leave nothing but exact        *)
(* values or values no more is said of.                                     *)
LEMMA ExactWhereNeeded ==
  ASSUME Related(x, v, trust), Holds("int"), NEW wrong \in BOOLEAN
  PROVE  /\ Unless(wrong) \in {"exact", "lost"} /\ NeedsValue \in {"exact", "lost"}
         /\ Unless(wrong) = "exact" => ~wrong /\ x = SInt(v.mod, v.val)
         /\ NeedsValue = "exact" => x = SInt(v.mod, v.val)
BY IntOperand DEF Unless, NeedsValue

LEMMA RelatedValue ==
  ASSUME NEW z, NEW m \in Modulus, NEW n \in Int, NEW t \in {"exact", "lost"},
         t = "exact" => z = intValue(m, n)
  PROVE  Related(z, intValue(m, n), t)
BY RelatedInt

LEMMA DivisionRelated ==
  ASSUME Related(x, v, trust), Division
  PROVE  Related(x', v', trust') /\ branch' = <<FALSE, FALSE>>
<1> DEFINE m == v.mod
           a == v.val
<1>1. /\ m \in Modulus /\ a \in Int /\ a \in Numbers(m)
      /\ Holds("int")
  BY IntOperand DEF Division
<1>2. PICK n \in Numbers(m) \ {0} :
        \/ Apply(sdivN(x, SInt(m, n)), intValue(m, FloorDiv(a, n)), NeedsValue)
        \/ Apply(smodN(x, SInt(m, n)), intValue(m, FloorMod(a, n)), NeedsValue)
        \/ Apply(squotN(x, SInt(m, n)), intValue(m, Quot(a, n)), Unless(Low(m) \in {a, n}))
        \/ Apply(sremN(x, SInt(m, n)), intValue(m, Rem(a, n)), Unless(Low(m) \in {a, n}))
        \/ Apply(udivN(x, SInt(m, n)), intValue(m, FloorDiv(Word(m, a), Word(m, n))), NeedsValue)
        \/ Apply(umodN(x, SInt(m, n)), intValue(m, FloorMod(Word(m, a), Word(m, n))), NeedsValue)
  BY DEF Division
<1> DEFINE wrong == Low(m) \in {a, n}
<1>3. wrong \in BOOLEAN /\ (~wrong => a # Low(m) /\ n # Low(m))
  OBVIOUS
<1> HIDE DEF wrong
<1>4. /\ Unless(wrong) \in {"exact", "lost"} /\ NeedsValue \in {"exact", "lost"}
      /\ Unless(wrong) = "exact" => a # Low(m) /\ n # Low(m) /\ x = SInt(m, a)
      /\ NeedsValue = "exact" => x = SInt(m, a)
  BY <1>1, <1>3, ExactWhereNeeded
<1> HIDE DEF m, a
<1>5. n \in Int /\ n # 0 /\ n \in Numbers(m)
  BY DEF Numbers
<1>6. /\ FloorDiv(a, n) \in Int /\ FloorMod(a, n) \in Int
      /\ Quot(a, n) \in Int /\ Rem(a, n) \in Int
  BY <1>1, <1>5, DivInt
<1>7. FloorDiv(Word(m, a), Word(m, n)) \in Int /\ FloorMod(Word(m, a), Word(m, n)) \in Int
  <2>1. Word(m, a) \in Int /\ Word(m, n) \in Int /\ Word(m, n) # 0
    BY <1>1, <1>5, WordRange, WordZero
  <2> QED BY <2>1, DivInt
<1>8. NeedsValue = "exact" =>
        /\ sdivN(x, SInt(m, n)) = intValue(m, FloorDiv(a, n))
        /\ smodN(x, SInt(m, n)) = intValue(m, FloorMod(a, n))
  BY <1>1, <1>4, ArithInt, Fields DEF sdivN, smodN
<1>9. NeedsValue = "exact" =>
        /\ udivN(x, SInt(m, n)) = intValue(m, FloorDiv(Word(m, a), Word(m, n)))
        /\ umodN(x, SInt(m, n)) = intValue(m, FloorMod(Word(m, a), Word(m, n)))
  BY <1>1, <1>4, <1>5, UDivExact
<1>10. Unless(wrong) = "exact" =>
        /\ squotN(x, SInt(m, n)) = intValue(m, Quot(a, n))
        /\ sremN(x, SInt(m, n)) = intValue(m, Rem(a, n))
  BY <1>1, <1>4, <1>5, QuotExact
<1>11. /\ Related(sdivN(x, SInt(m, n)), intValue(m, FloorDiv(a, n)), NeedsValue)
       /\ Related(smodN(x, SInt(m, n)), intValue(m, FloorMod(a, n)), NeedsValue)
  BY <1>1, <1>4, <1>6, <1>8, RelatedValue
<1>12. /\ Related(udivN(x, SInt(m, n)), intValue(m, FloorDiv(Word(m, a), Word(m, n))), NeedsValue)
       /\ Related(umodN(x, SInt(m, n)), intValue(m, FloorMod(Word(m, a), Word(m, n))), NeedsValue)
  BY <1>1, <1>4, <1>7, <1>9, RelatedValue
<1>13. /\ Related(squotN(x, SInt(m, n)), intValue(m, Quot(a, n)), Unless(wrong))
       /\ Related(sremN(x, SInt(m, n)), intValue(m, Rem(a, n)), Unless(wrong))
  BY <1>1, <1>4, <1>6, <1>10, RelatedValue
<1> QED BY <1>2, <1>11, <1>12, <1>13 DEF Apply, wrong

LEMMA MinMaxRelated ==
  ASSUME Related(x, v, trust), MinMax
  PROVE  Related(x', v', trust') /\ branch' = <<FALSE, FALSE>>
<1> DEFINE m == v.mod
           a == v.val
<1>1. /\ m \in Modulus /\ a \in Int /\ a \in Numbers(m)
      /\ Holds("int")
  BY IntOperand DEF MinMax
<1>2. PICK n \in Numbers(m) :
        \/ Apply(sminN(x, SInt(m, n)), intValue(m, Smaller(a, n)), NeedsValue)
        \/ Apply(smaxN(x, SInt(m, n)), intValue(m, Larger(a, n)), NeedsValue)
        \/ Apply(uminN(x, SInt(m, n)), intValue(m, Smaller(Word(m, a), Word(m, n))), NeedsValue)
        \/ Apply(umaxN(x, SInt(m, n)), intValue(m, Larger(Word(m, a), Word(m, n))), NeedsValue)
  BY DEF MinMax
<1>3. NeedsValue \in {"exact", "lost"} /\ (NeedsValue = "exact" => x = SInt(m, a))
  BY <1>1, ExactWhereNeeded
<1> HIDE DEF m, a
<1>4. n \in Int
  BY DEF Numbers
<1>5. Word(m, a) \in Int /\ Word(m, n) \in Int
  BY <1>1, <1>4, WordRange
<1>6. /\ Smaller(a, n) \in Int /\ Larger(a, n) \in Int
      /\ Smaller(Word(m, a), Word(m, n)) \in Int /\ Larger(Word(m, a), Word(m, n)) \in Int
  BY <1>1, <1>4, <1>5 DEF Smaller, Larger
<1>7. NeedsValue = "exact" =>
        /\ sminN(x, SInt(m, n)) = intValue(m, Smaller(a, n))
        /\ smaxN(x, SInt(m, n)) = intValue(m, Larger(a, n))
        /\ uminN(x, SInt(m, n)) = intValue(m, Smaller(Word(m, a), Word(m, n)))
        /\ umaxN(x, SInt(m, n)) = intValue(m, Larger(Word(m, a), Word(m, n)))
  BY <1>1, <1>3, MinMaxExact
<1>8. /\ Related(sminN(x, SInt(m, n)), intValue(m, Smaller(a, n)), NeedsValue)
      /\ Related(smaxN(x, SInt(m, n)), intValue(m, Larger(a, n)), NeedsValue)
  BY <1>1, <1>3, <1>6, <1>7, RelatedValue
<1>9. /\ Related(uminN(x, SInt(m, n)), intValue(m, Smaller(Word(m, a), Word(m, n))), NeedsValue)
      /\ Related(umaxN(x, SInt(m, n)), intValue(m, Larger(Word(m, a), Word(m, n))), NeedsValue)
  BY <1>1, <1>3, <1>6, <1>7, RelatedValue
<1> QED BY <1>2, <1>8, <1>9 DEF Apply

(* A logical shift makes a value right again of which only the bits are.    *)
LEMMA ShiftRelated ==
  ASSUME Related(x, v, trust), Shift
  PROVE  Related(x', v', trust') /\ branch' = <<FALSE, FALSE>>
<1> DEFINE m == v.mod
           a == v.val
<1>1. /\ m \in Modulus /\ a \in Int /\ a \in Numbers(m)
      /\ Holds("int")
      /\ trust \in {"exact", "unsigned"}
      /\ trust = "exact" => x = SInt(m, a)
      /\ trust = "unsigned" => SameBits(x, m, a)
  BY IntOperand DEF Shift
<1>2. PICK p \in Power :
        \/ Apply(shlN(x, m, p), intValue(m, a * p), KeepsBits)
        \/ Apply(ashrN(x, m, p), intValue(m, a \div p), NeedsValue)
        \/ Apply(lshr(x, m, p), intValue(m, Word(m, a) \div p), "exact")
  BY DEF Shift
<1>3. NeedsValue \in {"exact", "lost"} /\ (NeedsValue = "exact" => x = SInt(m, a))
  BY <1>1, ExactWhereNeeded
<1> HIDE DEF m, a
<1>4. p \in Nat \ {0} /\ p \in Int /\ a * p \in Int
  BY <1>1, PowerAssumption
<1>5. a \div p \in Int /\ Word(m, a) \div p \in Int
  BY <1>1, <1>4, WordRange, DivMod
<1>6. Related(shlN(x, m, p), intValue(m, a * p), KeepsBits)
  <2>1. /\ KeepsBits \in {"exact", "unsigned", "lost"}
        /\ KeepsBits = "exact" => trust = "exact"
        /\ KeepsBits = "unsigned" => trust = "unsigned" /\ ~(x.kind = "uint" /\ x.mod = Top)
    BY <1>1 DEF KeepsBits
  <2>2. KeepsBits = "exact" => shlN(x, m, p) = intValue(m, a * p)
    BY <1>1, <2>1, ArithInt, Fields DEF shlN
  <2>3. KeepsBits = "unsigned" => SameBits(shlN(x, m, p), m, Wrap(m, a * p))
    <3> SUFFICES ASSUME KeepsBits = "unsigned"
                 PROVE  SameBits(Arith(x, SInt(m, 0), x.val * p), m, Wrap(m, a * p))
      BY DEF shlN
    <3>1. SameBits(x, m, a) /\ ~(x.kind = "uint" /\ x.mod = Top) /\ 0 \in Int
      BY <1>1, <2>1
    <3> QED BY ONLY <1>1, <1>4, <3>1, RingBits
  <2> QED BY <1>1, <1>4, <2>1, <2>2, <2>3, RelatedInt
<1>7. Related(ashrN(x, m, p), intValue(m, a \div p), NeedsValue)
  <2>1. NeedsValue = "exact" => ashrN(x, m, p) = intValue(m, a \div p)
    BY <1>1, <1>3, ArithInt, Fields DEF ashrN
  <2> QED BY <1>1, <1>3, <1>5, <2>1, RelatedValue
<1>8. Related(lshr(x, m, p), intValue(m, Word(m, a) \div p), "exact")
  <2>1. x.val % m = Word(m, a)
    BY <1>1, SameWord, Fields DEF Word
  <2>2. lshr(x, m, p) = intValue(m, Word(m, a) \div p)
    BY <2>1 DEF lshr, NpInt, intValue
  <2> QED BY <1>1, <1>5, <2>2, RelatedValue
<1> QED BY <1>2, <1>6, <1>7, <1>8 DEF Apply

LEMMA UnOpRelated ==
  ASSUME Related(x, v, trust), UnOp
  PROVE  Related(x', v', trust') /\ branch' = <<FALSE, FALSE>>
<1> DEFINE m == v.mod
           a == v.val
           wrong == a = Low(m)
<1>1. /\ m \in Modulus /\ a \in Int /\ a \in Numbers(m)
      /\ Holds("int")
      /\ trust \in {"exact", "unsigned"}
      /\ trust = "exact" => x = SInt(m, a)
      /\ trust = "unsigned" => SameBits(x, m, a)
  BY IntOperand DEF UnOp
<1>2. \/ Apply(complementN(x), intValue(m, -a - 1), trust)
      \/ Apply(absN(x), intValue(m, Magnitude(a)), NeedsValue)
      \/ Apply(ssignum(x), intValue(m, Sign(a)), NeedsValue)
      \/ Apply(usignum(x), intValue(m, Sign(Word(m, a))), Unless(wrong))
  BY DEF UnOp
<1>3. wrong \in BOOLEAN /\ (~wrong => a # Low(m))
  OBVIOUS
<1> HIDE DEF wrong
<1>4. /\ Unless(wrong) \in {"exact", "lost"} /\ NeedsValue \in {"exact", "lost"}
      /\ Unless(wrong) = "exact" => ~wrong /\ x = SInt(m, a)
      /\ NeedsValue = "exact" => x = SInt(m, a)
  BY <1>1, <1>3, ExactWhereNeeded
<1> HIDE DEF m, a
<1>5. /\ -a - 1 \in Int /\ Magnitude(a) \in Int /\ Sign(a) \in Int /\ Sign(Word(m, a)) \in Int
  BY <1>1 DEF Magnitude, Sign
<1>6. Related(complementN(x), intValue(m, -a - 1), trust)
  <2>1. trust = "exact" => complementN(x) = intValue(m, -a - 1)
    BY <1>1, ArithInt, Fields DEF complementN
  <2>2. trust = "unsigned" => SameBits(complementN(x), m, Wrap(m, -a - 1))
    BY <1>1, ComplementBits
  <2> QED BY <1>1, <1>5, <2>1, <2>2, RelatedInt
<1>7. Related(absN(x), intValue(m, Magnitude(a)), NeedsValue)
  <2>1. NeedsValue = "exact" => absN(x) = intValue(m, Magnitude(a))
    BY <1>1, <1>4, ArithInt, Fields DEF absN
  <2> QED BY <1>1, <1>4, <1>5, <2>1, RelatedValue
<1>8. Related(ssignum(x), intValue(m, Sign(a)), NeedsValue)
  <2>1. NeedsValue = "exact" => ssignum(x) = intValue(m, Sign(a))
    BY <1>1, <1>4, SignExact DEF ssignum
  <2> QED BY <1>1, <1>4, <1>5, <2>1, RelatedValue
<1>9. Related(usignum(x), intValue(m, Sign(Word(m, a))), Unless(wrong))
  <2>1. Unless(wrong) = "exact" => usignum(x) = intValue(m, Sign(Word(m, a)))
    BY <1>1, <1>3, <1>4, USignumExact
  <2> QED BY <1>1, <1>4, <1>5, <2>1, RelatedValue
<1> QED BY <1>2, <1>6, <1>7, <1>8, <1>9 DEF Apply

(* A zero extension takes no more than the bits.                            *)
LEMMA ExtendRelated ==
  ASSUME Related(x, v, trust), Extend
  PROVE  Related(x', v', trust') /\ branch' = <<FALSE, FALSE>>
<1> DEFINE m == v.mod
           a == v.val
<1>1. /\ m \in Modulus /\ a \in Int
      /\ Holds("int")
      /\ trust \in {"exact", "unsigned"}
      /\ trust = "exact" => x = SInt(m, a)
      /\ trust = "unsigned" => SameBits(x, m, a)
  BY IntOperand DEF Extend
<1>2. PICK to \in Modulus :
        \/ Apply(sext_T(x, to), intValue(to, a), NeedsValue)
        \/ Apply(zext(x, m, to), intValue(to, Word(m, a)), "exact")
  BY DEF Extend
<1>3. NeedsValue \in {"exact", "lost"} /\ (NeedsValue = "exact" => x = SInt(m, a))
  BY <1>1, ExactWhereNeeded
<1> HIDE DEF m, a
<1>4. NeedsValue = "exact" => sext_T(x, to) = intValue(to, a)
  BY <1>3, Fields DEF sext_T, NpInt, intValue
<1>5. zext(x, m, to) = intValue(to, Word(m, a))
  <2>1. x.val % m = Word(m, a)
    BY <1>1, SameWord, Fields DEF Word
  <2> QED BY <2>1 DEF zext, NpInt, intValue
<1>6. Word(m, a) \in Int
  BY <1>1, WordRange
<1>7. Related(sext_T(x, to), intValue(to, a), NeedsValue)
  BY <1>1, <1>3, <1>4, RelatedValue
<1>8. Related(zext(x, m, to), intValue(to, Word(m, a)), "exact")
  BY <1>5, <1>6, RelatedValue
<1> QED BY <1>2, <1>7, <1>8 DEF Apply

LEMMA ToFloatRelated ==
  ASSUME Related(x, v, trust), ToFloat
  PROVE  Related(x', v', trust') /\ branch' = <<FALSE, FALSE>>
<1> DEFINE m == v.mod
           a == v.val
           t == IF x.kind = "uint" THEN "exact" ELSE NeedsValue
<1>1. /\ m \in Modulus /\ a \in Int
      /\ Holds("int")
      /\ trust \in {"exact", "unsigned"}
      /\ trust = "exact" => x = SInt(m, a)
      /\ trust = "unsigned" => SameBits(x, m, a)
  BY IntOperand DEF ToFloat
<1>2. \/ Apply(sitofp(x), Float(2 * a), NeedsValue)
      \/ Apply(uitofp(x), Float(2 * Word(m, a)), t)
  BY DEF ToFloat
<1>3. NeedsValue \in {"exact", "lost"} /\ (NeedsValue = "exact" => x = SInt(m, a))
  BY <1>1, ExactWhereNeeded
<1>4. t \in {"exact", "lost"} /\ (t = "exact" => x.kind = "uint" \/ x = SInt(m, a))
  BY <1>3
<1> HIDE DEF m, a, t
<1>5. Word(m, a) \in Int /\ 2 * Word(m, a) \in Int /\ 2 * a \in Int
  BY <1>1, WordRange
<1>6. x.kind = "uint" => unsigned(x).val = Word(m, a)
  <2> SUFFICES ASSUME x.kind = "uint"
               PROVE  x.val % Top = Word(m, a)
    BY Fields DEF unsigned, NpUInt
  <2>1. SameBits(x, m, a) /\ x.val \in 0..(m - 1)
    BY <1>1, Fields DEF SameBits
  <2>2. x.val % m = Word(m, a) /\ x.val % m = x.val
    BY <1>1, <2>1, SameWord, ModSmall, Half
  <2>3. m \in Nat \ {0} /\ Top \in Nat \ {0} /\ m <= Top
    BY <1>1, Half, ModulusAssumption
  <2>4. x.val \in 0..(Top - 1)
    BY <2>1, <2>3
  <2> QED BY <2>2, <2>3, <2>4, ModSmall
<1>7. x = SInt(m, a) => unsigned(x).val = Word(m, a)
  BY UnsignedInt, Fields
<1>8. Related(sitofp(x), Float(2 * a), NeedsValue)
  BY <1>3, <1>5, RelatedFloat, Fields DEF sitofp
<1>9. Related(uitofp(x), Float(2 * Word(m, a)), t)
  BY <1>4, <1>5, <1>6, <1>7, RelatedFloat DEF uitofp
<1> QED BY <1>2, <1>8, <1>9 DEF Apply

LEMMA AddHalfRelated ==
  ASSUME Related(x, v, trust), AddHalf
  PROVE  Related(x', v', trust') /\ branch' = <<FALSE, FALSE>>
<1>1. v.val \in Int /\ trust = "exact" /\ x = Float(v.val)
  BY FloatOperand DEF AddHalf
<1>2. PICK h \in {-1, 1} : Apply(Float(x.val + h), Float(v.val + h), trust)
  BY DEF AddHalf
<1>3. x.val = v.val /\ v.val + h \in Int
  BY <1>1, Fields
<1> QED BY <1>1, <1>2, <1>3, RelatedFloat DEF Apply

(* An FPToUI leaves the right bits, in an unsigned type.                    *)
LEMMA FromFloatRelated ==
  ASSUME Related(x, v, trust), FromFloat
  PROVE  Related(x', v', trust') /\ branch' = <<FALSE, FALSE>>
<1> DEFINE n == Trunc(v.val)
<1>1. v.val \in Int /\ trust = "exact" /\ x.val = v.val
  BY FloatOperand, Fields DEF FromFloat
<1>2. PICK to \in Modulus :
        \/ n \in Numbers(to) /\ Apply(fptosi(x, to), intValue(to, n), NeedsValue)
        \/ n \in 0..(to - 1) /\ Apply(fptoui(x, to), intValue(to, n), "unsigned")
  BY DEF FromFloat
<1>3. n \in Int
  <2>1. 2 \in Int /\ 2 # 0
    OBVIOUS
  <2>2. Quot(v.val, 2) \in Int
    BY ONLY <1>1, <2>1, DivInt
  <2> QED BY <2>2 DEF Trunc
<1>4. fptosi(x, to) = intValue(to, n) /\ fptoui(x, to) = UInt(to, n % to)
  BY <1>1 DEF fptosi, fptoui, NpInt, NpUInt, intValue
<1> HIDE DEF n
<1>5. Related(fptosi(x, to), intValue(to, n), NeedsValue)
  BY <1>1, <1>3, <1>4, RelatedValue DEF NeedsValue
<1>6. n \in 0..(to - 1) => Related(fptoui(x, to), intValue(to, n), "unsigned")
  <2> SUFFICES ASSUME n \in 0..(to - 1)
               PROVE  SameBits(UInt(to, n), to, Wrap(to, n))
    BY <1>3, <1>4, ModSmall, Half, RelatedInt
  <2>1. PICK k \in Int : Wrap(to, n) = n + k * to
    BY <1>3, WrapDiffers
  <2>2. to \in Nat /\ to >= to /\ -k \in Int /\ n = Wrap(to, n) + (-k) * to
    BY <1>3, <2>1, Half
  <2>3. \E i \in Int : n = Wrap(to, n) + i * to
    BY <2>2
  <2> DEFINE z == UInt(to, n)
  <2>4. z.kind = "uint" /\ z.mod = to /\ z.val = n
    BY Fields
  <2> HIDE DEF z
  <2>5. SameBits(z, to, Wrap(to, n))
    BY <1>3, <2>2, <2>3, <2>4 DEF SameBits
  <2> QED BY <2>5 DEF z
<1> QED BY <1>2, <1>5, <1>6 DEF Apply

LEMMA CompareRelated ==
  ASSUME Related(x, v, trust), Compare
  PROVE  Related(x', v', trust') /\ SameBranch'
<1> DEFINE m == v.mod
           a == v.val
<1>1. /\ m \in Modulus /\ a \in Int
      /\ trust = "exact" => x = SInt(m, a)
  BY IntOperand DEF Compare
<1>2. PICK n \in Numbers(m) :
        \/ Decide(x.val = SInt(m, n).val, a = n)
        \/ Decide(sleN(x, SInt(m, n)), a <= n)
        \/ Decide(sltN(x, SInt(m, n)), a < n)
        \/ Decide(uleN(x, SInt(m, n)), Word(m, a) <= Word(m, n))
        \/ Decide(ultN(x, SInt(m, n)), Word(m, a) < Word(m, n))
  BY DEF Compare
<1>3. UNCHANGED <<x, v, trust>>
  BY <1>2 DEF Decide
<1> HIDE DEF m, a
<1>4. trust = "exact" =>
        /\ (x.val = SInt(m, n).val) = (a = n)
        /\ sleN(x, SInt(m, n)) = (a <= n)
        /\ sltN(x, SInt(m, n)) = (a < n)
        /\ uleN(x, SInt(m, n)) = (Word(m, a) <= Word(m, n))
        /\ ultN(x, SInt(m, n)) = (Word(m, a) < Word(m, n))
  BY <1>1, UnsignedInt, Fields DEF sleN, sltN, uleN, ultN
<1>5. SameBranch'
  BY <1>2, <1>3, <1>4 DEF Decide, SameBranch
<1> QED BY <1>3, <1>5

(***************************************************************************)
(* The theorems                                                            *)
(***************************************************************************)
LEMMA InvInit == Init => Inv
<1> SUFFICES ASSUME Init PROVE Inv
  OBVIOUS
<1>1. PICK m \in Modulus : \E n \in Numbers(m) : x = SInt(m, n) /\ v = SInt(m, n)
  BY DEF Init
<1> QED BY <1>1 DEF Init, Inv, Related, SameBranch

LEMMA InvNext == Inv /\ [Next]_vars => Inv'
<1> SUFFICES ASSUME Inv, [Next]_vars PROVE Inv'
  OBVIOUS
<1>1. Related(x, v, trust)
  BY DEF Inv
<1>2. branch' = <<FALSE, FALSE>> => SameBranch'
  BY DEF SameBranch
<1>3. CASE Load
  BY <1>2, <1>3, LoadRelated DEF Inv
<1>4. CASE Ring
  BY <1>1, <1>2, <1>4, RingRelated DEF Inv
<1>5. CASE Division
  BY <1>1, <1>2, <1>5, DivisionRelated DEF Inv
<1>6. CASE MinMax
  BY <1>1, <1>2, <1>6, MinMaxRelated DEF Inv
<1>7. CASE Shift
  BY <1>1, <1>2, <1>7, ShiftRelated DEF Inv
<1>8. CASE UnOp
  BY <1>1, <1>2, <1>8, UnOpRelated DEF Inv
<1>9. CASE Extend
  BY <1>1, <1>2, <1>9, ExtendRelated DEF Inv
<1>10. CASE ToFloat
  BY <1>1, <1>2, <1>10, ToFloatRelated DEF Inv
<1>11. CASE AddHalf
  BY <1>1, <1>2, <1>11, AddHalfRelated DEF Inv
<1>12. CASE FromFloat
  BY <1>1, <1>2, <1>12, FromFloatRelated DEF Inv
<1>13. CASE Compare
  BY <1>1, <1>13, CompareRelated DEF Inv
<1>14. CASE UNCHANGED vars
  BY <1>14 DEF vars, Inv, Related, SameBranch, SameBits
<1> QED BY <1>3, <1>4, <1>5, <1>6, <1>7, <1>8, <1>9, <1>10, <1>11, <1>12, <1>13, <1>14 DEF Next

LEMMA InvAlways == Spec => []Inv
BY InvInit, InvNext, PTL DEF Spec

(* A compiled Python program computes the values of Primitive.hs, whatever  *)
(* the widths of the integer types, as long as no operation has been        *)
(* applied to operands it is known to go wrong for.                         *)
THEOREM PythonAgrees == Spec => []AgreesWithPrimitive
<1>1. Inv => AgreesWithPrimitive
  BY DEF Inv, Related, AgreesWithPrimitive
<1> QED BY <1>1, InvAlways, PTL

(* After an FPToUI the bits of the value stay right through additions,      *)
(* multiplications, left shifts and complements, in whatever types numpy    *)
(* chooses for them.                                                        *)
THEOREM PythonKeepsBits == Spec => []BitsAgree
<1>1. Inv => BitsAgree
  <2> SUFFICES ASSUME Related(x, v, trust), trust = "unsigned"
               PROVE  x.kind # "float" /\ x.mod >= v.mod /\ (x.val - v.val) % v.mod = 0
    BY DEF Inv, BitsAgree
  <2>1. PICK m \in Modulus : \E n \in Numbers(m) : v = SInt(m, n) /\ SameBits(x, m, n)
    BY DEF Related
  <2>2. PICK n \in Numbers(m) : v = SInt(m, n) /\ SameBits(x, m, n)
    BY <2>1
  <2>3. v.mod = m /\ v.val = n /\ n \in Int /\ m \in Nat \ {0}
    BY <2>2, Fields, Half DEF Numbers
  <2>4. PICK k \in Int : x.val = n + k * m
    BY <2>2 DEF SameBits
  <2>5. x.val - v.val = m * k + 0 /\ x.val - v.val \in Int /\ 0 \in 0..(m - 1)
    BY <2>3, <2>4
  <2>6. (x.val - v.val) % m = 0
    BY ONLY <2>3, <2>5, ModUnique, k \in Int
  <2> QED BY <2>2, <2>3, <2>6 DEF SameBits
<1> QED BY <1>1, InvAlways, PTL

(* Comparisons of exact values, signed or unsigned, come out as in          *)
(* Primitive.hs.                                                            *)
THEOREM PythonBranches == Spec => []SameBranch
<1>1. Inv => SameBranch
  BY DEF Inv
<1> QED BY <1>1, InvAlways, PTL

-----------------------------------------------------------------------------
(* PyValues: the reader of values.                                          *)
(*                                                                          *)
(* Induction.  The theorems of the library about it have an operator as a   *)
(* parameter; WFMin has none.                                               *)
Lesser == {p \in Nat \X Nat : p[1] < p[2]}

LEMMA LesserWellFounded == IsWellFoundedOn(Lesser, Nat)
  BY NatLessThanWellFounded, Zenon DEF OpToRel, Lesser

(* A set of numbers that is not empty has a least element.                  *)
LEMMA HasMinimal ==
  ASSUME NEW S, S \subseteq Nat, S # {}
  PROVE  \E n \in S : \A m \in S : ~ (<<m, n>> \in Lesser)
  BY LesserWellFounded, WFMin, Zenon

LEMMA HasLeast ==
  ASSUME NEW S, S \subseteq Nat, S # {}
  PROVE  \E n \in S : \A m \in S : n <= m
<1>1. PICK n \in S : \A m \in S : ~ (<<m, n>> \in Lesser)
  BY HasMinimal
<1>2. ASSUME NEW m \in S PROVE n <= m
  <2>1. n \in Nat /\ m \in Nat
    OBVIOUS
  <2>2. m < n => <<m, n>> \in Lesser
    BY <2>1 DEF Lesser
  <2> QED
    BY <1>1, <2>1, <2>2
<1> QED
  BY <1>2

LEMMA LongestIs ==
  ASSUME NEW n \in Nat, NEW good, good \subseteq 1..n
  PROVE  /\ Longest(n, good) \in 0..n
         /\ 1..Longest(n, good) \subseteq good
         /\ Longest(n, good) + 1 \notin good
<1> DEFINE S == (1..(n + 1)) \ good
           k == Min(S)
<1>1. S \subseteq Nat /\ n + 1 \in S
  OBVIOUS
<1>2. \E a \in S : \A b \in S : a <= b
  BY <1>1, HasLeast
<1>3. k \in S /\ \A b \in S : k <= b
  BY <1>2 DEF Min
<1> HIDE DEF k
<1>4. Longest(n, good) = k - 1
  BY DEF Longest, k
<1>5. ASSUME NEW i \in 1..(k - 1) PROVE i \in good
  BY <1>3
<1> QED
  BY <1>3, <1>4, <1>5

-----------------------------------------------------------------------------
(* A reader, and the readers that are left when some characters are read.   *)
(* Newline is a string, but the provers do not know it.                     *)
Character == STRING \cup {"\n"}

Reader == [py : {2, 3}, in : Seq(Character)]

From(s, t) == \E n \in 0..Len(s.in) : t = Drop(s, n)

LEMMA DropIs ==
  ASSUME NEW s \in Reader, NEW n \in 0..Len(s.in)
  PROVE  /\ Drop(s, n) \in Reader /\ Drop(s, n).py = s.py
         /\ Len(Drop(s, n).in) = Len(s.in) - n
         /\ \A i \in 1..(Len(s.in) - n) : Drop(s, n).in[i] = s.in[n + i]
<1> DEFINE q == s.in
           r == SubSeq(q, n + 1, Len(q))
<1>1. q \in Seq(Character) /\ Len(q) \in Nat /\ n \in Nat
  BY DEF Reader
<1>2. \A i \in (n + 1)..Len(q) : q[i] \in Character
  BY <1>1
<1>3. /\ r \in Seq(Character)
      /\ Len(r) = IF n + 1 <= Len(q) THEN Len(q) - (n + 1) + 1 ELSE 0
      /\ \A i \in 1..(Len(q) - (n + 1) + 1) : r[i] = q[n + 1 + i - 1]
  <2> HIDE DEF q
  <2>1. n + 1 \in Int /\ Len(q) \in Int
    BY <1>1
  <2> QED
    BY <1>2, <2>1, SubSeqProperties
<1> HIDE DEF r
<1>4. Drop(s, n) = [s EXCEPT !.in = r]
  BY DEF Drop, r
<1>5. Drop(s, n) \in Reader /\ Drop(s, n).py = s.py /\ Drop(s, n).in = r
  BY <1>3, <1>4 DEF Reader
<1>6. Len(r) = Len(q) - n
  BY <1>1, <1>3
<1>7. ASSUME NEW i \in 1..(Len(q) - n) PROVE r[i] = q[n + i]
  BY <1>1, <1>3
<1> QED
  BY <1>5, <1>6, <1>7

(* Two readers of the same length that are left of one are the same.        *)
LEMMA SameReader ==
  ASSUME NEW s \in Reader, NEW t \in Reader, s.py = t.py, Len(s.in) = Len(t.in),
         \A i \in 1..Len(s.in) : s.in[i] = t.in[i]
  PROVE  s = t
<1>1. s.in = t.in
  BY DEF Reader
<1> QED
  BY <1>1 DEF Reader

LEMMA DropDrop ==
  ASSUME NEW s \in Reader, NEW n \in 0..Len(s.in), NEW m \in 0..(Len(s.in) - n)
  PROVE  Drop(Drop(s, n), m) = Drop(s, n + m)
<1>1. Len(s.in) \in Nat
  BY DEF Reader
<1> DEFINE t == Drop(s, n)
           L == Len(s.in)
<1>2. t \in Reader /\ t.py = s.py /\ Len(t.in) = L - n /\ \A i \in 1..(L - n) : t.in[i] = s.in[n + i]
  BY DropIs
<1>3. m \in 0..Len(t.in) /\ n + m \in 0..L
  BY <1>1, <1>2
<1> HIDE DEF t, L
<1>4. /\ Drop(t, m) \in Reader /\ Drop(t, m).py = s.py /\ Len(Drop(t, m).in) = L - n - m
      /\ \A i \in 1..(L - n - m) : Drop(t, m).in[i] = t.in[m + i]
  BY <1>2, <1>3, DropIs
<1>5. /\ Drop(s, n + m) \in Reader /\ Drop(s, n + m).py = s.py
      /\ Len(Drop(s, n + m).in) = L - (n + m)
      /\ \A i \in 1..(L - (n + m)) : Drop(s, n + m).in[i] = s.in[(n + m) + i]
  BY <1>3, DropIs DEF L
<1>6. ASSUME NEW i \in 1..(L - n - m) PROVE Drop(t, m).in[i] = Drop(s, n + m).in[i]
  <2>1. m + i \in 1..(L - n) /\ n + (m + i) = (n + m) + i /\ i \in 1..(L - (n + m))
    BY <1>1, <1>3 DEF L
  <2> QED
    BY <1>2, <1>4, <1>5, <2>1
<1>7. L - n - m = L - (n + m)
  BY <1>1 DEF L
<1> QED
  BY <1>4, <1>5, <1>6, <1>7, SameReader DEF t

LEMMA FromSame == ASSUME NEW s \in Reader PROVE From(s, s)
<1>1. Len(s.in) \in Nat
  BY DEF Reader
<1>2. Drop(s, 0) = s
  BY <1>1, DropIs, SameReader
<1> QED
  BY <1>1, <1>2 DEF From

LEMMA FromType ==
  ASSUME NEW s \in Reader, NEW t, From(s, t)
  PROVE  t \in Reader /\ t.py = s.py /\ Len(t.in) \in 0..Len(s.in) /\ Len(s.in) \in Nat
<1>1. PICK n \in 0..Len(s.in) : t = Drop(s, n)
  BY DEF From
<1>2. Len(s.in) \in Nat
  BY DEF Reader
<1> QED
  BY <1>1, <1>2, DropIs

LEMMA FromFrom ==
  ASSUME NEW s \in Reader, NEW t, NEW q, From(s, t), From(t, q)
  PROVE  From(s, q)
<1>1. PICK n \in 0..Len(s.in) : t = Drop(s, n)
  BY DEF From
<1>2. PICK m \in 0..Len(t.in) : q = Drop(t, m)
  BY DEF From
<1>3. Len(t.in) = Len(s.in) - n /\ Len(s.in) \in Nat
  BY <1>1, DropIs DEF Reader
<1>4. q = Drop(s, n + m) /\ n + m \in 0..Len(s.in)
  BY <1>1, <1>2, <1>3, DropDrop
<1> QED
  BY <1>4 DEF From

LEMMA FromDrop ==
  ASSUME NEW s \in Reader, NEW n \in 0..Len(s.in) PROVE From(s, Drop(s, n))
  BY DEF From

(* At the end of the input nothing is left to be read.                      *)
LEMMA FromRest ==
  ASSUME NEW s \in Reader
  PROVE  /\ From(s, Rest(s))
         /\ Peek(s) # "" => Len(s.in) >= 1 /\ Peek(s) = s.in[1] /\ Len(Rest(s).in) = Len(s.in) - 1
<1>1. s.in \in Seq(Character) /\ Len(s.in) \in Nat
  BY DEF Reader
<1>2. CASE s.in = <<>>
  <2>1. SubSeq(s.in, 2, Len(s.in)) = <<>>
    BY <1>2, SubSeqEmpty
  <2>2. Rest(s) = s
    BY <1>2, <2>1 DEF Rest, Drop, Reader
  <2> QED
    BY <1>2, <2>2, FromSame DEF Peek
<1>3. CASE s.in # <<>>
  <2>1. 1 \in 0..Len(s.in)
    BY <1>1, <1>3
  <2>2. From(s, Drop(s, 1)) /\ Len(Drop(s, 1).in) = Len(s.in) - 1
    BY <2>1, FromDrop, DropIs
  <2>3. Peek(s) = s.in[1]
    BY <1>1, <1>3 DEF Peek
  <2>4. Rest(s) = Drop(s, 1)
    BY DEF Rest
  <2>5. Len(s.in) >= 1
    BY <1>1, <2>1
  <2> QED
    BY <2>2, <2>3, <2>4, <2>5
<1> QED
  BY <1>2, <1>3

-----------------------------------------------------------------------------
(* The two ends of the input at which read_value does not return.           *)
Hung(s) == \/ OpenComment(s.in)
           \/ s.py = 2 /\ OpenHex(s.in)

Alphabet == Range(HexDigits) \cup {"_", "."}

LEMMA HungBefore ==
  ASSUME NEW s \in Reader, NEW t, From(s, t), Hung(t)
  PROVE  Hung(s)
<1>1. PICK n \in 0..Len(s.in) : t = Drop(s, n)
  BY DEF From
<1>2. /\ t.py = s.py /\ Len(t.in) = Len(s.in) - n /\ Len(s.in) \in Nat
      /\ \A i \in 1..(Len(s.in) - n) : t.in[i] = s.in[n + i]
  BY <1>1, DropIs DEF Reader
<1>3. ASSUME OpenComment(t.in) PROVE OpenComment(s.in)
  <2>1. PICK i \in 1..(Len(t.in) - 1) :
          /\ t.in[i] = "-" /\ t.in[i + 1] = "-"
          /\ \A j \in i..Len(t.in) : t.in[j] # "\n"
    BY <1>3 DEF OpenComment
  <2>2. n + i \in 1..(Len(s.in) - 1) /\ n + (i + 1) = (n + i) + 1
        /\ i \in 1..(Len(s.in) - n) /\ i + 1 \in 1..(Len(s.in) - n)
    BY <1>2
  <2>3. s.in[n + i] = "-" /\ s.in[(n + i) + 1] = "-"
    BY <1>2, <2>1, <2>2
  <2>4. ASSUME NEW j \in (n + i)..Len(s.in) PROVE s.in[j] # "\n"
    <3>1. j - n \in i..Len(t.in) /\ j - n \in 1..(Len(s.in) - n) /\ n + (j - n) = j
      BY <1>2
    <3> QED
      BY <1>2, <2>1, <3>1
  <2> QED
    BY <2>2, <2>3, <2>4 DEF OpenComment
<1>4. ASSUME OpenHex(t.in) PROVE OpenHex(s.in)
  <2>1. PICK i \in 1..(Len(t.in) - 1) :
          /\ t.in[i] = "0" /\ t.in[i + 1] \in {"x", "X"}
          /\ \A j \in (i + 2)..Len(t.in) : t.in[j] \in Alphabet
    BY <1>4 DEF OpenHex, Alphabet
  <2>2. n + i \in 1..(Len(s.in) - 1) /\ n + (i + 1) = (n + i) + 1
        /\ i \in 1..(Len(s.in) - n) /\ i + 1 \in 1..(Len(s.in) - n)
    BY <1>2
  <2>3. s.in[n + i] = "0" /\ s.in[(n + i) + 1] \in {"x", "X"}
    BY <1>2, <2>1, <2>2
  <2>4. ASSUME NEW j \in ((n + i) + 2)..Len(s.in) PROVE s.in[j] \in Alphabet
    <3>1. j - n \in (i + 2)..Len(t.in) /\ j - n \in 1..(Len(s.in) - n) /\ n + (j - n) = j
      BY <1>2
    <3> QED
      BY <1>2, <2>1, <3>1
  <2> QED
    BY <2>2, <2>3, <2>4 DEF OpenHex, Alphabet
<1> QED
  BY <1>2, <1>3, <1>4 DEF Hung

(* The ways a call can end.                                                 *)
Exceptions == {"ValueError", "TypeError", "struct.error", "exit"}
Endings    == {"value", "hangs"} \cup Exceptions

(* A call that reads on from s: it leaves a later reader of the same input, *)
(* and returns unless it is at one of the two ends.                         *)
ReadsOn(s, r) ==
  /\ From(s, r.s)
  /\ r.out \in Endings
  /\ r.out = "hangs" => Hung(s)

LEMMA RetReadsOn == ASSUME NEW s, NEW t, NEW e, From(s, t) PROVE ReadsOn(s, Ret(t, e))
  BY DEF ReadsOn, Ret, Endings

LEMMA RaiseReadsOn ==
  ASSUME NEW s, NEW t, From(s, t), NEW e \in {"ValueError", "TypeError", "struct.error", "exit"}
  PROVE  ReadsOn(s, Raise(t, e))
  BY DEF ReadsOn, Raise, Endings, Exceptions

LEMMA OptionalReadsOn ==
  ASSUME NEW s, NEW r, ReadsOn(s, r) PROVE ReadsOn(s, Optional(r))
  BY DEF ReadsOn, Optional, Ret, Endings

(* What has been read before a call does not matter.                        *)
LEMMA ReadsOnBefore ==
  ASSUME NEW s \in Reader, NEW t, NEW r, From(s, t), ReadsOn(t, r) PROVE ReadsOn(s, r)
<1>1. From(s, r.s)
  BY FromFrom DEF ReadsOn
<1>2. ASSUME r.out = "hangs" PROVE Hung(s)
  BY <1>2, HungBefore DEF ReadsOn
<1> QED
  BY <1>1, <1>2 DEF ReadsOn

(* One call after another, as Then has it.                                  *)
LEMMA ThenReadsOn ==
  ASSUME NEW s \in Reader, NEW r, NEW next,
         ReadsOn(s, r), r.out = "value" => ReadsOn(r.s, next)
  PROVE  ReadsOn(s, IF r.out = "value" THEN next ELSE r)
<1>1. CASE r.out = "value"
  BY <1>1, ReadsOnBefore DEF ReadsOn
<1>2. CASE r.out # "value"
  BY <1>2
<1> QED
  BY <1>1, <1>2

LEMMA SkipSpacesReadsOn ==
  ASSUME NEW s \in Reader
  PROVE  ReadsOn(s, SkipSpaces(s))
<1> DEFINE comments == Comments(s.in)
           good == comments \cup {i \in DOMAIN s.in : s.in[i] \in Blanks}
           n == Longest(Len(s.in), good)
<1>1. Len(s.in) \in Nat /\ DOMAIN s.in = 1..Len(s.in)
  BY DEF Reader
<1>2. good \subseteq 1..Len(s.in)
  BY <1>1 DEF Comments, InLineOf
<1>3. n \in 0..Len(s.in)
  BY <1>1, <1>2, LongestIs
<1>4. ASSUME n = Len(s.in), n \in comments PROVE OpenComment(s.in)
  <2>1. PICK j \in 1..n : /\ j \in {i \in 1..(Len(s.in) - 1) : s.in[i] = "-" /\ s.in[i + 1] = "-"}
                          /\ \A k \in j..n : s.in[k] # "\n"
    <3> HIDE DEF n
    <3> QED
      BY <1>4 DEF Comments, InLineOf
  <2> HIDE DEF n
  <2> QED
    BY <1>4, <2>1 DEF OpenComment
<1> HIDE DEF n
<1>5. SkipSpaces(s) = IF n = Len(s.in) /\ n \in comments THEN Raise(s, "hangs")
                      ELSE Ret(Drop(s, n), None)
  BY DEF SkipSpaces, Skip, n
<1>6. CASE n = Len(s.in) /\ n \in comments
  BY <1>4, <1>5, <1>6, FromSame DEF ReadsOn, Raise, Hung, Endings
<1>7. CASE ~ (n = Len(s.in) /\ n \in comments)
  BY <1>3, <1>5, <1>7, FromDrop, RetReadsOn
<1> QED
  BY <1>6, <1>7

LEMMA ParseCharReadsOn ==
  ASSUME NEW s \in Reader, NEW c
  PROVE  ReadsOn(s, ParseChar(s, c))
<1>1. From(s, Rest(s)) /\ From(s, s)
  BY FromRest, FromSame
<1> QED
  BY <1>1, RetReadsOn, RaiseReadsOn DEF ParseChar

LEMMA ParseStringReadsOn ==
  ASSUME NEW s \in Reader, NEW string
  PROVE  ReadsOn(s, ParseString(s, string))
<1> DEFINE good == {i \in DOMAIN s.in : i <= Len(string) /\ s.in[i] = string[i]}
           n == Longest(Len(s.in), good)
<1>1. Len(s.in) \in Nat /\ DOMAIN s.in = 1..Len(s.in)
  BY DEF Reader
<1>2. n \in 0..Len(s.in)
  BY <1>1, LongestIs
<1> HIDE DEF n
<1>3. From(s, Drop(s, n))
  BY <1>2, FromDrop
<1>4. ParseString(s, string) = IF n = Len(string) THEN Ret(Drop(s, n), TRUE)
                               ELSE Raise(Drop(s, n), "ValueError")
  BY DEF ParseString, n
<1> QED
  BY <1>3, <1>4, RetReadsOn, RaiseReadsOn

LEMMA OptionalStringReadsOn ==
  ASSUME NEW s \in Reader, NEW string
  PROVE  ReadsOn(s, OptionalString(s, string))
<1>1. ReadsOn(s, ParseString(s, string)) /\ ReadsOn(s, Ret(s, FALSE))
  BY ParseStringReadsOn, FromSame, RetReadsOn
<1> QED
  BY <1>1 DEF OptionalString

-----------------------------------------------------------------------------
(* Numbers.  DigitsTo(s, t): what is read between s and t could stand in a  *)
(* hexadecimal number.                                                      *)
DigitsTo(s, t) == \E n \in 0..Len(s.in) : t = Drop(s, n) /\ \A i \in 1..n : s.in[i] \in Alphabet

DigitsToEnd(s) == \A i \in 1..Len(s.in) : s.in[i] \in Alphabet

LEMMA PointIsDigit ==
  ASSUME NEW s \in Reader, Peek(s) = "."
  PROVE  DigitsTo(s, Rest(s))
<1>1. Peek(s) # "" /\ Len(s.in) \in Nat
  BY DEF Reader
<1>2. Len(s.in) >= 1 /\ s.in[1] = "."
  BY <1>1, FromRest
<1>3. 1 \in 0..Len(s.in)
  BY <1>1, <1>2
<1>4. ASSUME NEW i \in 1..1 PROVE s.in[i] \in Alphabet
  <2>1. i = 1 /\ "." \in Alphabet
    BY DEF Alphabet
  <2> QED
    BY <1>2, <2>1
<1> SUFFICES \E n \in 0..Len(s.in) : Drop(s, 1) = Drop(s, n) /\ \A i \in 1..n : s.in[i] \in Alphabet
  BY DEF DigitsTo, Rest
<1> WITNESS 1 \in 0..Len(s.in)
<1> QED
  BY <1>4

LEMMA DigitsThenEnd ==
  ASSUME NEW s \in Reader, NEW t, DigitsTo(s, t), DigitsToEnd(t)
  PROVE  DigitsToEnd(s)
<1>1. PICK n \in 0..Len(s.in) : t = Drop(s, n) /\ \A i \in 1..n : s.in[i] \in Alphabet
  BY DEF DigitsTo
<1>2. /\ Len(t.in) = Len(s.in) - n /\ Len(s.in) \in Nat
      /\ \A i \in 1..(Len(s.in) - n) : t.in[i] = s.in[n + i]
  <2>1. t = Drop(s, n)
    BY <1>1
  <2> QED
    BY <2>1, DropIs DEF Reader
<1>3. ASSUME NEW i \in 1..Len(s.in) PROVE s.in[i] \in Alphabet
  <2>1. CASE i <= n
    BY <1>1, <2>1
  <2>2. CASE i > n
    <3>1. i - n \in 1..Len(t.in) /\ i - n \in 1..(Len(s.in) - n) /\ n + (i - n) = i
      BY <1>2, <2>2
    <3> QED
      BY <1>2, <3>1 DEF DigitsToEnd
  <2> QED
    BY <2>1, <2>2
<1> QED
  BY <1>3 DEF DigitsToEnd

(* A call that reads a hexadecimal number, after its 0x.                    *)
ReadsHex(s, r) ==
  /\ From(s, r.s)
  /\ r.out \in Endings
  /\ r.out = "hangs" => Hung(s) \/ (s.py = 2 /\ DigitsToEnd(s))

LEMMA ThenReadsHex ==
  ASSUME NEW s \in Reader, NEW r, NEW next,
         ReadsHex(s, r), r.out = "value" => DigitsTo(s, r.s) /\ ReadsHex(r.s, next)
  PROVE  ReadsHex(s, IF r.out = "value" THEN next ELSE r)
<1>1. CASE r.out = "value"
  <2>1. DigitsTo(s, r.s) /\ From(s, r.s) /\ r.s \in Reader /\ r.s.py = s.py
    BY <1>1, FromType DEF ReadsHex
  <2>2. From(s, next.s)
    BY <1>1, <2>1, FromFrom DEF ReadsHex
  <2>3. ASSUME next.out = "hangs" PROVE Hung(s) \/ (s.py = 2 /\ DigitsToEnd(s))
    BY <1>1, <2>1, <2>3, HungBefore, DigitsThenEnd DEF ReadsHex
  <2> QED
    BY <1>1, <2>2, <2>3 DEF ReadsHex
<1>2. CASE r.out # "value"
  BY <1>2
<1> QED
  BY <1>1, <1>2

LEMMA ThenReadsHexOn ==
  ASSUME NEW s \in Reader, NEW r, NEW next,
         ReadsHex(s, r), r.out = "value" => ReadsOn(r.s, next)
  PROVE  ReadsHex(s, IF r.out = "value" THEN next ELSE r)
<1>1. CASE r.out = "value"
  BY <1>1, ReadsOnBefore DEF ReadsHex, ReadsOn
<1>2. CASE r.out # "value"
  BY <1>2
<1> QED
  BY <1>1, <1>2

(* In Python 2 an 0x and digits up to the end of the input are an OpenHex.  *)
LEMMA AfterHexMark ==
  ASSUME NEW s \in Reader, IsHex(s)
  PROVE  /\ From(s, Drop(s, 2)) /\ Drop(s, 2) \in Reader /\ Drop(s, 2).py = s.py
         /\ s.py = 2 /\ DigitsToEnd(Drop(s, 2)) => Hung(s)
<1>1. Peek(s) = "0" /\ Peek(Rest(s)) \in {"x", "X"}
  BY DEF IsHex
<1>2. Len(s.in) >= 1 /\ Peek(s) = s.in[1] /\ Len(Rest(s).in) = Len(s.in) - 1 /\ Len(s.in) \in Nat
  <2>1. Peek(s) # "" /\ Len(s.in) \in Nat
    BY <1>1 DEF Reader
  <2> QED
    BY <2>1, FromRest
<1>3. /\ Rest(s) \in Reader
      /\ \A i \in 1..(Len(s.in) - 1) : Rest(s).in[i] = s.in[1 + i]
  <2>1. 1 \in 0..Len(s.in)
    BY <1>2
  <2> QED
    BY <2>1, DropIs DEF Rest
<1>4. Len(Rest(s).in) >= 1 /\ Peek(Rest(s)) = Rest(s).in[1]
  BY <1>1, <1>3, FromRest
<1>5. Len(s.in) >= 2 /\ s.in[1] = "0" /\ s.in[1 + 1] \in {"x", "X"}
  BY <1>1, <1>2, <1>3, <1>4
<1>6. /\ Drop(s, 2) \in Reader /\ Drop(s, 2).py = s.py /\ Len(Drop(s, 2).in) = Len(s.in) - 2
      /\ \A i \in 1..(Len(s.in) - 2) : Drop(s, 2).in[i] = s.in[2 + i]
      /\ From(s, Drop(s, 2))
  BY <1>2, <1>5, DropIs, FromDrop
<1>7. ASSUME DigitsToEnd(Drop(s, 2)) PROVE OpenHex(s.in)
  <2>1. ASSUME NEW j \in (1 + 2)..Len(s.in) PROVE s.in[j] \in Alphabet
    <3>1. j - 2 \in 1..(Len(s.in) - 2) /\ 2 + (j - 2) = j
      BY <1>2
    <3> QED
      BY <1>6, <1>7, <3>1 DEF DigitsToEnd
  <2>2. 1 \in 1..(Len(s.in) - 1)
    BY <1>2, <1>5
  <2> QED
    BY <1>5, <2>1, <2>2 DEF OpenHex, Alphabet
<1> QED
  BY <1>6, <1>7 DEF Hung

LEMMA HexReadsOn ==
  ASSUME NEW s \in Reader, IsHex(s), NEW r, ReadsHex(Drop(s, 2), r)
  PROVE  ReadsOn(s, r)
<1>1. From(s, r.s)
  BY AfterHexMark, FromFrom DEF ReadsHex
<1>2. ASSUME r.out = "hangs" PROVE Hung(s)
  BY <1>2, AfterHexMark, HungBefore DEF ReadsHex
<1> QED
  BY <1>1, <1>2 DEF ReadsOn, ReadsHex

LEMMA ParseHexIntReadsHex ==
  ASSUME NEW s \in Reader
  PROVE  /\ ReadsHex(s, ParseHexInt(s))
         /\ ParseHexInt(s).out = "value" => DigitsTo(s, ParseHexInt(s).s)
<1> DEFINE C == Range(HexDigits) \cup Skipped(s)
           good == {i \in DOMAIN s.in : s.in[i] \in C}
           n == Longest(Len(s.in), good)
           digits == SelectSeq(SubSeq(s.in, 1, n), LAMBDA c : c # "_")
           number == Decimal(Number(digits, 16))
           r == ParseHexInt(s)
<1>1. Len(s.in) \in Nat /\ DOMAIN s.in = 1..Len(s.in)
  BY DEF Reader
<1>2. n \in 0..Len(s.in) /\ 1..n \subseteq good
  BY <1>1, LongestIs
<1>3. C \subseteq Alphabet
  BY DEF Skipped, Alphabet
<1>4. \A i \in 1..n : s.in[i] \in Alphabet
  BY <1>2, <1>3
<1>5. n = Span(s.in, C)
  BY DEF Span
<1> HIDE DEF n
<1>6. r = IF s.py = 3 THEN Raise(Rest(s), "TypeError")
          ELSE IF n = Len(s.in) THEN Raise(s, "hangs")
          ELSE IF digits = <<>> THEN Raise(Drop(s, n), "ValueError")
          ELSE Ret(Drop(s, n), number)
  BY <1>5, Zenon DEF ParseHexInt
<1> SUFFICES ReadsHex(s, r) /\ (r.out = "value" => DigitsTo(s, r.s))
  BY Zenon
<1> HIDE DEF r, digits, number
<1>7. CASE s.py = 3
  BY <1>6, <1>7, FromRest DEF Raise, ReadsHex, Endings, Exceptions
<1>8. CASE s.py # 3 /\ n = Len(s.in)
  <2>1. s.py = 2 /\ DigitsToEnd(s)
    BY <1>4, <1>8 DEF Reader, DigitsToEnd
  <2> QED
    BY <1>6, <1>8, <2>1, FromSame DEF Raise, ReadsHex, Endings, Exceptions
<1>9. CASE s.py # 3 /\ n # Len(s.in)
  <2>1. DigitsTo(s, Drop(s, n)) /\ From(s, Drop(s, n))
    BY <1>2, <1>4, FromDrop DEF DigitsTo
  <2> QED
    BY <1>6, <1>9, <2>1 DEF Raise, Ret, ReadsHex, Endings, Exceptions
<1> QED
  BY <1>7, <1>8, <1>9

LEMMA ParseIntReadsOn ==
  ASSUME NEW s \in Reader
  PROVE  ReadsOn(s, ParseInt(s))
<1> DEFINE good == {i \in DOMAIN s.in : s.in[i] \in Digits \cup Skipped(s)}
           n == Longest(Len(s.in), good)
           digits == SelectSeq(SubSeq(s.in, 1, n), LAMBDA c : c # "_")
<1>1. Len(s.in) \in Nat /\ DOMAIN s.in = 1..Len(s.in)
  BY DEF Reader
<1>2. n \in 0..Len(s.in)
  BY <1>1, LongestIs
<1>3. n = Span(s.in, Digits \cup Skipped(s))
  BY DEF Span
<1> HIDE DEF n
<1>4. ParseInt(s) = IF IsHex(s) THEN ParseHexInt(Drop(s, 2))
                    ELSE IF digits = <<>> THEN Raise(Drop(s, n), "ValueError")
                    ELSE Ret(Drop(s, n), digits)
  BY <1>3, Zenon DEF ParseInt
<1> HIDE DEF digits
<1>5. CASE IsHex(s)
  BY <1>4, <1>5, AfterHexMark, ParseHexIntReadsHex, HexReadsOn
<1>6. CASE ~ IsHex(s)
  <2>1. From(s, Drop(s, n))
    BY <1>2, FromDrop
  <2> QED
    BY <1>4, <1>6, <2>1, RetReadsOn, RaiseReadsOn
<1> QED
  BY <1>5, <1>6

LEMMA ThenRetReadsOn ==
  ASSUME NEW s, NEW r, NEW e, ReadsOn(s, r)
  PROVE  ReadsOn(s, IF r.out = "value" THEN Ret(r.s, e) ELSE r)
  BY RetReadsOn DEF ReadsOn

LEMMA ParseIntSignedReadsOn ==
  ASSUME NEW s \in Reader
  PROVE  ReadsOn(s, ParseIntSigned(s))
<1>1. ASSUME NEW t \in Reader, From(s, t) PROVE ReadsOn(s, ParseInt(t))
  BY <1>1, ParseIntReadsOn, ReadsOnBefore
<1> DEFINE t == IF Peek(s) = "+" THEN Rest(s) ELSE s
           minus == ParseInt(Rest(s))
           plus == ParseInt(t)
<1>2. ReadsOn(s, minus) /\ ReadsOn(s, plus)
  BY <1>1, FromRest, FromSame, FromType
<1>3. ParseIntSigned(s) =
        IF Peek(s) = "-" /\ Peek(Rest(s)) \in Digits
        THEN IF minus.out = "value" THEN Ret(minus.s, -Number(minus.v, 10)) ELSE minus
        ELSE IF plus.out = "value" THEN Ret(plus.s, Number(plus.v, 10)) ELSE plus
  BY Zenon DEF ParseIntSigned, Then
<1> HIDE DEF minus, plus
<1> QED
  BY <1>2, <1>3, ThenRetReadsOn

LEMMA ReadStrIntReadsOn ==
  ASSUME NEW s \in Reader, NEW t
  PROVE  ReadsOn(s, ReadStrInt(s, t))
<1> DEFINE r1 == SkipSpaces(s)
           r2 == ParseIntSigned(r1.s)
           r3 == OptionalString(r2.s, Name(t))
           end == IF r3.out = "value" THEN Ret(r3.s, <<"int", Wrapped(t, r2.v)>>) ELSE r3
           number == IF r2.out = "value" THEN end ELSE r2
<1>1. ReadsOn(s, r1) /\ r1.s \in Reader
  BY SkipSpacesReadsOn, FromType DEF ReadsOn
<1>2. ReadsOn(r1.s, r2) /\ r2.s \in Reader
  BY <1>1, ParseIntSignedReadsOn, FromType DEF ReadsOn
<1>3. ReadStrInt(s, t) = IF r1.out = "value" THEN number ELSE r1
  BY Zenon DEF ReadStrInt, Then
<1>4. ReadsOn(r2.s, r3)
  BY <1>2, OptionalStringReadsOn
<1> HIDE DEF r1, r2, r3
<1>5. ReadsOn(r2.s, end)
  BY <1>4, ThenRetReadsOn
<1> HIDE DEF end
<1>6. ReadsOn(r1.s, number)
  BY <1>1, <1>2, <1>5, ThenReadsOn
<1> HIDE DEF number
<1> QED
  BY <1>1, <1>3, <1>6, ThenReadsOn

(* The parts of a hexadecimal float; after the exponent's 0x it may hang    *)
(* like any other number.                                                   *)
LEMMA ReadStrHexFloatReadsHex ==
  ASSUME NEW s \in Reader, NEW negative
  PROVE  ReadsHex(s, ReadStrHexFloat(s, negative))
<1> DEFINE r1 == ParseHexInt(s)
           r2 == ParseChar(r1.s, ".")
           r3 == ParseHexInt(r2.s)
           r4 == ParseChar(r3.s, "p")
           r5 == ParseInt(r4.s)
           float == <<"hexfloat", negative, Number(r1.v, 16), Number(r3.v, 16),
                      Len(r3.v), Number(r5.v, 10)>>
           next5 == IF r5.out = "value" THEN Ret(r5.s, float) ELSE r5
           next4 == IF r4.out = "value" THEN next5 ELSE r4
           next3 == IF r3.out = "value" THEN next4 ELSE r3
           next2 == IF r2.out = "value" THEN next3 ELSE r2
<1>1. ReadStrHexFloat(s, negative) = IF r1.out = "value" THEN next2 ELSE r1
  BY Zenon DEF ReadStrHexFloat, Then
<1>2. /\ ReadsHex(s, r1) /\ r1.s \in Reader
      /\ r1.out = "value" => DigitsTo(s, r1.s)
  BY ParseHexIntReadsHex, FromType DEF ReadsHex
<1>3. /\ ReadsOn(r1.s, r2) /\ r2.s \in Reader
      /\ r2.out = "value" => DigitsTo(r1.s, r2.s)
  <2> HIDE DEF r1
  <2>1. ReadsOn(r1.s, r2) /\ r2.s \in Reader
    BY <1>2, ParseCharReadsOn, FromType DEF ReadsOn
  <2>2. ASSUME r2.out = "value" PROVE DigitsTo(r1.s, r2.s)
    <3>1. Peek(r1.s) = "." /\ r2.s = Rest(r1.s)
      BY <2>2 DEF ParseChar, Raise, Ret
    <3> QED
      BY <1>2, <3>1, PointIsDigit
  <2> QED
    BY <2>1, <2>2
<1>4. /\ ReadsHex(r2.s, r3) /\ r3.s \in Reader
  BY <1>3, ParseHexIntReadsHex, FromType DEF ReadsHex
<1>5. ReadsOn(r3.s, r4) /\ r4.s \in Reader
  BY <1>4, ParseCharReadsOn, FromType DEF ReadsOn
<1>6. ReadsOn(r4.s, r5)
  BY <1>5, ParseIntReadsOn
<1> HIDE DEF r1, r2, r3, r4, r5, float
<1>7. ReadsOn(r4.s, next5)
  BY <1>6, ThenRetReadsOn
<1> HIDE DEF next5
<1>8. ReadsOn(r3.s, next4)
  BY <1>4, <1>5, <1>7, ThenReadsOn
<1> HIDE DEF next4
<1>9. ReadsHex(r2.s, next3)
  BY <1>3, <1>4, <1>8, ThenReadsHexOn
<1> HIDE DEF next3
<1>10. ReadsHex(r1.s, r2)
  BY <1>3 DEF ReadsOn, ReadsHex
<1>11. ReadsHex(r1.s, next2)
  BY <1>2, <1>3, <1>9, <1>10, ThenReadsHex
<1> HIDE DEF next2
<1> QED
  BY <1>1, <1>2, <1>11, ThenReadsHex

LEMMA ReadMantissaReadsOn ==
  ASSUME NEW s \in Reader
  PROVE  ReadsOn(s, ReadMantissa(s))
<1> DEFINE r1 == Optional(ParseInt(s))
           bef == r1.v
           dot == ParseChar(r1.s, ".")
           alone == ParseInt(dot.s)
           after == ParseInt(Rest(r1.s))
           first == IF alone.out = "value" THEN Ret(alone.s, <<<<"0">>, alone.v>>) ELSE alone
           noInt == IF dot.out = "value" THEN first ELSE dot
           both  == IF after.out = "value" THEN Ret(after.s, <<bef, after.v>>) ELSE after
           next  == CASE bef = None -> noInt
                      [] bef # None /\ Peek(r1.s) = "." -> both
                      [] OTHER -> Ret(r1.s, <<bef, <<>>>>)
<1>1. ReadMantissa(s) = IF r1.out = "value" THEN next ELSE r1
  BY Zenon DEF ReadMantissa, Then
<1>2. ReadsOn(s, r1) /\ r1.s \in Reader
  BY ParseIntReadsOn, OptionalReadsOn, FromType DEF ReadsOn
<1>3. ReadsOn(r1.s, dot) /\ dot.s \in Reader
  BY <1>2, ParseCharReadsOn, FromType DEF ReadsOn
<1>4. ReadsOn(dot.s, alone)
  BY <1>3, ParseIntReadsOn
<1>5. ReadsOn(r1.s, after)
  <2>1. From(r1.s, Rest(r1.s)) /\ Rest(r1.s) \in Reader
    BY <1>2, FromRest, FromType
  <2> QED
    BY <1>2, <2>1, ParseIntReadsOn, ReadsOnBefore
<1> HIDE DEF r1, dot, alone, after
<1>6. ReadsOn(dot.s, first) /\ ReadsOn(r1.s, both)
  BY <1>4, <1>5, ThenRetReadsOn
<1> HIDE DEF first, both
<1>7. ReadsOn(r1.s, noInt)
  BY <1>2, <1>3, <1>6, ThenReadsOn
<1>8. ReadsOn(r1.s, Ret(r1.s, <<bef, <<>>>>))
  BY <1>2, FromSame, RetReadsOn
<1> HIDE DEF noInt, bef
<1>9. ReadsOn(r1.s, next)
  BY <1>6, <1>7, <1>8
<1> HIDE DEF next
<1> QED
  BY <1>1, <1>2, <1>9, ThenReadsOn

LEMMA ReadExponentReadsOn ==
  ASSUME NEW s \in Reader
  PROVE  ReadsOn(s, ReadExponent(s))
<1>1. From(s, Rest(s)) /\ Rest(s) \in Reader
  BY FromRest, FromType
<1>2. ReadsOn(s, ParseIntSigned(Rest(s)))
  BY <1>1, ParseIntSignedReadsOn, ReadsOnBefore
<1>3. ReadsOn(s, Ret(s, 0))
  BY FromSame, RetReadsOn
<1> QED
  BY <1>2, <1>3 DEF ReadExponent

LEMMA ReadStrDecimalReadsOn ==
  ASSUME NEW s \in Reader
  PROVE  ReadsOn(s, ReadStrDecimal(s))
<1> DEFINE r1 == SkipSpaces(s)
           negative == Peek(r1.s) = "-"
           s2 == IF negative THEN Rest(r1.s) ELSE r1.s
           hex == ReadStrHexFloat(Drop(s2, 2), negative)
           r3 == ReadMantissa(s2)
           r4 == ReadExponent(r3.s)
           float == MakeFloat(negative, Number(r3.v[1] \o r3.v[2], 10), r4.v - Len(r3.v[2]))
           next4 == IF r4.out = "value" THEN Ret(r4.s, float) ELSE r4
           dec == IF r3.out = "value" THEN next4 ELSE r3
           next == IF s2.py = 2 /\ IsHex(s2) THEN hex ELSE dec
<1>1. ReadStrDecimal(s) = IF r1.out = "value" THEN next ELSE r1
  BY Zenon DEF ReadStrDecimal, Then
<1>2. ReadsOn(s, r1) /\ r1.s \in Reader
  BY SkipSpacesReadsOn, FromType DEF ReadsOn
<1>3. From(r1.s, s2) /\ s2 \in Reader
  BY <1>2, FromRest, FromSame, FromType
<1> HIDE DEF r1, s2, negative
<1>4. ASSUME IsHex(s2) PROVE ReadsOn(s2, hex)
  BY <1>3, <1>4, AfterHexMark, ReadStrHexFloatReadsHex, HexReadsOn
<1>5. ReadsOn(s2, r3) /\ r3.s \in Reader
  BY <1>3, ReadMantissaReadsOn, FromType DEF ReadsOn
<1>6. ReadsOn(r3.s, r4)
  BY <1>5, ReadExponentReadsOn
<1> HIDE DEF r3, r4, float, hex
<1>7. ReadsOn(r3.s, next4)
  BY <1>6, ThenRetReadsOn
<1> HIDE DEF next4
<1>8. ReadsOn(s2, dec)
  BY <1>3, <1>5, <1>7, ThenReadsOn
<1> HIDE DEF dec
<1>9. ReadsOn(s2, next)
  BY <1>4, <1>8
<1> HIDE DEF next
<1> QED
  BY <1>1, <1>2, <1>3, <1>9, ReadsOnBefore, ThenReadsOn

LEMMA ReadStrFloatReadsOn ==
  ASSUME NEW s \in Reader, NEW t
  PROVE  ReadsOn(s, ReadStrFloat(s, t))
<1> DEFINE r1 == ReadStrDecimal(s)
           r2 == OptionalString(r1.s, Name(t))
           next == IF r2.out = "value" THEN Ret(r2.s, r1.v) ELSE r2
<1>1. ReadStrFloat(s, t) = IF r1.out = "value" THEN next ELSE r1
  BY Zenon DEF ReadStrFloat, Then
<1>2. ReadsOn(s, r1) /\ r1.s \in Reader
  BY ReadStrDecimalReadsOn, FromType DEF ReadsOn
<1>3. ReadsOn(r1.s, r2)
  BY <1>2, OptionalStringReadsOn
<1> HIDE DEF r1, r2
<1>4. ReadsOn(r1.s, next)
  BY <1>3, ThenRetReadsOn
<1> HIDE DEF next
<1> QED
  BY <1>1, <1>2, <1>4, ThenReadsOn

LEMMA ReadStrBoolReadsOn ==
  ASSUME NEW s \in Reader
  PROVE  ReadsOn(s, ReadStrBool(s))
<1> DEFINE r1 == SkipSpaces(s)
           true == ParseString(r1.s, Chars("true"))
           false == ParseString(r1.s, Chars("false"))
           yes == IF true.out = "value" THEN Ret(true.s, <<"bool", TRUE>>) ELSE true
           no == IF false.out = "value" THEN Ret(false.s, <<"bool", FALSE>>) ELSE false
           next == CASE Peek(r1.s) = "t" -> yes
                     [] Peek(r1.s) = "f" -> no
                     [] OTHER            -> Raise(r1.s, "ValueError")
<1>1. ReadStrBool(s) = IF r1.out = "value" THEN next ELSE r1
  BY Zenon DEF ReadStrBool, Then
<1>2. ReadsOn(s, r1) /\ r1.s \in Reader
  BY SkipSpacesReadsOn, FromType DEF ReadsOn
<1>3. ReadsOn(r1.s, true) /\ ReadsOn(r1.s, false)
  BY <1>2, ParseStringReadsOn
<1> HIDE DEF r1, true, false
<1>4. ReadsOn(r1.s, yes) /\ ReadsOn(r1.s, no)
  BY <1>3, ThenRetReadsOn
<1>5. ReadsOn(r1.s, Raise(r1.s, "ValueError"))
  BY <1>2, FromSame, RaiseReadsOn
<1> HIDE DEF yes, no
<1>6. ReadsOn(r1.s, next)
  BY <1>4, <1>5
<1> HIDE DEF next
<1> QED
  BY <1>1, <1>2, <1>6, ThenReadsOn

LEMMA KindOfType ==
  ASSUME NEW t \in PrimType
  PROVE  Kind(t) \in {"signed", "unsigned", "float", "bool"}
  BY DEF Kind, PrimType, FUTHARK_PRIMTYPES

LEMMA ReadStrReadsOn ==
  ASSUME NEW s \in Reader, NEW t \in PrimType
  PROVE  ReadsOn(s, ReadStr(s, t))
<1>1. ReadsOn(s, ReadStrInt(s, t)) /\ ReadsOn(s, ReadStrFloat(s, t)) /\ ReadsOn(s, ReadStrBool(s))
  BY ReadStrIntReadsOn, ReadStrFloatReadsOn, ReadStrBoolReadsOn
<1> QED
  BY <1>1, KindOfType DEF ReadStr

-----------------------------------------------------------------------------
(* Arrays.                                                                  *)
LEMMA ReadStrEmptyArrayReadsOn ==
  ASSUME NEW s \in Reader, NEW t, NEW k
  PROVE  ReadsOn(s, ReadStrEmptyArray(s, t, k))
<1> DEFINE r == ParseString(s, Chars("empty(") \o Dimensions(k) \o Name(t) \o <<")">>)
<1>1. ReadsOn(s, r)
  BY ParseStringReadsOn
<1>2. ReadStrEmptyArray(s, t, k) = IF r.out = "value" THEN Ret(r.s, None) ELSE r
  BY Zenon DEF ReadStrEmptyArray, Then
<1> HIDE DEF r
<1> QED
  BY <1>1, <1>2, ThenRetReadsOn

LEMMA ReadStrCommaReadsOn ==
  ASSUME NEW s \in Reader
  PROVE  /\ ReadsOn(s, Optional(ReadStrComma(s)))
         /\ LET r == Optional(ReadStrComma(s))
            IN r.out = "value" /\ r.v # None => Len(r.s.in) < Len(s.in)
<1> DEFINE r1 == SkipSpaces(s)
           r2 == ParseChar(r1.s, ",")
           r == Optional(ReadStrComma(s))
<1>1. ReadStrComma(s) = IF r1.out = "value" THEN r2 ELSE r1
  BY Zenon DEF ReadStrComma, Then
<1>2. ReadsOn(s, r1) /\ r1.s \in Reader /\ Len(r1.s.in) \in 0..Len(s.in) /\ Len(s.in) \in Nat
  BY SkipSpacesReadsOn, FromType DEF ReadsOn
<1>3. ReadsOn(r1.s, r2)
  BY <1>2, ParseCharReadsOn
<1>4. ReadsOn(s, ReadStrComma(s))
  <2> HIDE DEF r1, r2
  <2> QED
    BY <1>1, <1>2, <1>3, ThenReadsOn
<1>5. ASSUME r.out = "value", r.v # None PROVE Len(r.s.in) < Len(s.in)
  <2>0. ReadStrComma(s).out # "ValueError"
    BY <1>5 DEF Optional, Ret
  <2>1. r = ReadStrComma(s) /\ ReadStrComma(s).out = "value"
    BY <1>5, <2>0 DEF Optional
  <2> HIDE DEF r, r1
  <2>2. r1.out = "value" /\ r = r2 /\ r2.out = "value"
    BY <1>1, <2>1
  <2>3. Peek(r1.s) = "," /\ r2.s = Rest(r1.s)
    BY <2>2 DEF ParseChar, Raise, Ret
  <2>4. Len(r1.s.in) >= 1 /\ Len(Rest(r1.s).in) = Len(r1.s.in) - 1
    <3>1. Peek(r1.s) # ""
      BY <2>3
    <3> QED
      BY <1>2, <3>1, FromRest
  <2> HIDE DEF r2
  <2>5. r.s = Rest(r1.s)
    BY <2>2, <2>3
  <2>6. Len(r.s.in) = Len(r1.s.in) - 1
    BY <2>4, <2>5
  <2> QED
    BY <1>2, <2>6
<1> QED
  BY <1>4, <1>5, OptionalReadsOn

(* What the recursive calls have to be like, of fewer characters than s     *)
(* has, and that two tables of them are the same.                           *)
Calls(rank, n) == {"array", "more"} \X (0..rank) \X (0..n)

Table(s, rank, read) ==
  \A what \in {"array", "more"}, k \in 0..rank, q \in Reader :
    From(s, q) /\ Len(q.in) < Len(s.in) => ReadsOn(q, read[<<what, k, Len(q.in)>>])

Agree(s, rank, read, other) ==
  \A what \in {"array", "more"}, k \in 0..rank, m \in 0..(Len(s.in) - 1) :
    other[<<what, k, m>>] = read[<<what, k, m>>]

LEMMA SmallerCall ==
  ASSUME NEW s \in Reader, NEW rank \in Nat, NEW k \in 0..rank, NEW what \in {"array", "more"},
         NEW read, NEW other, Table(s, rank, read), Agree(s, rank, read, other),
         NEW q, From(s, q), Len(q.in) < Len(s.in)
  PROVE  /\ ReadsOn(q, read[<<what, k, Len(q.in)>>])
         /\ other[<<what, k, Len(q.in)>>] = read[<<what, k, Len(q.in)>>]
<1>1. q \in Reader /\ Len(q.in) \in 0..(Len(s.in) - 1)
  BY FromType
<1> QED
  BY <1>1 DEF Table, Agree

LEMMA ReadElemReadsOn ==
  ASSUME NEW s \in Reader, NEW t \in PrimType, NEW rank \in Nat, NEW k \in 0..rank,
         NEW read, NEW other, Table(s, rank, read), Agree(s, rank, read, other),
         NEW q, From(s, q), Len(q.in) < Len(s.in)
  PROVE  /\ ReadsOn(q, ReadElem(q, t, k, read))
         /\ ReadElem(q, t, k, other) = ReadElem(q, t, k, read)
<1>1. CASE k = 0
  <2>1. q \in Reader
    BY FromType
  <2> QED
    BY <1>1, <2>1, ReadStrReadsOn DEF ReadElem
<1>2. CASE k # 0
  <2>1. k - 1 \in 0..rank
    BY <1>2
  <2>2. /\ ReadsOn(q, read[<<"array", k - 1, Len(q.in)>>])
        /\ other[<<"array", k - 1, Len(q.in)>>] = read[<<"array", k - 1, Len(q.in)>>]
    BY <2>1, SmallerCall
  <2> QED
    BY <1>2, <2>2 DEF ReadElem
<1> QED
  BY <1>1, <1>2

(* After an element: the loop of sepBy.                                     *)
WithElem(e, r) == IF r.out = "value" THEN Ret(r.s, <<e>> \o r.v) ELSE r

LEMMA ReadMoreReadsOn ==
  ASSUME NEW s \in Reader, NEW rank \in Nat, NEW k \in 0..rank,
         NEW read, NEW other, Table(s, rank, read), Agree(s, rank, read, other),
         NEW q, From(s, q), Len(q.in) < Len(s.in), NEW r, ReadsOn(q, r)
  PROVE  /\ ReadsOn(r.s, WithElem(r.v, read[<<"more", k, Len(r.s.in)>>]))
         /\ other[<<"more", k, Len(r.s.in)>>] = read[<<"more", k, Len(r.s.in)>>]
<1> DEFINE more == read[<<"more", k, Len(r.s.in)>>]
<1>1. q \in Reader /\ From(s, r.s) /\ Len(r.s.in) < Len(s.in)
  <2>1. q \in Reader /\ Len(q.in) \in Nat /\ Len(s.in) \in Nat
    BY FromType
  <2>2. From(q, r.s)
    BY DEF ReadsOn
  <2>3. From(s, r.s) /\ Len(r.s.in) \in 0..Len(q.in)
    BY <2>1, <2>2, FromFrom, FromType
  <2> QED
    BY <2>1, <2>3
<1>2. ReadsOn(r.s, more) /\ other[<<"more", k, Len(r.s.in)>>] = more
  BY <1>1, SmallerCall
<1> HIDE DEF more
<1>3. ReadsOn(r.s, WithElem(r.v, more))
  BY <1>2, ThenRetReadsOn DEF WithElem
<1> QED
  BY <1>2, <1>3 DEF more

LEMMA MoreElemsReadsOn ==
  ASSUME NEW s \in Reader, NEW t \in PrimType, NEW rank \in Nat, NEW k \in 0..rank,
         NEW read, NEW other, Table(s, rank, read), Agree(s, rank, read, other)
  PROVE  /\ ReadsOn(s, MoreElems(s, t, k, read))
         /\ MoreElems(s, t, k, other) = MoreElems(s, t, k, read)
<1> DEFINE r1 == Optional(ReadStrComma(s))
           e == ReadElem(r1.s, t, k, read)
           eo == ReadElem(r1.s, t, k, other)
           more == read[<<"more", k, Len(e.s.in)>>]
           moreo == other[<<"more", k, Len(eo.s.in)>>]
           then == IF e.out = "value" THEN WithElem(e.v, more) ELSE e
           theno == IF eo.out = "value" THEN WithElem(eo.v, moreo) ELSE eo
           next == IF r1.v = None THEN Ret(r1.s, <<>>) ELSE then
           nexto == IF r1.v = None THEN Ret(r1.s, <<>>) ELSE theno
<1>1. ReadsOn(s, r1) /\ r1.s \in Reader /\ From(s, r1.s)
  BY ReadStrCommaReadsOn, FromType DEF ReadsOn
<1>2. r1.out = "value" /\ r1.v # None => Len(r1.s.in) < Len(s.in)
  BY ReadStrCommaReadsOn
<1>3. /\ MoreElems(s, t, k, read) = IF r1.out = "value" THEN next ELSE r1
      /\ MoreElems(s, t, k, other) = IF r1.out = "value" THEN nexto ELSE r1
  BY Zenon DEF MoreElems, Then, WithElem
<1> HIDE DEF r1
<1>4. ASSUME r1.out = "value", r1.v # None
      PROVE  ReadsOn(r1.s, then) /\ theno = then
  <2>1. Len(r1.s.in) < Len(s.in)
    BY <1>2, <1>4
  <2>2. ReadsOn(r1.s, e) /\ eo = e
    BY <1>1, <2>1, ReadElemReadsOn
  <2> HIDE DEF e, eo
  <2>3. ReadsOn(e.s, WithElem(e.v, more)) /\ moreo = more
    <3>1. ReadsOn(r1.s, e)
      BY <2>2
    <3>2. /\ ReadsOn(e.s, WithElem(e.v, read[<<"more", k, Len(e.s.in)>>]))
          /\ other[<<"more", k, Len(e.s.in)>>] = read[<<"more", k, Len(e.s.in)>>]
      BY <1>1, <2>1, <3>1, ReadMoreReadsOn
    <3> QED
      BY <2>2, <3>2
  <2> HIDE DEF more, moreo
  <2> QED
    BY <1>1, <2>2, <2>3, ThenReadsOn
<1>5. ReadsOn(r1.s, Ret(r1.s, <<>>))
  BY <1>1, FromSame, RetReadsOn
<1> HIDE DEF then, theno
<1>6. r1.out = "value" => ReadsOn(r1.s, next) /\ nexto = next
  BY <1>4, <1>5
<1> HIDE DEF next, nexto
<1> QED
  BY <1>1, <1>3, <1>6, ThenReadsOn

LEMMA SepByReadsOn ==
  ASSUME NEW s \in Reader, NEW t \in PrimType, NEW rank \in Nat, NEW k \in 0..rank,
         NEW read, NEW other, Table(s, rank, read), Agree(s, rank, read, other),
         NEW q, From(s, q), Len(q.in) < Len(s.in)
  PROVE  /\ ReadsOn(q, SepBy(q, t, k, read))
         /\ SepBy(q, t, k, other) = SepBy(q, t, k, read)
<1> DEFINE r1 == Optional(ReadElem(q, t, k, read))
           ro == Optional(ReadElem(q, t, k, other))
           more == read[<<"more", k, Len(r1.s.in)>>]
           moreo == other[<<"more", k, Len(ro.s.in)>>]
           next == IF r1.v = None THEN Ret(r1.s, <<>>) ELSE WithElem(r1.v, more)
           nexto == IF ro.v = None THEN Ret(ro.s, <<>>) ELSE WithElem(ro.v, moreo)
<1>1. /\ SepBy(q, t, k, read) = IF r1.out = "value" THEN next ELSE r1
      /\ SepBy(q, t, k, other) = IF ro.out = "value" THEN nexto ELSE ro
  BY Zenon DEF SepBy, Then, WithElem
<1>2. q \in Reader
  BY FromType
<1>3. ReadsOn(q, r1) /\ ro = r1
  BY ReadElemReadsOn, OptionalReadsOn
<1>4. From(q, r1.s) /\ r1.s \in Reader
  BY <1>2, <1>3, FromType DEF ReadsOn
<1> HIDE DEF r1, ro
<1>5. ReadsOn(r1.s, WithElem(r1.v, more)) /\ moreo = more
  <2>1. ReadsOn(q, r1)
    BY <1>3
  <2>2. /\ ReadsOn(r1.s, WithElem(r1.v, read[<<"more", k, Len(r1.s.in)>>]))
        /\ other[<<"more", k, Len(r1.s.in)>>] = read[<<"more", k, Len(r1.s.in)>>]
    BY <2>1, ReadMoreReadsOn
  <2> QED
    BY <1>3, <2>2
<1>6. ReadsOn(r1.s, Ret(r1.s, <<>>))
  BY <1>4, FromSame, RetReadsOn
<1> HIDE DEF more, moreo
<1>7. ReadsOn(r1.s, next) /\ nexto = next
  BY <1>3, <1>5, <1>6
<1> HIDE DEF next, nexto
<1> QED
  BY <1>1, <1>2, <1>3, <1>7, ThenReadsOn

LEMMA ReadListReadsOn ==
  ASSUME NEW s \in Reader, NEW t \in PrimType, NEW rank \in Nat, NEW k \in 0..rank,
         NEW read, NEW other, Table(s, rank, read), Agree(s, rank, read, other)
  PROVE  /\ ReadsOn(s, ReadList(s, t, k, read))
         /\ ReadList(s, t, k, other) = ReadList(s, t, k, read)
<1> DEFINE r1 == SkipSpaces(s)
           empty == ReadStrEmptyArray(r1.s, t, k)
           r2 == SepBy(Rest(r1.s), t, k, read)
           ro == SepBy(Rest(r1.s), t, k, other)
           r3 == SkipSpaces(r2.s)
           r4 == ParseChar(r3.s, "]")
           end4 == IF r4.out = "value" THEN Ret(r4.s, r2.v) ELSE r4
           end3 == IF r3.out = "value" THEN end4 ELSE r3
           list == IF r2.out = "value" THEN end3 ELSE r2
           next == IF Peek(r1.s) # "[" THEN empty ELSE list
<1>1. ReadList(s, t, k, read) = IF r1.out = "value" THEN next ELSE r1
  BY Zenon DEF ReadList, Then
<1>2. ReadsOn(s, r1) /\ r1.s \in Reader /\ From(s, r1.s) /\ Len(r1.s.in) \in 0..Len(s.in)
      /\ Len(s.in) \in Nat
  BY SkipSpacesReadsOn, FromType DEF ReadsOn
<1>3. ASSUME Peek(r1.s) = "[" PROVE ReadsOn(r1.s, r2) /\ r2.s \in Reader /\ ro = r2
  <2> HIDE DEF r1
  <2>1. Peek(r1.s) # ""
    BY <1>3
  <2>2. From(r1.s, Rest(r1.s)) /\ Len(r1.s.in) >= 1 /\ Len(Rest(r1.s).in) = Len(r1.s.in) - 1
    BY <1>2, <2>1, FromRest
  <2>3. From(s, Rest(r1.s)) /\ Len(Rest(r1.s).in) < Len(s.in)
    BY <1>2, <2>2, FromFrom
  <2>4. ReadsOn(Rest(r1.s), r2) /\ ro = r2
    BY <2>3, SepByReadsOn
  <2>5. ReadsOn(r1.s, r2)
    BY <1>2, <2>2, <2>4, ReadsOnBefore
  <2> QED
    BY <1>2, <2>4, <2>5, FromType DEF ReadsOn
<1>4. ReadList(s, t, k, other) = ReadList(s, t, k, read)
  <2>1. CASE Peek(r1.s) = "["
    <3>1. ro = r2
      BY <1>3, <2>1
    <3> QED
      BY <3>1, Zenon DEF ReadList, Then
  <2>2. CASE Peek(r1.s) # "["
    BY <2>2, Zenon DEF ReadList, Then
  <2> QED
    BY <2>1, <2>2
<1>5. ASSUME Peek(r1.s) = "[" PROVE ReadsOn(r1.s, list)
  <2>1. ReadsOn(r1.s, r2) /\ r2.s \in Reader
    BY <1>3, <1>5
  <2> HIDE DEF r1, r2
  <2>2. ReadsOn(r2.s, r3) /\ r3.s \in Reader
    BY <2>1, SkipSpacesReadsOn, FromType DEF ReadsOn
  <2>3. ReadsOn(r3.s, r4)
    BY <2>2, ParseCharReadsOn
  <2> HIDE DEF r3, r4
  <2>4. ReadsOn(r3.s, end4)
    BY <2>3, ThenRetReadsOn
  <2> HIDE DEF end4
  <2>5. ReadsOn(r2.s, end3)
    BY <2>1, <2>2, <2>4, ThenReadsOn
  <2> HIDE DEF end3
  <2> QED
    BY <1>2, <2>1, <2>5, ThenReadsOn
<1>6. ReadsOn(r1.s, empty)
  BY <1>2, ReadStrEmptyArrayReadsOn
<1> HIDE DEF r1, empty, list
<1>7. ReadsOn(r1.s, next)
  BY <1>5, <1>6
<1> HIDE DEF next
<1>8. ReadsOn(s, IF r1.out = "value" THEN next ELSE r1)
  BY <1>2, <1>7, ThenReadsOn
<1> QED
  BY <1>1, <1>4, <1>8

(* The recursive function of read_str_array_elems.  It calls itself with    *)
(* fewer characters only, so that it is defined, and every call reads on.   *)
Call(s, t, f, call) ==
  LET s1 == Drop(s, Len(s.in) - call[3])
  IN IF call[1] = "array" THEN ReadList(s1, t, call[2], f) ELSE MoreElems(s1, t, call[2], f)

LEMMA FromIs ==
  ASSUME NEW s \in Reader, NEW t, From(s, t)
  PROVE  t = Drop(s, Len(s.in) - Len(t.in))
<1>1. PICK n \in 0..Len(s.in) : t = Drop(s, n)
  BY DEF From
<1>2. Len(t.in) = Len(s.in) - n /\ Len(s.in) \in Nat
  BY <1>1, DropIs DEF Reader
<1>3. Len(s.in) - Len(t.in) = n
  BY <1>2
<1> QED
  BY <1>1, <1>3

(* Two tables that are the same, and whose calls read on, below m.          *)
SameBelow(s, rank, m, f, g) ==
  \A w \in {"array", "more"}, j \in 0..rank, i \in 0..(m - 1) :
    /\ ReadsOn(Drop(s, Len(s.in) - i), f[<<w, j, i>>])
    /\ g[<<w, j, i>>] = f[<<w, j, i>>]

LEMMA CallReadsOn ==
  ASSUME NEW s \in Reader, NEW t \in PrimType, NEW rank \in Nat, NEW f, NEW g,
         NEW m \in 0..Len(s.in), NEW what \in {"array", "more"}, NEW k \in 0..rank,
         SameBelow(s, rank, m, f, g)
  PROVE  /\ ReadsOn(Drop(s, Len(s.in) - m), Call(s, t, f, <<what, k, m>>))
         /\ Call(s, t, g, <<what, k, m>>) = Call(s, t, f, <<what, k, m>>)
<1> DEFINE L == Len(s.in)
           s1 == Drop(s, L - m)
<1>1. L \in Nat /\ L - m \in 0..L
  BY DEF Reader
<1>2. s1 \in Reader /\ From(s, s1) /\ Len(s1.in) = m
  <2>1. L - (L - m) = m
    BY <1>1
  <2> QED
    BY <1>1, <2>1, DropIs, FromDrop
<1>3. Table(s1, rank, f)
  <2>1. SUFFICES ASSUME NEW w \in {"array", "more"}, NEW j \in 0..rank, NEW q \in Reader,
                        From(s1, q), Len(q.in) < Len(s1.in)
                 PROVE  ReadsOn(q, f[<<w, j, Len(q.in)>>])
    BY DEF Table
  <2>2. From(s, q)
    BY <1>2, <2>1, FromFrom
  <2>3. q = Drop(s, L - Len(q.in))
    BY <2>2, FromIs
  <2>4. Len(q.in) \in 0..(m - 1)
    BY <1>2, <2>1, FromType
  <2>5. ReadsOn(Drop(s, L - Len(q.in)), f[<<w, j, Len(q.in)>>])
    BY <2>4 DEF SameBelow
  <2> QED
    BY <2>3, <2>5
<1>4. Agree(s1, rank, f, g)
  BY <1>2 DEF Agree, SameBelow
<1>5. /\ ReadsOn(s1, ReadList(s1, t, k, f)) /\ ReadList(s1, t, k, g) = ReadList(s1, t, k, f)
      /\ ReadsOn(s1, MoreElems(s1, t, k, f)) /\ MoreElems(s1, t, k, g) = MoreElems(s1, t, k, f)
  <2> HIDE DEF s1
  <2> QED
    BY <1>2, <1>3, <1>4, ReadListReadsOn, MoreElemsReadsOn
<1>6. /\ Call(s, t, f, <<what, k, m>>) =
           IF what = "array" THEN ReadList(s1, t, k, f) ELSE MoreElems(s1, t, k, f)
      /\ Call(s, t, g, <<what, k, m>>) =
           IF what = "array" THEN ReadList(s1, t, k, g) ELSE MoreElems(s1, t, k, g)
  BY DEF Call
<1> HIDE DEF s1
<1> QED
  BY <1>5, <1>6 DEF s1

LEMMA TableReadsOn ==
  ASSUME NEW s \in Reader, NEW t \in PrimType, NEW rank \in Nat, NEW f,
         NEW n \in Int, n <= Len(s.in),
         \A what \in {"array", "more"}, k \in 0..rank, m \in 0..n :
           f[<<what, k, m>>] = Call(s, t, f, <<what, k, m>>)
  PROVE  \A what \in {"array", "more"}, k \in 0..rank, m \in 0..n :
           ReadsOn(Drop(s, Len(s.in) - m), f[<<what, k, m>>])
<1> DEFINE Wrong(what, k, m) == ~ ReadsOn(Drop(s, Len(s.in) - m), f[<<what, k, m>>])
           S == {m \in 0..n : \E what \in {"array", "more"}, k \in 0..rank : Wrong(what, k, m)}
<1>1. SUFFICES ASSUME S # {} PROVE FALSE
  BY Zenon
<1>2. S \subseteq Nat
  OBVIOUS
<1>3. PICK m \in S : \A i \in S : m <= i
  BY <1>1, <1>2, HasLeast
<1>4. PICK what \in {"array", "more"}, k \in 0..rank : Wrong(what, k, m)
  BY <1>3
<1>5. m \in 0..n /\ m \in 0..Len(s.in)
  BY DEF Reader
<1>6. ASSUME NEW w \in {"array", "more"}, NEW j \in 0..rank, NEW i \in 0..(m - 1)
      PROVE  ReadsOn(Drop(s, Len(s.in) - i), f[<<w, j, i>>])
  <2>1. i \in 0..n /\ ~ (m <= i)
    BY <1>5
  <2>2. i \notin S
    BY <1>3, <2>1
  <2> QED
    BY <2>1, <2>2
<1>7. SameBelow(s, rank, m, f, f)
  BY <1>6 DEF SameBelow
<1>8. ReadsOn(Drop(s, Len(s.in) - m), Call(s, t, f, <<what, k, m>>))
  <2> HIDE DEF S
  <2> QED
    BY <1>5, <1>7, CallReadsOn
<1> QED
  BY <1>4, <1>5, <1>8

LEMMA TableExists ==
  ASSUME NEW s \in Reader, NEW t \in PrimType, NEW rank \in Nat
  PROVE  \E f : f = [call \in Calls(rank, Len(s.in)) |-> Call(s, t, f, call)]
<1> DEFINE L == Len(s.in)
           Is(f, n) == f = [call \in Calls(rank, n) |-> Call(s, t, f, call)]
           S == {n \in 0..L : ~ \E f : Is(f, n)}
<1>1. L \in Nat /\ L \in 0..L
  BY DEF Reader
<1>2. SUFFICES ASSUME S # {} PROVE FALSE
  BY <1>1, Zenon
<1>3. PICK n \in S : \A i \in S : n <= i
  <2>1. S \subseteq Nat
    BY <1>1
  <2> QED
    BY <1>2, <2>1, HasLeast
<1>4. n \in 0..L /\ n - 1 \in Int /\ n - 1 <= Len(s.in)
  BY <1>1
<1>5. \E g : \A what \in {"array", "more"}, k \in 0..rank, m \in 0..(n - 1) :
        g[<<what, k, m>>] = Call(s, t, g, <<what, k, m>>)
  <2>1. CASE n = 0
    BY <2>1
  <2>2. CASE n # 0
    <3>1. n - 1 \in 0..L /\ ~ (n <= n - 1)
      BY <1>1, <1>4, <2>2
    <3>2. n - 1 \notin S
      BY <1>3, <3>1
    <3>3. PICK g : Is(g, n - 1)
      BY <3>1, <3>2
    <3>4. \A call \in Calls(rank, n - 1) : g[call] = Call(s, t, g, call)
      BY <3>3, Zenon
    <3>5. \A what \in {"array", "more"}, k \in 0..rank, m \in 0..(n - 1) :
            <<what, k, m>> \in Calls(rank, n - 1)
      BY DEF Calls
    <3> QED
      BY <3>4, <3>5
  <2> QED
    BY <2>1, <2>2
<1>6. PICK g : \A what \in {"array", "more"}, k \in 0..rank, m \in 0..(n - 1) :
        g[<<what, k, m>>] = Call(s, t, g, <<what, k, m>>)
  BY <1>5
<1>7. \A what \in {"array", "more"}, k \in 0..rank, m \in 0..(n - 1) :
        ReadsOn(Drop(s, L - m), g[<<what, k, m>>])
  <2> HIDE DEF S
  <2> QED
    BY <1>4, <1>6, TableReadsOn
<1>8. PICK h : h = [call \in Calls(rank, n) |->
                     IF call[3] <= n - 1 THEN g[call] ELSE Call(s, t, g, call)]
  OBVIOUS
<1>9. ASSUME NEW what \in {"array", "more"}, NEW k \in 0..rank, NEW m \in 0..n
      PROVE  h[<<what, k, m>>] = IF m <= n - 1 THEN g[<<what, k, m>>]
                                 ELSE Call(s, t, g, <<what, k, m>>)
  <2>1. <<what, k, m>> \in Calls(rank, n)
    BY DEF Calls
  <2> QED
    BY <1>8, <2>1
<1> HIDE DEF S
<1>10. ASSUME NEW what \in {"array", "more"}, NEW k \in 0..rank, NEW m \in 0..n
      PROVE  h[<<what, k, m>>] = Call(s, t, h, <<what, k, m>>)
  <2>1. m \in 0..L
    BY <1>1, <1>4
  <2>2. ASSUME NEW w \in {"array", "more"}, NEW j \in 0..rank, NEW i \in 0..(m - 1)
        PROVE  /\ ReadsOn(Drop(s, L - i), g[<<w, j, i>>])
               /\ h[<<w, j, i>>] = g[<<w, j, i>>]
    <3>1. i \in 0..(n - 1) /\ i \in 0..n /\ i <= n - 1
      BY <1>4
    <3>2. ReadsOn(Drop(s, L - i), g[<<w, j, i>>])
      BY <1>7, <3>1
    <3>3. h[<<w, j, i>>] = g[<<w, j, i>>]
      BY <1>9, <3>1
    <3> QED
      BY <3>2, <3>3
  <2>3. SameBelow(s, rank, m, g, h)
    BY <2>2 DEF SameBelow
  <2>4. Call(s, t, h, <<what, k, m>>) = Call(s, t, g, <<what, k, m>>)
    BY <2>1, <2>3, CallReadsOn
  <2>5. CASE m <= n - 1
    <3>1. m \in 0..(n - 1)
      BY <1>4, <2>5
    <3> QED
      BY <1>6, <1>9, <2>4, <2>5, <3>1
  <2>6. CASE ~ (m <= n - 1)
    BY <1>9, <2>4, <2>6
  <2> QED
    BY <2>5, <2>6
<1>11. ASSUME NEW call \in Calls(rank, n) PROVE h[call] = Call(s, t, h, call)
  <2>1. PICK what \in {"array", "more"}, k \in 0..rank, m \in 0..n : call = <<what, k, m>>
    BY DEF Calls
  <2> QED
    BY <1>10, <2>1
<1>12. h = [call \in Calls(rank, n) |-> h[call]]
  BY <1>8
<1> USE DEF S
<1>13. h = [call \in Calls(rank, n) |-> Call(s, t, h, call)]
  BY <1>11, <1>12, Zenon
<1> QED
  BY <1>3, <1>13

LEMMA ReadStrArrayElemsReadsOn ==
  ASSUME NEW s \in Reader, NEW t \in PrimType, NEW rank \in Nat
  PROVE  ReadsOn(s, ReadStrArrayElems(s, t, rank))
<1> DEFINE read == CHOOSE f : f = [call \in Calls(rank, Len(s.in)) |-> Call(s, t, f, call)]
<1>1. read = [call \in Calls(rank, Len(s.in)) |-> Call(s, t, read, call)]
  BY TableExists, Zenon
<1>2. ReadStrArrayElems(s, t, rank) = read[<<"array", rank, Len(s.in)>>]
  BY Zenon DEF ReadStrArrayElems, Calls, Call
<1> HIDE DEF read
<1>3. ASSUME NEW what \in {"array", "more"}, NEW k \in 0..rank, NEW m \in 0..Len(s.in)
      PROVE  read[<<what, k, m>>] = Call(s, t, read, <<what, k, m>>)
  <2>1. <<what, k, m>> \in Calls(rank, Len(s.in))
    BY DEF Calls
  <2> QED
    BY <1>1, <2>1, Zenon
<1>4. Len(s.in) \in Nat /\ Len(s.in) \in Int /\ Len(s.in) <= Len(s.in) /\ Len(s.in) \in 0..Len(s.in)
  BY DEF Reader
<1>5. \A what \in {"array", "more"}, k \in 0..rank, m \in 0..Len(s.in) :
        ReadsOn(Drop(s, Len(s.in) - m), read[<<what, k, m>>])
  BY <1>3, <1>4, TableReadsOn
<1>6. Drop(s, Len(s.in) - Len(s.in)) = s
  BY FromSame, FromIs
<1>7. ReadsOn(Drop(s, Len(s.in) - Len(s.in)), read[<<"array", rank, Len(s.in)>>])
  BY <1>4, <1>5
<1> QED
  BY <1>2, <1>6, <1>7

LEMMA ReadStrArrayReadsOn ==
  ASSUME NEW s \in Reader, NEW t \in PrimType, NEW rank \in Nat \ {0}
  PROVE  ReadsOn(s, ReadStrArray(s, t, rank))
<1> DEFINE r == ReadStrArrayElems(s, t, rank - 1)
           dims == ExpectedArrayDims(r.v, rank)
           how == VerifyArrayDims(r.v, dims)
           none == [dtype |-> t, shape |-> [i \in 1..rank |-> 0], data |-> <<>>]
           array == [dtype |-> t, shape |-> ShapeOfList(dims), data |-> Flat(r.v, rank)]
           next == IF r.v = None THEN Ret(r.s, none)
                   ELSE IF how # "value" THEN Raise(r.s, how) ELSE Ret(r.s, array)
<1>1. ReadStrArray(s, t, rank) = IF r.out = "value" THEN next ELSE r
  BY Zenon DEF ReadStrArray, Then
<1>2. ReadsOn(s, r) /\ From(r.s, r.s)
  BY ReadStrArrayElemsReadsOn, FromType, FromSame DEF ReadsOn
<1> HIDE DEF r, dims, none, array
<1>3. how \in {"value", "TypeError", "ValueError"}
  BY DEF VerifyArrayDims
<1> HIDE DEF how
<1>4. ReadsOn(r.s, next)
  BY <1>2, <1>3, RetReadsOn, RaiseReadsOn
<1> HIDE DEF next
<1> QED
  BY <1>1, <1>2, <1>4, ThenReadsOn

-----------------------------------------------------------------------------
(* Binary values.                                                           *)
LEMMA GetCharsReadsOn ==
  ASSUME NEW s \in Reader, NEW n
  PROVE  ReadsOn(s, GetChars(s, n))
<1> DEFINE k == IF n \in 0..Len(s.in) THEN n ELSE Len(s.in)
<1>1. k \in 0..Len(s.in)
  BY DEF Reader
<1>2. GetChars(s, n) = Ret(Drop(s, k), SubSeq(s.in, 1, k))
  BY Zenon DEF GetChars
<1> HIDE DEF k
<1> QED
  BY <1>1, <1>2, FromDrop, RetReadsOn

LEMMA ReadBinReadsOn ==
  ASSUME NEW s \in Reader, NEW t
  PROVE  ReadsOn(s, ReadBin(s, t))
<1> DEFINE r == GetChars(s, Size(t))
           next == IF Len(r.v) < Size(t) THEN Raise(r.s, "struct.error")
                   ELSE Ret(r.s, Unpack(t, r.v))
<1>1. ReadBin(s, t) = IF r.out = "value" THEN next ELSE r
  BY Zenon DEF ReadBin, Then
<1>2. ReadsOn(s, r) /\ From(r.s, r.s)
  BY GetCharsReadsOn, FromType, FromSame DEF ReadsOn
<1> HIDE DEF r
<1>3. ReadsOn(r.s, next)
  BY <1>2, RetReadsOn, RaiseReadsOn
<1> HIDE DEF next
<1> QED
  BY <1>1, <1>2, <1>3, ThenReadsOn

LEMMA ReadIsBinaryReadsOn ==
  ASSUME NEW s \in Reader
  PROVE  ReadsOn(s, ReadIsBinary(s))
<1> DEFINE r1 == SkipSpaces(s)
           r2 == ReadBin(Rest(r1.s), "u8")
           version == IF r2.v = <<"int", READ_BINARY_VERSION>> THEN Ret(r2.s, TRUE)
                      ELSE Raise(r2.s, "exit")
           binary == IF r2.out = "value" THEN version ELSE r2
           next == IF Peek(r1.s) # "b" THEN Ret(r1.s, FALSE) ELSE binary
<1>1. ReadIsBinary(s) = IF r1.out = "value" THEN next ELSE r1
  BY Zenon DEF ReadIsBinary, Then
<1>2. ReadsOn(s, r1) /\ r1.s \in Reader /\ From(r1.s, r1.s)
  BY SkipSpacesReadsOn, FromType, FromSame DEF ReadsOn
<1> HIDE DEF r1
<1>3. ReadsOn(r1.s, r2) /\ From(r2.s, r2.s)
  <2>1. From(r1.s, Rest(r1.s)) /\ Rest(r1.s) \in Reader
    BY <1>2, FromRest, FromType
  <2>2. ReadsOn(r1.s, r2)
    BY <1>2, <2>1, ReadBinReadsOn, ReadsOnBefore
  <2> QED
    BY <1>2, <2>2, FromType, FromSame DEF ReadsOn
<1> HIDE DEF r2
<1>4. ReadsOn(r2.s, version)
  BY <1>3, RetReadsOn, RaiseReadsOn
<1> HIDE DEF version
<1>5. ReadsOn(r1.s, binary)
  BY <1>2, <1>3, <1>4, ThenReadsOn
<1> HIDE DEF binary
<1>6. ReadsOn(r1.s, next)
  BY <1>2, <1>5, RetReadsOn
<1> HIDE DEF next
<1> QED
  BY <1>1, <1>2, <1>6, ThenReadsOn

LEMMA ReadBinReadTypeReadsOn ==
  ASSUME NEW s \in Reader
  PROVE  ReadsOn(s, ReadBinReadType(s))
<1> DEFINE r == GetChars(s, 4)
           next == IF \E t \in PrimType : BinName(t) = r.v
                   THEN Ret(r.s, CHOOSE t \in PrimType : BinName(t) = r.v)
                   ELSE Raise(r.s, "exit")
<1>1. ReadBinReadType(s) = IF r.out = "value" THEN next ELSE r
  BY Zenon DEF ReadBinReadType, Then
<1>2. ReadsOn(s, r) /\ From(r.s, r.s)
  BY GetCharsReadsOn, FromType, FromSame DEF ReadsOn
<1> HIDE DEF r
<1>3. ReadsOn(r.s, next)
  BY <1>2, RetReadsOn, RaiseReadsOn
<1> HIDE DEF next
<1> QED
  BY <1>1, <1>2, <1>3, ThenReadsOn

LEMMA EnsureTypeReadsOn ==
  ASSUME NEW s \in Reader, NEW t, NEW rank
  PROVE  ReadsOn(s, EnsureType(s, t, rank))
<1> DEFINE r1 == ReadBin(s, "u8")
           r2 == ReadBinReadType(r1.s)
           same == IF r2.v # t THEN Raise(r2.s, "exit") ELSE Ret(r2.s, None)
           type == IF r2.out = "value" THEN same ELSE r2
           next == IF r1.v # <<"int", rank>> THEN Raise(r1.s, "exit") ELSE type
<1>1. EnsureType(s, t, rank) = IF r1.out = "value" THEN next ELSE r1
  BY Zenon DEF EnsureType, Then
<1>2. ReadsOn(s, r1) /\ r1.s \in Reader /\ From(r1.s, r1.s)
  BY ReadBinReadsOn, FromType, FromSame DEF ReadsOn
<1> HIDE DEF r1
<1>3. ReadsOn(r1.s, r2) /\ From(r2.s, r2.s)
  BY <1>2, ReadBinReadTypeReadsOn, FromType, FromSame DEF ReadsOn
<1> HIDE DEF r2
<1>4. ReadsOn(r2.s, same)
  BY <1>3, RetReadsOn, RaiseReadsOn
<1> HIDE DEF same
<1>5. ReadsOn(r1.s, type)
  BY <1>2, <1>3, <1>4, ThenReadsOn
<1> HIDE DEF type
<1>6. ReadsOn(r1.s, next)
  BY <1>2, <1>5, RaiseReadsOn
<1> HIDE DEF next
<1> QED
  BY <1>1, <1>2, <1>6, ThenReadsOn

LEMMA ReadShapeReadsOn ==
  ASSUME NEW s \in Reader, NEW rank
  PROVE  ReadsOn(s, ReadShape(s, rank))
<1> DEFINE r == GetChars(s, rank * Size("u64"))
           shape == [i \in 1..rank |->
             Unpack("u64", SubSeq(r.v, (i - 1) * Size("u64") + 1, i * Size("u64")))[2]]
           next == IF Len(r.v) < rank * Size("u64") THEN Raise(r.s, "struct.error")
                   ELSE Ret(r.s, shape)
<1>1. ReadShape(s, rank) = IF r.out = "value" THEN next ELSE r
  BY Zenon DEF ReadShape, Then
<1>2. ReadsOn(s, r) /\ From(r.s, r.s)
  BY GetCharsReadsOn, FromType, FromSame DEF ReadsOn
<1> HIDE DEF r, shape
<1>3. ReadsOn(r.s, next)
  BY <1>2, RetReadsOn, RaiseReadsOn
<1> HIDE DEF next
<1> QED
  BY <1>1, <1>2, <1>3, ThenReadsOn

LEMMA ReadBinArrayReadsOn ==
  ASSUME NEW s \in Reader, NEW t, NEW rank
  PROVE  ReadsOn(s, ReadBinArray(s, t, rank))
<1> DEFINE r1 == ReadShape(s, rank)
           n == Count(r1.v) * Size(t)
           r2 == GetChars(r1.s, n)
           array == [dtype |-> BinDtype(t), shape |-> r1.v,
                     data |-> [i \in 1..Count(r1.v) |->
                       Unpack(t, SubSeq(r2.v, (i - 1) * Size(t) + 1, i * Size(t)))]]
           data == IF Len(r2.v) < n THEN Raise(r2.s, "ValueError") ELSE Ret(r2.s, array)
           next == IF r2.out = "value" THEN data ELSE r2
<1>1. ReadBinArray(s, t, rank) = IF r1.out = "value" THEN next ELSE r1
  BY Zenon DEF ReadBinArray, Then
<1>2. ReadsOn(s, r1) /\ r1.s \in Reader
  BY ReadShapeReadsOn, FromType DEF ReadsOn
<1> HIDE DEF r1, n, array
<1>3. ReadsOn(r1.s, r2) /\ From(r2.s, r2.s)
  BY <1>2, GetCharsReadsOn, FromType, FromSame DEF ReadsOn
<1> HIDE DEF r2
<1>4. ReadsOn(r2.s, data)
  BY <1>3, RetReadsOn, RaiseReadsOn
<1> HIDE DEF data
<1>5. ReadsOn(r1.s, next)
  BY <1>2, <1>3, <1>4, ThenReadsOn
<1> HIDE DEF next
<1> QED
  BY <1>1, <1>2, <1>5, ThenReadsOn

LEMMA ReadScalarReadsOn ==
  ASSUME NEW s \in Reader, NEW t \in PrimType
  PROVE  ReadsOn(s, ReadScalar(s, t))
<1> DEFINE r1 == ReadIsBinary(s)
           r2 == EnsureType(r1.s, t, 0)
           bin == ReadBin(r2.s, t)
           binary == IF r2.out = "value" THEN bin ELSE r2
           text == ReadStr(r1.s, t)
           r == IF r1.v THEN binary ELSE text
           next == IF r.out = "value" THEN Ret(r.s, Scalar(t, r.v)) ELSE r
<1>1. ReadScalar(s, t) = IF r1.out = "value" THEN next ELSE r1
  BY Zenon DEF ReadScalar, Then
<1>2. ReadsOn(s, r1) /\ r1.s \in Reader
  BY ReadIsBinaryReadsOn, FromType DEF ReadsOn
<1> HIDE DEF r1
<1>3. ReadsOn(r1.s, r2) /\ r2.s \in Reader
  BY <1>2, EnsureTypeReadsOn, FromType DEF ReadsOn
<1> HIDE DEF r2
<1>4. ReadsOn(r2.s, bin) /\ ReadsOn(r1.s, text)
  BY <1>2, <1>3, ReadBinReadsOn, ReadStrReadsOn
<1> HIDE DEF bin, text
<1>5. ReadsOn(r1.s, binary)
  BY <1>2, <1>3, <1>4, ThenReadsOn
<1> HIDE DEF binary
<1>6. ReadsOn(r1.s, r)
  BY <1>4, <1>5
<1> HIDE DEF r
<1>7. ReadsOn(r1.s, next)
  BY <1>6, ThenRetReadsOn
<1> HIDE DEF next
<1> QED
  BY <1>1, <1>2, <1>7, ThenReadsOn

LEMMA ReadArrayReadsOn ==
  ASSUME NEW s \in Reader, NEW t \in PrimType, NEW rank \in Nat \ {0}
  PROVE  ReadsOn(s, ReadArray(s, t, rank))
<1> DEFINE r1 == ReadIsBinary(s)
           r2 == EnsureType(r1.s, t, rank)
           bin == ReadBinArray(r2.s, t, rank)
           binary == IF r2.out = "value" THEN bin ELSE r2
           text == ReadStrArray(r1.s, t, rank)
           next == IF r1.v THEN binary ELSE text
<1>1. ReadArray(s, t, rank) = IF r1.out = "value" THEN next ELSE r1
  BY Zenon DEF ReadArray, Then
<1>2. ReadsOn(s, r1) /\ r1.s \in Reader
  BY ReadIsBinaryReadsOn, FromType DEF ReadsOn
<1> HIDE DEF r1
<1>3. ReadsOn(r1.s, r2) /\ r2.s \in Reader
  BY <1>2, EnsureTypeReadsOn, FromType DEF ReadsOn
<1> HIDE DEF r2
<1>4. ReadsOn(r2.s, bin) /\ ReadsOn(r1.s, text)
  BY <1>2, <1>3, ReadBinArrayReadsOn, ReadStrArrayReadsOn
<1> HIDE DEF bin, text
<1>5. ReadsOn(r1.s, binary)
  BY <1>2, <1>3, <1>4, ThenReadsOn
<1> HIDE DEF binary
<1>6. ReadsOn(r1.s, next)
  BY <1>4, <1>5
<1> HIDE DEF next
<1> QED
  BY <1>1, <1>2, <1>6, ThenReadsOn

Parameter == [base : PrimType, rank : Nat]

LEMMA ReadValueReadsOn ==
  ASSUME NEW s \in Reader, NEW p \in Parameter
  PROVE  ReadsOn(s, ReadValue(s, p))
<1>1. p.base \in PrimType /\ p.rank \in Nat
  BY DEF Parameter
<1>2. ReadsOn(s, ReadScalar(s, p.base))
  BY <1>1, ReadScalarReadsOn
<1>3. p.rank # 0 => ReadsOn(s, ReadArray(s, p.base, p.rank))
  BY <1>1, ReadArrayReadsOn
<1> QED
  BY <1>2, <1>3 DEF ReadValue

-----------------------------------------------------------------------------
(* The program.  The inductive invariant: the input is one of characters,   *)
(* and while other programs write there is a parameter left to write for.   *)
Written == [value : UNION {UNION {Values[sig[i]] : i \in DOMAIN sig} : sig \in Signature},
            how   : {"print", "generate", "convert"}]

ReaderInvariant ==
  /\ params \in Signature
  /\ reader \in Reader
  /\ written \in Seq(Written)
  /\ \E S : args \in Seq(S)
  /\ outcome = "writing" => Len(written) < Len(params)
  /\ HangsOnlyAtTheEnd

LEMMA StringsAreCharacters == \A text \in Seq(STRING) : text \in Seq(Character)
  BY DEF Character

LEMMA ParametersOfSignature == \A sig \in Signature : sig \in Seq(Parameter)
  BY SignatureAssumption DEF Parameter

LEMMA InitReaderInvariant == ValuesInit => ReaderInvariant
<1> SUFFICES ASSUME ValuesInit PROVE ReaderInvariant
  OBVIOUS
<1>1. params \in Signature /\ written = <<>> /\ args = <<>>
  BY DEF ValuesInit
<1>2. PICK py \in Python :
        \/ /\ outcome = "writing" /\ params # <<>>
           /\ reader = [py |-> py, in |-> <<>>]
        \/ /\ outcome = "reading"
           /\ \E text \in Typed[params] : reader = [py |-> py, in |-> text]
  BY DEF ValuesInit
<1>3. py \in {2, 3}
  BY PythonAssumption
<1>4. reader \in Reader
  <2>1. <<>> \in Seq(Character) /\ \A text \in Typed[params] : text \in Seq(Character)
    BY <1>1, InputAssumption, StringsAreCharacters
  <2>2. \A text \in Seq(Character) : [py |-> py, in |-> text] \in Reader
    BY <1>3 DEF Reader
  <2> QED
    BY <1>2, <2>1, <2>2
<1>5. written \in Seq(Written) /\ args \in Seq({})
  BY <1>1
<1>6. outcome = "writing" => Len(written) < Len(params)
  <2>1. params \in Seq(Parameter)
    BY <1>1, ParametersOfSignature
  <2>2. outcome = "writing" => params # <<>>
    BY <1>2
  <2>3. Len(written) = 0 /\ Len(params) \in Nat
    BY <1>1, <2>1
  <2>4. params # <<>> => Len(params) # 0
    BY <2>1
  <2> QED
    BY <2>2, <2>3, <2>4
<1>7. HangsOnlyAtTheEnd
  BY <1>2 DEF HangsOnlyAtTheEnd
<1> QED
  BY <1>1, <1>4, <1>5, <1>6, <1>7 DEF ReaderInvariant

LEMMA WriteReaderInvariant ==
  ASSUME ReaderInvariant, NEW value \in Values[params[Len(written) + 1]],
         NEW how \in {"print", "generate", "convert"}, NEW chars \in Seq(Character),
         outcome = "writing", Write(value, how, chars)
  PROVE  ReaderInvariant'
<1>1. params \in Seq(Parameter) /\ Len(params) \in Nat /\ Len(written) \in Nat
      /\ DOMAIN params = 1..Len(params)
  BY ParametersOfSignature DEF ReaderInvariant
<1>2. Len(written) + 1 \in DOMAIN params
  BY <1>1 DEF ReaderInvariant
<1>3. [value |-> value, how |-> how] \in Written
  BY <1>2 DEF Written, ReaderInvariant
<1>4. /\ written' = Append(written, [value |-> value, how |-> how])
      /\ reader' = [reader EXCEPT !.in = reader.in \o chars]
      /\ outcome' = IF Len(written) + 1 = Len(params) THEN "reading" ELSE "writing"
      /\ params' = params /\ args' = args
  BY DEF Write
<1>5. written \in Seq(Written)
  BY DEF ReaderInvariant
<1>6. written' \in Seq(Written) /\ Len(written') = Len(written) + 1
  BY <1>3, <1>4, <1>5
<1>7. reader' \in Reader
  <2>1. reader \in [py : {2, 3}, in : Seq(Character)]
    BY DEF ReaderInvariant, Reader
  <2>2. reader.in \o chars \in Seq(Character)
    BY <2>1
  <2> QED
    BY <1>4, <2>1, <2>2 DEF Reader
<1>8. (outcome = "writing" => Len(written) < Len(params))'
  <2>1. Len(written) < Len(params)
    BY DEF ReaderInvariant
  <2>2. outcome' = "writing" => Len(written) + 1 # Len(params)
    BY <1>4
  <2>3. outcome' = "writing" => Len(written) + 1 < Len(params)
    <3>1. Len(params) \in Nat /\ Len(written) \in Nat
      BY <1>1
    <3> QED
      BY <2>1, <2>2, <3>1
  <2>4. Len(written') = Len(written) + 1 /\ Len(params') = Len(params)
    BY <1>4, <1>6
  <2> QED
    BY <2>3, <2>4
<1>9. HangsOnlyAtTheEnd'
  BY <1>4 DEF HangsOnlyAtTheEnd
<1>10. (\E S : args \in Seq(S))' /\ params' \in Signature
  BY <1>4 DEF ReaderInvariant
<1> QED
  BY <1>6, <1>7, <1>8, <1>9, <1>10 DEF ReaderInvariant

LEMMA AppendIn ==
  ASSUME NEW S, NEW q \in Seq(S), NEW e \in S PROVE Append(q, e) \in Seq(S)
  OBVIOUS

(* What the writers give are characters.                                    *)
LEMMA WritersWriteCharacters ==
  ASSUME ReaderInvariant, outcome = "writing", NEW value \in Values[params[Len(written) + 1]]
  PROVE  /\ ~HasBits(value) => Append(WriteValue(value), "\n") \in Seq(Character)
         /\ ~HasFloat(value) => /\ Generated(value) \in Seq(Character)
                                /\ Converted(value) \in Seq(Character)
<1>1. params \in Seq(Parameter) /\ params \in Signature /\ Len(params) \in Nat
      /\ Len(written) \in Nat /\ DOMAIN params = 1..Len(params)
  BY ParametersOfSignature DEF ReaderInvariant
<1>2. Len(written) + 1 \in DOMAIN params
  BY <1>1 DEF ReaderInvariant
<1>3. /\ ~HasBits(value) => WriteValue(value) \in Seq(Character)
      /\ ~HasFloat(value) => Generated(value) \in Seq(Character) /\ Converted(value) \in Seq(Character)
  BY <1>1, <1>2, InputAssumption, StringsAreCharacters
<1>4. ASSUME NEW text \in Seq(Character) PROVE Append(text, "\n") \in Seq(Character)
  BY AppendIn DEF Character
<1> QED
  BY <1>3, <1>4

LEMMA NextParameter ==
  ASSUME ReaderInvariant, Len(args) < Len(params)
  PROVE  params[Len(args) + 1] \in Parameter
<1>1. params \in Seq(Parameter) /\ Len(params) \in Nat /\ Len(args) \in Nat
  <2>1. PICK S : args \in Seq(S)
    BY DEF ReaderInvariant
  <2> QED
    BY <2>1, ParametersOfSignature DEF ReaderInvariant
<1>2. Len(args) + 1 \in 1..Len(params)
  BY <1>1
<1> QED
  BY <1>1, <1>2

LEMMA AppendIsSequence ==
  ASSUME NEW args1, NEW S, args1 \in Seq(S), NEW e
  PROVE  \E T : Append(args1, e) \in Seq(T)
<1>1. args1 \in Seq(S \cup {e})
  OBVIOUS
<1>2. Append(args1, e) \in Seq(S \cup {e})
  BY <1>1
<1> QED
  BY <1>2

LEMMA ReadReaderInvariant ==
  ASSUME ReaderInvariant, ReadArgument
  PROVE  ReaderInvariant' /\ From(reader, reader')
<1> DEFINE p == params[Len(args) + 1]
           r == ReadValue(reader, p)
<1>1. reader \in Reader /\ p \in Parameter
  BY NextParameter DEF ReaderInvariant, ReadArgument
<1>2. ReadsOn(reader, r)
  BY <1>1, ReadValueReadsOn
<1>3. /\ outcome = "reading" /\ params' = params /\ written' = written
      /\ IF r.out = "value"
         THEN /\ args' = Append(args, r.v)
              /\ reader' = r.s
              /\ outcome' = outcome
         ELSE /\ outcome' = r.out
              /\ reader' = (IF r.out = "hangs" THEN reader ELSE r.s)
              /\ args' = args
  BY DEF ReadArgument
<1> HIDE DEF r, p
<1>4. From(reader, reader')
  BY <1>1, <1>2, <1>3, FromSame DEF ReadsOn
<1>5. reader' \in Reader
  BY <1>1, <1>4, FromType
<1>6. \E S : args' \in Seq(S)
  BY <1>3, AppendIsSequence DEF ReaderInvariant
<1>7. HangsOnlyAtTheEnd'
  <2>1. ASSUME outcome' = "hangs" PROVE Hung(reader')
    <3>1. reader' = reader /\ r.out = "hangs"
      BY <1>3, <2>1
    <3> QED
      BY <1>2, <3>1 DEF ReadsOn
  <2> QED
    BY <2>1 DEF HangsOnlyAtTheEnd, Hung
<1>8. outcome' # "writing"
  BY <1>2, <1>3 DEF ReadsOn, Endings, Exceptions
<1> QED
  BY <1>3, <1>4, <1>5, <1>6, <1>7, <1>8 DEF ReaderInvariant

LEMMA UnpackReaderInvariant ==
  ASSUME ReaderInvariant, UnpackArguments
  PROVE  ReaderInvariant' /\ reader' = reader
<1>1. /\ params' = params /\ reader' = reader /\ written' = written /\ args' = args
  BY DEF UnpackArguments
<1>2. ASSUME NEW p, NEW e PROVE Unpacked(p, e) \in {"running", "TypeError", "IndexError"}
  BY DEF Unpacked
<1>3. outcome' \in {"running", "TypeError", "IndexError"}
  <2> DEFINE wrong == SelectInSeq([i \in DOMAIN args |-> Unpacked(params[i], args[i])],
                                  LAMBDA how : how # "running")
  <2>1. outcome' = IF wrong = 0 THEN "running" ELSE Unpacked(params[wrong], args[wrong])
    BY Zenon DEF UnpackArguments
  <2> HIDE DEF wrong
  <2> QED
    BY <1>2, <2>1
<1> QED
  BY <1>1, <1>3 DEF ReaderInvariant, HangsOnlyAtTheEnd

LEMMA StepReaderInvariant ==
  ASSUME ReaderInvariant, [ValuesNext]_valuevars
  PROVE  ReaderInvariant'
<1>1. CASE PrintValue
  <2>1. PICK value \in Values[params[Len(written) + 1]] :
          ~HasBits(value) /\ Write(value, "print", Append(WriteValue(value), "\n"))
    BY <1>1 DEF PrintValue
  <2>2. outcome = "writing"
    BY <1>1 DEF PrintValue
  <2> QED
    BY <2>1, <2>2, WritersWriteCharacters, WriteReaderInvariant
<1>2. CASE GenerateBinary
  <2>1. PICK value \in Values[params[Len(written) + 1]] :
          ~HasFloat(value) /\ Write(value, "generate", Generated(value))
    BY <1>2 DEF GenerateBinary
  <2>2. outcome = "writing"
    BY <1>2 DEF GenerateBinary
  <2> QED
    BY <2>1, <2>2, WritersWriteCharacters, WriteReaderInvariant
<1>3. CASE ConvertBinary
  <2>1. PICK value \in Values[params[Len(written) + 1]] :
          ~HasFloat(value) /\ Write(value, "convert", Converted(value))
    BY <1>3 DEF ConvertBinary
  <2>2. outcome = "writing"
    BY <1>3 DEF ConvertBinary
  <2> QED
    BY <2>1, <2>2, WritersWriteCharacters, WriteReaderInvariant
<1>4. CASE ReadArgument
  BY <1>4, ReadReaderInvariant
<1>5. CASE UnpackArguments
  BY <1>5, UnpackReaderInvariant
<1>6. CASE UNCHANGED valuevars
  BY <1>6 DEF valuevars, ReaderInvariant, HangsOnlyAtTheEnd
<1> QED
  BY <1>1, <1>2, <1>3, <1>4, <1>5, <1>6 DEF ValuesNext

LEMMA ReaderInvariantHolds == ValuesSpec => []ReaderInvariant
<1>1. ValuesInit => ReaderInvariant
  BY InitReaderInvariant
<1>2. ReaderInvariant /\ [ValuesNext]_valuevars => ReaderInvariant'
  BY StepReaderInvariant
<1> QED
  BY <1>1, <1>2, PTL DEF ValuesSpec

(* read_value returns or raises for every input of characters, of whatever  *)
(* length and whatever the parameters, but for the two ends of the input at *)
(* which a loop of it waits for a None that never comes.                    *)
THEOREM ReadingEnds == ValuesSpec => []HangsOnlyAtTheEnd
<1>1. ReaderInvariant => HangsOnlyAtTheEnd
  BY DEF ReaderInvariant
<1> QED
  BY <1>1, ReaderInvariantHolds, PTL

LEMMA SplitAt ==
  ASSUME NEW S, NEW q \in Seq(S), NEW n \in 0..Len(q)
  PROVE  q = SubSeq(q, 1, n) \o SubSeq(q, n + 1, Len(q))
<1>1. 1 \in 1..(Len(q) + 1) /\ n \in (1 - 1)..Len(q) /\ Len(q) \in n..Len(q)
  OBVIOUS
<1>2. SubSeq(q, 1, n) \o SubSeq(q, n + 1, Len(q)) = SubSeq(q, 1, Len(q))
  BY <1>1, ConcatAdjacentSubSeq
<1> QED
  BY <1>2, SubSeqFull

(* What has been read is not read again, also by an attempt that fails, and *)
(* every value is read from the characters that stand directly after those  *)
(* of the value before it.                                                  *)
ReadOnce ==
  /\ outcome = "reading" => From(reader, reader')
  /\ args' # args => \E chars : taken' = Append(taken, chars) /\ reader.in = chars \o reader'.in

THEOREM NothingIsReadTwice == ValuesSpec => [][ReadOnce]_valuevars
<1>1. ASSUME ReaderInvariant, [ValuesNext]_valuevars PROVE [ReadOnce]_valuevars
  <2>1. CASE PrintValue \/ GenerateBinary \/ ConvertBinary
    BY <2>1 DEF PrintValue, GenerateBinary, ConvertBinary, Write, ReadOnce
  <2>2. CASE ReadArgument
    <3> DEFINE r == ReadValue(reader, params[Len(args) + 1])
               chars == SubSeq(reader.in, 1, Len(reader.in) - Len(r.s.in))
    <3>1. From(reader, reader') /\ reader \in Reader
      BY <1>1, <2>2, ReadReaderInvariant DEF ReaderInvariant
    <3>2. ASSUME args' # args PROVE taken' = Append(taken, chars) /\ reader' = r.s
      BY <2>2, <3>2, Zenon DEF ReadArgument
    <3> HIDE DEF r
    <3>3. ASSUME args' # args PROVE reader.in = chars \o reader'.in
      <4>1. PICK n \in 0..Len(reader.in) : r.s = Drop(reader, n)
        BY <3>1, <3>2, <3>3 DEF From
      <4>2. Len(reader.in) - Len(r.s.in) = n
        <5>1. Len(r.s.in) = Len(reader.in) - n /\ Len(reader.in) \in Nat
          BY <3>1, <4>1, DropIs DEF Reader
        <5> QED
          BY <5>1
      <4>3. r.s.in = SubSeq(reader.in, n + 1, Len(reader.in))
        BY <3>1, <4>1 DEF Drop, Reader
      <4>4. reader.in \in Seq(Character)
        BY <3>1 DEF Reader
      <4>5. reader.in = SubSeq(reader.in, 1, n) \o SubSeq(reader.in, n + 1, Len(reader.in))
        BY <4>4, SplitAt
      <4>6. chars = SubSeq(reader.in, 1, n)
        BY <4>2
      <4> QED
        BY <3>2, <3>3, <4>3, <4>5, <4>6
    <3> QED
      BY <3>1, <3>2, <3>3 DEF ReadOnce
  <2>3. CASE UnpackArguments
    <3>1. args' = args /\ reader' = reader /\ reader \in Reader
      BY <1>1, <2>3 DEF UnpackArguments, ReaderInvariant
    <3> QED
      BY <3>1, FromSame DEF ReadOnce
  <2>4. CASE UNCHANGED valuevars
    BY <2>4
  <2> QED
    BY <1>1, <2>1, <2>2, <2>3, <2>4 DEF ValuesNext
<1>2. ReaderInvariant /\ ReaderInvariant' /\ [ValuesNext]_valuevars => [ReadOnce]_valuevars
  BY <1>1
<1> QED
  BY <1>2, ReaderInvariantHolds, PTL DEF ValuesSpec
=============================================================================
