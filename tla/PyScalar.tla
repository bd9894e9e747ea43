------------------------------ MODULE PyScalar ------------------------------
(***************************************************************************)
(* Integer arithmetic in compiled Python programs (rts/python/scalar.py,   *)
(* called as GenericPython.hs compiles expressions), step by step with the *)
(* meaning of the operators (Futhark/Representation/Primitive.hs).         *)
(*                                                                         *)
(* A program is a sequence of operations on one register, the other        *)
(* operand of each being any constant of the register's type.  x is the    *)
(* numpy scalar the Python program holds and v the value it should be.     *)
(* Left out are the cases without a value to agree on: division by zero    *)
(* and of the smallest number by -1, shifts by the width or more, floats   *)
(* that the target type does not hold.                                     *)
(*                                                                         *)
(* A type of b bits is given by 2^b, a shift by b bits by 2^b.  Futhark's  *)
(* integers are signed for Primitive.hs: the operators say which numbers   *)
(* the bits stand for.  Floats are exact, and counted in halves.           *)
(*                                                                         *)
(* numpy is external: an operation on two integers has the smallest type   *)
(* that holds the values of both operands' types, a float64 if there is    *)
(* none, and wraps around.                                                 *)
(***************************************************************************)
EXTENDS Integers

CONSTANTS
  Modulus,   (* 2^b for the widths b of the integer types                   *)
  Top,       (* the largest of them, 2^64 in the source                     *)
  Power,     (* 2^b for the bits b of the shifts                            *)
  MaxHalves  (* bound: floats stay between -MaxHalves/2 and MaxHalves/2     *)

ASSUME ModulusAssumption ==
  /\ Modulus \subseteq Nat
  /\ \A m \in Modulus : \E h \in 2..m : m = 2 * h
  /\ \A k, m \in Modulus : k <= m => \E q \in 1..m : m = q * k
  /\ Top \in Modulus
  /\ \A m \in Modulus : m <= Top
  /\ \A m \in Modulus \ {Top} :
       \E k \in Modulus : k > m /\ \A l \in Modulus : l > m => k <= l

ASSUME PowerAssumption == Power \subseteq Nat \ {0}

ASSUME MaxHalvesAssumption == MaxHalves \in Nat

VARIABLES
  x,       (* the Python value: [kind, mod, val], kind "int", "uint" or "float" *)
  v,       (* the value of Primitive.hs, kind "int" or "float"              *)
  branch,  (* how a comparison has just come out for the two                *)
  trust    (* history: "exact"; "unsigned" while only the bits of x are     *)
           (* those of v, since an FPToUI; "lost" after an operation on     *)
           (* operands it is known to go wrong for                          *)

vars == <<x, v, branch, trust>>

(***************************************************************************)
(* Numbers in types                                                        *)
(***************************************************************************)
SInt(m, n)  == [kind |-> "int", mod |-> m, val |-> n]
UInt(m, n)  == [kind |-> "uint", mod |-> m, val |-> n]
Float(n)    == [kind |-> "float", mod |-> 0, val |-> n]

Low(m)      == -(m \div 2)
Numbers(m)  == Low(m)..(m \div 2 - 1)

(* The number of a signed type that is equal to n modulo m.                 *)
Wrap(m, n)  == ((n - Low(m)) % m) + Low(m)

Magnitude(n)    == IF n < 0 THEN -n ELSE n
Sign(n)         == IF n < 0 THEN -1 ELSE IF n = 0 THEN 0 ELSE 1
Smaller(a, b)   == IF b < a THEN b ELSE a
Larger(a, b)    == IF b > a THEN b ELSE a

(* Division that rounds down, and its remainder.                            *)
FloorDiv(a, b)  == IF b > 0 THEN a \div b ELSE (-a) \div (-b)
FloorMod(a, b)  == a - b * FloorDiv(a, b)

(* Division that rounds towards zero, and its remainder.                    *)
Quot(a, b) == IF (a < 0) = (b < 0) THEN Magnitude(a) \div Magnitude(b)
              ELSE -(Magnitude(a) \div Magnitude(b))
Rem(a, b)  == a - b * Quot(a, b)

(* The integer part of a number of halves.                                  *)
Trunc(halves) == Quot(halves, 2)

(***************************************************************************)
(* numpy                                                                   *)
(***************************************************************************)
(* np.int8(n) and so on, np.uint8(n) and so on                              *)
NpInt(m, n)  == SInt(m, Wrap(m, n))
NpUInt(m, n) == UInt(m, n % m)

Wider(m) == {k \in Modulus : k > m}
Following(m) == CHOOSE k \in Wider(m) : \A l \in Wider(m) : k <= l

(* The result n of an operation on integers of the types of a and b.        *)
Arith(a, b, n) ==
  LET unsigned == IF a.kind = "uint" THEN a.mod ELSE b.mod
      signed   == IF a.kind = "uint" THEN b.mod ELSE a.mod
  IN CASE a.kind = "int" /\ b.kind = "int"  -> NpInt(Larger(a.mod, b.mod), n)
       [] a.kind = "uint" /\ b.kind = "uint" -> NpUInt(Larger(a.mod, b.mod), n)
       [] OTHER -> IF unsigned < signed THEN NpInt(signed, n)
                   ELSE IF Wider(unsigned) = {} THEN Float(2 * n)
                   ELSE NpInt(Following(unsigned), n)

(***************************************************************************)
(* scalar.py                                                               *)
(***************************************************************************)
(* Only the types below 64 bits are told apart; what is already of the      *)
(* signedness asked for becomes a 64-bit number.                            *)
signed(a)   == IF a.kind = "uint" THEN NpInt(a.mod, a.val) ELSE NpInt(Top, a.val)
unsigned(a) == IF a.kind = "int" THEN NpUInt(a.mod, a.val) ELSE NpUInt(Top, a.val)

addN(a, b)  == Arith(a, b, a.val + b.val)
subN(a, b)  == Arith(a, b, a.val - b.val)
mulN(a, b)  == Arith(a, b, a.val * b.val)
sdivN(a, b) == Arith(a, b, FloorDiv(a.val, b.val))
smodN(a, b) == Arith(a, b, FloorMod(a.val, b.val))

udivN(a, b) ==
  LET c == unsigned(a)  d == unsigned(b)
  IN signed(Arith(c, d, FloorDiv(c.val, d.val)))
umodN(a, b) ==
  LET c == unsigned(a)  d == unsigned(b)
  IN signed(Arith(c, d, FloorMod(c.val, d.val)))

absN(a)  == Arith(a, a, Magnitude(a.val))
signN(a) == Arith(a, a, Sign(a.val))

(* Mutant of squotN: the quotient is rounded down.                          *)
squotFloor(a, b) == Arith(a, b, FloorDiv(a.val, b.val))

squotN(a, b) ==
  LET c == absN(a)  d == absN(b)
      q == Arith(c, d, FloorDiv(c.val, d.val))
      s == Arith(q, signN(a), q.val * Sign(a.val))
  IN Arith(s, signN(b), s.val * Sign(b.val))

sremN(a, b) ==
  LET c == absN(a)  d == absN(b)
      r == Arith(c, d, FloorMod(c.val, d.val))
  IN Arith(r, signN(a), r.val * Sign(a.val))

(* Python's min and max return one of the two objects.                      *)
sminN(a, b) == IF b.val < a.val THEN b ELSE a
smaxN(a, b) == IF b.val > a.val THEN b ELSE a
uminN(a, b) == signed(sminN(unsigned(a), unsigned(b)))
umaxN(a, b) == signed(smaxN(unsigned(a), unsigned(b)))

(* Shifts by a count whose power of two is p; the count has the type of a   *)
(* constant of the program, of modulus m.                                   *)
shlN(a, m, p)  == Arith(a, SInt(m, 0), a.val * p)
ashrN(a, m, p) == Arith(a, SInt(m, 0), a.val \div p)
lshr(a, m, p)  == NpInt(m, (a.val % m) \div p)

sleN(a, b) == a.val <= b.val
sltN(a, b) == a.val < b.val

(* Mutant of uleN: the operands are compared as signed numbers.             *)
uleSigned(a, b) == a.val <= b.val

uleN(a, b) == unsigned(a).val <= unsigned(b).val
ultN(a, b) == unsigned(a).val < unsigned(b).val

sext_T(a, to)     == NpInt(to, a.val)
zext(a, from, to) == NpInt(to, a.val % from)

complementN(a) == Arith(a, a, -a.val - 1)
ssignum(a)     == signN(a)
usignum(a)     == IF a.val < 0 THEN signN(Arith(a, a, -a.val)) ELSE signN(a)

sitofp(a)      == Float(2 * a.val)
uitofp(a)      == Float(2 * unsigned(a).val)
fptosi(a, to)  == NpInt(to, Trunc(a.val))

(* Mutant of fptoui: the number is not truncated but rounded up.            *)
fptouiRounded(a, to) == NpUInt(to, (a.val + 1) \div 2)

fptoui(a, to)  == NpUInt(to, Trunc(a.val))

(***************************************************************************)
(* The programs                                                            *)
(***************************************************************************)
(* The value of Primitive.hs in the type of modulus m.                      *)
intValue(m, n) == SInt(m, Wrap(m, n))

(* The bits of v as an unsigned number.                                     *)
Word(m, n) == n % m

Apply(z, w, t) == x' = z /\ v' = w /\ trust' = t /\ branch' = <<FALSE, FALSE>>

(* What becomes of a value of which only the bits are right: some           *)
(* operations keep that, unless numpy goes over to floats, some make it     *)
(* right again, and all others go wrong.                                    *)
KeepsBits  == IF x.kind = "uint" /\ x.mod = Top THEN "lost" ELSE trust
NeedsValue == IF trust = "exact" THEN "exact" ELSE "lost"
Unless(wrong) == IF wrong THEN "lost" ELSE NeedsValue

Load ==
  \E m \in Modulus : \E n \in Numbers(m) : Apply(SInt(m, n), SInt(m, n), "exact")

Holds(kind) == v.kind = kind /\ trust # "lost"

Ring ==
  /\ Holds("int")
  /\ \E n \in Numbers(v.mod) : LET m == v.mod  y == SInt(v.mod, n) IN
       \/ Apply(addN(x, y), intValue(m, v.val + n), KeepsBits)
       \/ Apply(subN(x, y), intValue(m, v.val - n), KeepsBits)
       \/ Apply(mulN(x, y), intValue(m, v.val * n), KeepsBits)

(* The magnitude of the smallest number is no number of its type.           *)
Division ==
  /\ Holds("int")
  /\ \E n \in Numbers(v.mod) \ {0} : LET m == v.mod  y == SInt(v.mod, n) IN
       /\ ~(v.val = Low(m) /\ n = -1)
       /\ \/ Apply(sdivN(x, y), intValue(m, FloorDiv(v.val, n)), NeedsValue)
          \/ Apply(smodN(x, y), intValue(m, FloorMod(v.val, n)), NeedsValue)
          \/ Apply(squotN(x, y), intValue(m, Quot(v.val, n)), Unless(Low(m) \in {v.val, n}))
          \/ Apply(sremN(x, y), intValue(m, Rem(v.val, n)), Unless(Low(m) \in {v.val, n}))
          \/ Apply(udivN(x, y), intValue(m, FloorDiv(Word(m, v.val), Word(m, n))), NeedsValue)
          \/ Apply(umodN(x, y), intValue(m, FloorMod(Word(m, v.val), Word(m, n))), NeedsValue)

MinMax ==
  /\ Holds("int")
  /\ \E n \in Numbers(v.mod) : LET m == v.mod  y == SInt(v.mod, n) IN
       \/ Apply(sminN(x, y), intValue(m, Smaller(v.val, n)), NeedsValue)
       \/ Apply(smaxN(x, y), intValue(m, Larger(v.val, n)), NeedsValue)
       \/ Apply(uminN(x, y), intValue(m, Smaller(Word(m, v.val), Word(m, n))), NeedsValue)
       \/ Apply(umaxN(x, y), intValue(m, Larger(Word(m, v.val), Word(m, n))), NeedsValue)

Shift ==
  /\ Holds("int")
  /\ \E p \in Power : LET m == v.mod IN
       /\ p < m
       /\ \/ Apply(shlN(x, m, p), intValue(m, v.val * p), KeepsBits)
          \/ Apply(ashrN(x, m, p), intValue(m, v.val \div p), NeedsValue)
          \/ Apply(lshr(x, m, p), intValue(m, Word(m, v.val) \div p), "exact")

UnOp ==
  /\ Holds("int")
  /\ LET m == v.mod IN
       \/ Apply(complementN(x), intValue(m, -v.val - 1), trust)
       \/ Apply(absN(x), intValue(m, Magnitude(v.val)), NeedsValue)
       \/ Apply(ssignum(x), intValue(m, Sign(v.val)), NeedsValue)
       \/ Apply(usignum(x), intValue(m, Sign(Word(m, v.val))), Unless(v.val = Low(m)))

Extend ==
  /\ Holds("int")
  /\ \E to \in Modulus :
       \/ Apply(sext_T(x, to), intValue(to, v.val), NeedsValue)
       \/ Apply(zext(x, v.mod, to), intValue(to, Word(v.mod, v.val)), "exact")

ToFloat ==
  /\ Holds("int")
  /\ \/ Apply(sitofp(x), Float(2 * v.val), NeedsValue)
     \/ Apply(uitofp(x), Float(2 * Word(v.mod, v.val)),
              IF x.kind = "uint" THEN "exact" ELSE NeedsValue)

AddHalf ==
  /\ Holds("float")
  /\ \E h \in {-1, 1} :
       /\ v.val + h \in -MaxHalves..MaxHalves
       /\ Apply(Float(x.val + h), Float(v.val + h), trust)

FromFloat ==
  /\ Holds("float")
  /\ \E to \in Modulus :
       \/ /\ Trunc(v.val) \in Numbers(to)
          /\ Apply(fptosi(x, to), intValue(to, Trunc(v.val)), NeedsValue)
       \/ /\ Trunc(v.val) \in 0..(to - 1)
          /\ Apply(fptoui(x, to), intValue(to, Trunc(v.val)), "unsigned")

Decide(py, prim) == branch' = <<py, prim>> /\ UNCHANGED <<x, v, trust>>

Compare ==
  /\ Holds("int")
  /\ \E n \in Numbers(v.mod) : LET m == v.mod  y == SInt(v.mod, n) IN
       \/ Decide(x.val = y.val, v.val = n)
       \/ Decide(sleN(x, y), v.val <= n)
       \/ Decide(sltN(x, y), v.val < n)
       \/ Decide(uleN(x, y), Word(m, v.val) <= Word(m, n))
       \/ Decide(ultN(x, y), Word(m, v.val) < Word(m, n))

Init ==
  /\ \E m \in Modulus : \E n \in Numbers(m) : x = SInt(m, n) /\ v = SInt(m, n)
  /\ branch = <<FALSE, FALSE>>
  /\ trust = "exact"

Next == \/ Load \/ Ring \/ Division \/ MinMax \/ Shift \/ UnOp \/ Extend
        \/ ToFloat \/ AddHalf \/ FromFloat \/ Compare

Spec == Init /\ [][Next]_vars

(***************************************************************************)
(* Properties                                                              *)
(***************************************************************************)
(* A compiled Python program computes the values of Primitive.hs, in the    *)
(* type a later operation expects: through conversions to unsigned numbers  *)
(* and back, roundings and wider types, and again after an LShr or a ZExt   *)
(* of a number that an FPToUI had left unsigned.                            *)
AgreesWithPrimitive == trust = "exact" => x = v

(* An FPToUI leaves a numpy scalar of an unsigned type where all others     *)
(* are signed.  Additions, multiplications, shifts and complements, which   *)
(* make numpy choose ever wider types, still compute the right bits.        *)
BitsAgree ==
  trust = "unsigned" => x.kind # "float" /\ x.mod >= v.mod /\ (x.val - v.val) % v.mod = 0

(* A comparison, signed or unsigned, takes the branch Primitive.hs says.    *)
SameBranch == trust = "exact" => branch[1] = branch[2]

=============================================================================
