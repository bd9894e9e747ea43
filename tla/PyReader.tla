------------------------------ MODULE PyReader ------------------------------
(***************************************************************************)
(* The reader and the writer of Futhark values in compiled Python programs *)
(* (rts/python/values.py), as operators.                                   *)
(*                                                                         *)
(* A reader is a record: py, the major version of the Python that runs the *)
(* program, and in, the characters that are still to be read: first the    *)
(* lookahead buffer, then the rest of the file.  "" is what get_char       *)
(* returns at the end of the input; put back, it is read again as the end. *)
(*                                                                         *)
(* A function of the reader gives what Ret or Raise makes: how it ended    *)
(* ("value", the exception it raised, "exit" for a panic, or "hangs" if it *)
(* never returns), the reader it leaves behind, and the value.  Nothing is *)
(* read a second time: what an attempt that failed has consumed is gone.   *)
(*                                                                         *)
(* Numbers are <<"int", n>>, truth values <<"bool", b>>, floats            *)
(* <<"float", negative, digits, exponent>> for +-digits * 10^exponent.     *)
(***************************************************************************)
EXTENDS Integers, Sequences, SequencesExt, TLC

CONSTANT None   (* Python's None *)

(* A string constant as the sequence of its characters.                     *)
Chars(string) == [i \in 1..Len(string) |-> SubSeq(string, i, i)]

(***************************************************************************)
(* Results, and the two ways the code passes them on: a call in sequence,  *)
(* which an exception ends, and optional, which makes None of a            *)
(* ValueError.                                                             *)
(***************************************************************************)
Ret(s, v)   == [s |-> s, out |-> "value", v |-> v]
Raise(s, e) == [s |-> s, out |-> e, v |-> None]

Then(r, F(_, _)) == IF r.out = "value" THEN F(r.s, r.v) ELSE r
Optional(r)      == IF r.out = "ValueError" THEN Ret(r.s, None) ELSE r

(***************************************************************************)
(* Characters                                                              *)
(***************************************************************************)
(* get_char returns Peek and leaves Rest; peek_char leaves the reader.      *)
Peek(s)    == IF s.in = <<>> THEN "" ELSE Head(s.in)
Drop(s, n) == [s EXCEPT !.in = SubSeq(@, n + 1, Len(@))]
Rest(s)    == Drop(s, 1)

(* get_chars: at the end of the input it gives fewer than n.                *)
GetChars(s, n) ==
  LET k == IF n \in 0..Len(s.in) THEN n ELSE Len(s.in)
  IN Ret(Drop(s, k), SubSeq(s.in, 1, k))

(* How many of the first n characters, up to the first whose position is    *)
(* not in "good".                                                           *)
Longest(n, good) == Min((1..(n + 1)) \ good) - 1

Blanks == {" ", "\n"}

(* The positions of a text after one at which a comment begins, in the same *)
(* line.                                                                    *)
InLineOf(text, begins) ==
  {i \in DOMAIN text :
     \E j \in 1..i : j \in begins /\ \A k \in j..i : text[k] # "\n"}

Comments(text) ==
  InLineOf(text, {j \in 1..(Len(text) - 1) : text[j] = "-" /\ text[j + 1] = "-"})

(* The loop that skips a comment ends at a newline; at the end of the input *)
(* get_char returns '' and not None, so that it never ends there.           *)
Skip(s, comments) ==
  LET n == Longest(Len(s.in), comments \cup {i \in DOMAIN s.in : s.in[i] \in Blanks})
  IN IF n = Len(s.in) /\ n \in comments THEN Raise(s, "hangs") ELSE Ret(Drop(s, n), None)

(* Mutant of SkipSpaces: any '-' begins a comment.                          *)
SkipDashes(s) ==
  Skip(s, InLineOf(s.in, {j \in DOMAIN s.in : s.in[j] = "-"}))

(* Blanks and line comments.                                                *)
SkipSpaces(s) == Skip(s, Comments(s.in))

ParseChar(s, expected) ==
  IF Peek(s) = expected THEN Ret(Rest(s), expected)
                        ELSE Raise(s, "ValueError")

(* The characters that match are consumed, also if a later one does not.    *)
ParseString(s, string) ==
  LET n == Longest(Len(s.in), {i \in DOMAIN s.in : i <= Len(string) /\ s.in[i] = string[i]})
  IN IF n = Len(string) THEN Ret(Drop(s, n), TRUE) ELSE Raise(Drop(s, n), "ValueError")

(* Nothing is read unless the first character is the right one.             *)
OptionalString(s, string) ==
  IF Peek(s) = Head(string) THEN ParseString(s, string) ELSE Ret(s, FALSE)

(***************************************************************************)
(* Numbers.  In Python 3 the code compares bytes with strings: '_' is      *)
(* never skipped, and "c in string.hexdigits" is a TypeError.              *)
(***************************************************************************)
HexDigits == Chars("0123456789abcdef")
Digits    == Range(Chars("0123456789"))

DigitValue == [c \in Range(HexDigits) |->
                 (CHOOSE i \in 1..16 : HexDigits[i] = c) - 1]

Number(digits, base) ==
  FoldLeft(LAMBDA n, c : n * base + DigitValue[c], 0, digits)

Decimal(n) ==
  LET digits[m \in Nat] ==
        IF m < 10 THEN <<HexDigits[m + 1]>>
        ELSE Append(digits[m \div 10], HexDigits[(m % 10) + 1])
  IN digits[n]

Skipped(s) == IF s.py = 2 THEN {"_"} ELSE {}

(* How many of the first characters are in C.                               *)
Span(in, C) == Longest(Len(in), {i \in DOMAIN in : in[i] \in C})

(* What stands after 0x.  In Python 2, '' is in any string, so that the     *)
(* loop does not end at the end of the input.                               *)
ParseHexInt(s) ==
  LET n      == Span(s.in, Range(HexDigits) \cup Skipped(s))
      digits == SelectSeq(SubSeq(s.in, 1, n), LAMBDA c : c # "_")
  IN IF s.py = 3 THEN Raise(Rest(s), "TypeError")
     ELSE IF n = Len(s.in) THEN Raise(s, "hangs")
     ELSE IF digits = <<>> THEN Raise(Drop(s, n), "ValueError")
     ELSE Ret(Drop(s, n), Decimal(Number(digits, 16)))

IsHex(s) == Peek(s) = "0" /\ Peek(Rest(s)) \in {"x", "X"}

ParseInt(s) ==
  LET n      == Span(s.in, Digits \cup Skipped(s))
      digits == SelectSeq(SubSeq(s.in, 1, n), LAMBDA c : c # "_")
  IN IF IsHex(s) THEN ParseHexInt(Drop(s, 2))
     ELSE IF digits = <<>> THEN Raise(Drop(s, n), "ValueError")
     ELSE Ret(Drop(s, n), digits)

(* The number, with its sign.  A '+' is gone even if no number follows.     *)
ParseIntSigned(s) ==
  IF Peek(s) = "-" /\ Peek(Rest(s)) \in Digits
  THEN Then(ParseInt(Rest(s)), LAMBDA t, ds : Ret(t, -Number(ds, 10)))
  ELSE Then(ParseInt(IF Peek(s) = "+" THEN Rest(s) ELSE s),
            LAMBDA t, ds : Ret(t, Number(ds, 10)))

(***************************************************************************)
(* The primitive types.  The others of the table differ from these in      *)
(* their names and widths only.                                            *)
(***************************************************************************)
FUTHARK_PRIMTYPES ==
  [i8   |-> [name |-> Chars("i8"),   size |-> 1, kind |-> "signed"],
   i16  |-> [name |-> Chars("i16"),  size |-> 2, kind |-> "signed"],
   u8   |-> [name |-> Chars("u8"),   size |-> 1, kind |-> "unsigned"],
   u64  |-> [name |-> Chars("u64"),  size |-> 8, kind |-> "unsigned"],
   f32  |-> [name |-> Chars("f32"),  size |-> 4, kind |-> "float"],
   f64  |-> [name |-> Chars("f64"),  size |-> 8, kind |-> "float"],
   bool |-> [name |-> Chars("bool"), size |-> 1, kind |-> "bool"]]

PrimType == DOMAIN FUTHARK_PRIMTYPES
Name(t)  == FUTHARK_PRIMTYPES[t].name
Size(t)  == FUTHARK_PRIMTYPES[t].size
Kind(t)  == FUTHARK_PRIMTYPES[t].kind

(* np.int8(n) and so on: n modulo 2^width.                                  *)
Wrapped(t, n) ==
  LET m == 2^(8 * Size(t))
      k == n % m
  IN IF Kind(t) = "signed" /\ 2 * k >= m THEN k - m ELSE k

(* read_str_i8 and so on; read_str_u8 and so on read a signed number too.   *)
ReadStrInt(s, t) ==
  Then(SkipSpaces(s), LAMBDA s1, u :
    Then(ParseIntSigned(s1), LAMBDA s2, n :
      Then(OptionalString(s2, Name(t)), LAMBDA s3, o :
        Ret(s3, <<"int", Wrapped(t, n)>>))))

(* digits * 10^exponent without trailing zeros.                             *)
MakeFloat(negative, digits, exponent) ==
  LET strip[ds \in Nat, e \in Int] ==
        CASE ds = 0      -> <<"float", negative, 0, 0>>
          [] ds % 10 = 0 -> strip[ds \div 10, e + 1]
          [] OTHER       -> <<"float", negative, ds, e>>
  IN strip[digits, exponent]

(* Reached in Python 2 only.  The decimal digits that parse_hex_int returns *)
(* are read as hexadecimal ones: integer part, digits and length of the     *)
(* fraction, exponent of 2.                                                 *)
ReadStrHexFloat(s, negative) ==
  Then(ParseHexInt(s), LAMBDA s1, int :
    Then(ParseChar(s1, "."), LAMBDA s2, u :
      Then(ParseHexInt(s2), LAMBDA s3, frac :
        Then(ParseChar(s3, "p"), LAMBDA s4, w :
          Then(ParseInt(s4), LAMBDA s5, exponent :
            Ret(s5, <<"hexfloat", negative, Number(int, 16), Number(frac, 16),
                      Len(frac), Number(exponent, 10)>>))))))

(* The digits before and after the point; one of the two may be missing.    *)
ReadMantissa(s) ==
  Then(Optional(ParseInt(s)), LAMBDA s1, bef :
    CASE bef = None ->
           Then(ParseChar(s1, "."), LAMBDA s2, u :
             Then(ParseInt(s2), LAMBDA s3, aft : Ret(s3, <<<<"0">>, aft>>)))
      [] bef # None /\ Peek(s1) = "." ->
           Then(ParseInt(Rest(s1)), LAMBDA s3, aft : Ret(s3, <<bef, aft>>))
      [] OTHER -> Ret(s1, <<bef, <<>>>>))

ReadExponent(s) ==
  IF Peek(s) \in {"E", "e"} THEN ParseIntSigned(Rest(s)) ELSE Ret(s, 0)

ReadStrDecimal(s) ==
  Then(SkipSpaces(s), LAMBDA s1, u :
    LET negative == Peek(s1) = "-"
        s2       == IF negative THEN Rest(s1) ELSE s1
    IN IF s2.py = 2 /\ IsHex(s2) THEN ReadStrHexFloat(Drop(s2, 2), negative)
       ELSE Then(ReadMantissa(s2), LAMBDA s3, m :
              Then(ReadExponent(s3), LAMBDA s4, e :
                Ret(s4, MakeFloat(negative, Number(m[1] \o m[2], 10),
                                  e - Len(m[2]))))))

ReadStrFloat(s, t) ==
  Then(ReadStrDecimal(s), LAMBDA s1, x :
    Then(OptionalString(s1, Name(t)), LAMBDA s2, o : Ret(s2, x)))

ReadStrBool(s) ==
  Then(SkipSpaces(s), LAMBDA s1, u :
    CASE Peek(s1) = "t" -> Then(ParseString(s1, Chars("true")),
                                LAMBDA s2, o : Ret(s2, <<"bool", TRUE>>))
      [] Peek(s1) = "f" -> Then(ParseString(s1, Chars("false")),
                                LAMBDA s2, o : Ret(s2, <<"bool", FALSE>>))
      [] OTHER          -> Raise(s1, "ValueError"))

(* The str_reader of a type.                                                *)
ReadStr(s, t) == CASE Kind(t) \in {"signed", "unsigned"} -> ReadStrInt(s, t)
                   [] Kind(t) = "float"                  -> ReadStrFloat(s, t)
                   [] Kind(t) = "bool"                   -> ReadStrBool(s)

(***************************************************************************)
(* Arrays in text: nested lists, which must be regular.                    *)
(***************************************************************************)
Dimensions(n) == FlattenSeq([i \in 1..n |-> Chars("[]")])

ReadStrEmptyArray(s, t, rank) ==
  Then(ParseString(s, Chars("empty(") \o Dimensions(rank) \o Name(t) \o <<")">>),
       LAMBDA s1, o : Ret(s1, None))

ReadStrComma(s) == Then(SkipSpaces(s), LAMBDA s1, u : ParseChar(s1, ","))

(* The calls that read a list, by what they read and by how many characters *)
(* are left: read[<<"array", k, m>>] is read_str_array_elems, of elements   *)
(* of rank k, and read[<<"more", k, m>>] the loop of sepBy.                 *)
ReadElem(s, t, k, read) ==
  IF k = 0 THEN ReadStr(s, t) ELSE read[<<"array", k - 1, Len(s.in)>>]

(* sepBy after an element.                                                  *)
MoreElems(s, t, k, read) ==
  Then(Optional(ReadStrComma(s)), LAMBDA s1, comma :
    IF comma = None THEN Ret(s1, <<>>)
    ELSE Then(ReadElem(s1, t, k, read), LAMBDA s2, e :
           Then(read[<<"more", k, Len(s2.in)>>], LAMBDA s3, es : Ret(s3, <<e>> \o es))))

(* No element at all if the first one cannot be read, or is None.           *)
SepBy(s, t, k, read) ==
  Then(Optional(ReadElem(s, t, k, read)), LAMBDA s1, e :
    IF e = None THEN Ret(s1, <<>>)
    ELSE Then(read[<<"more", k, Len(s1.in)>>], LAMBDA s2, es : Ret(s2, <<e>> \o es)))

ReadList(s, t, k, read) ==
  Then(SkipSpaces(s), LAMBDA s1, u :
    IF Peek(s1) # "[" THEN ReadStrEmptyArray(s1, t, k)
    ELSE Then(SepBy(Rest(s1), t, k, read), LAMBDA s2, elems :
           Then(SkipSpaces(s2), LAMBDA s3, w :
             Then(ParseChar(s3, "]"), LAMBDA s4, o : Ret(s4, elems)))))

ReadStrArrayElems(s, t, rank) ==
  LET read[call \in {"array", "more"} \X (0..rank) \X (0..Len(s.in))] ==
        LET s1 == Drop(s, Len(s.in) - call[3])
        IN IF call[1] = "array" THEN ReadList(s1, t, call[2], read)
           ELSE MoreElems(s1, t, call[2], read)
  IN read[<<"array", rank, Len(s.in)>>]

(* The lengths of the list, of its first element, of the first one of that. *)
ExpectedArrayDims(l, rank) ==
  LET first[k \in 1..rank] ==
        IF k = 1 THEN l ELSE IF first[k - 1] = <<>> THEN <<>> ELSE first[k - 1][1]
  IN [k \in 1..rank |-> Len(first[k])]

(* Mutant of VerifyArrayDims: only the outermost dimension is compared.     *)
VerifyOuterDim(l, dims) ==
  IF l # None /\ dims[1] # Len(l) THEN "ValueError" ELSE "value"

(* How the check ends: the first row that differs decides.  A row is found  *)
(* by the numbers of the rows it is in.                                     *)
VerifyArrayDims(l, dims) ==
  LET wrong[path \in Seq(Nat)] ==
        LET row == FoldLeft(LAMBDA rows, i : rows[i], l, path)
        IN IF row = None \/ Len(row) # dims[Len(path) + 1] THEN <<row>>
           ELSE IF Len(path) + 1 = Len(dims) THEN <<>>
           ELSE FlattenSeq([i \in DOMAIN row |-> wrong[Append(path, i)]])
  IN IF wrong[<<>>] = <<>> THEN "value"
     ELSE IF Head(wrong[<<>>]) = None THEN "TypeError" ELSE "ValueError"

(* The elements of the rows of the rows.                                    *)
Flat(l, rank) ==
  LET rows[k \in 1..rank] == IF k = 1 THEN l ELSE FlattenSeq(rows[k - 1])
  IN rows[rank]

(* np.array of a regular nested list has no dimension after one that is 0.  *)
ShapeOfList(dims) ==
  LET zero == SelectInSeq(dims, LAMBDA n : n = 0)
  IN IF zero = 0 THEN dims ELSE SubSeq(dims, 1, zero)

ReadStrArray(s, t, rank) ==
  Then(ReadStrArrayElems(s, t, rank - 1), LAMBDA s1, l :
    IF l = None
    THEN Ret(s1, [dtype |-> t, shape |-> [i \in 1..rank |-> 0], data |-> <<>>])
    ELSE LET dims == ExpectedArrayDims(l, rank)
             how  == VerifyArrayDims(l, dims)
         IN IF how # "value" THEN Raise(s1, how)
            ELSE Ret(s1, [dtype |-> t, shape |-> ShapeOfList(dims),
                          data |-> Flat(l, rank)]))

(***************************************************************************)
(* Binary values.  A byte that is the code of a character of the texts is  *)
(* that character.                                                         *)
(***************************************************************************)
Byte(n) ==
  LET letters == Chars("abcdefghijklmnopqrstuvwxyz")
  IN CASE n = 10         -> "\n"
       [] n = 32         -> " "
       [] n = 45         -> "-"
       [] n \in 48..57   -> HexDigits[n - 47]
       [] n \in 97..122  -> letters[n - 96]
       [] OTHER          -> "x" \o ToString(n)

ByteValue == LET code == [n \in 0..255 |-> Byte(n)]
             IN [c \in Range(code) |-> CHOOSE n \in 0..255 : code[n] = c]

(* struct.unpack: little endian.  What a float's bytes stand for is left    *)
(* open; a bool is a number.                                                *)
Unpack(t, bytes) ==
  LET n == FoldRight(LAMBDA c, m : m * 256 + ByteValue[c], bytes, 0)
  IN CASE Kind(t) = "float"    -> <<"bits", bytes>>
       [] Kind(t) = "unsigned" -> <<"int", n>>
       [] OTHER -> <<"int", IF ByteValue[Last(bytes)] < 128 THEN n
                            ELSE n - 2^(8 * Size(t))>>

ReadBin(s, t) ==
  Then(GetChars(s, Size(t)), LAMBDA s1, bytes :
    IF Len(bytes) < Size(t) THEN Raise(s1, "struct.error")
    ELSE Ret(s1, Unpack(t, bytes)))

READ_BINARY_VERSION == 2

ReadIsBinary(s) ==
  Then(SkipSpaces(s), LAMBDA s1, u :
    IF Peek(s1) # "b" THEN Ret(s1, FALSE)
    ELSE Then(ReadBin(Rest(s1), "u8"), LAMBDA s2, version :
           IF version = <<"int", READ_BINARY_VERSION>> THEN Ret(s2, TRUE)
           ELSE Raise(s2, "exit")))

(* A name, in four characters.                                              *)
BinName(t) == [i \in 1..(4 - Len(Name(t))) |-> " "] \o Name(t)

ReadBinReadType(s) ==
  Then(GetChars(s, 4), LAMBDA s1, chars :
    IF \E t \in PrimType : BinName(t) = chars
    THEN Ret(s1, CHOOSE t \in PrimType : BinName(t) = chars)
    ELSE Raise(s1, "exit"))

(* The rank and the type in the header are those of the parameter.          *)
EnsureType(s, t, rank) ==
  Then(ReadBin(s, "u8"), LAMBDA s1, r :
    IF r # <<"int", rank>> THEN Raise(s1, "exit")
    ELSE Then(ReadBinReadType(s1), LAMBDA s2, bin_type :
           IF bin_type # t THEN Raise(s2, "exit") ELSE Ret(s2, None)))

(* The type of the numbers np.fromstring makes; a bool has the format 'b'.   *)
BinDtype(t) == IF t = "bool" THEN "i8" ELSE t

(* The dimensions are read one by one; what is too short is used up.        *)
ReadShape(s, rank) ==
  Then(GetChars(s, rank * Size("u64")), LAMBDA s1, bytes :
    IF Len(bytes) < rank * Size("u64") THEN Raise(s1, "struct.error")
    ELSE Ret(s1, [i \in 1..rank |->
           Unpack("u64", SubSeq(bytes, (i - 1) * Size("u64") + 1, i * Size("u64")))[2]]))

Count(shape) == FoldLeft(LAMBDA m, n : m * n, 1, shape)

(* Too few bytes for the shape are a ValueError of numpy.                   *)
ReadBinArray(s, t, rank) ==
  Then(ReadShape(s, rank), LAMBDA s1, shape :
    Then(GetChars(s1, Count(shape) * Size(t)), LAMBDA s2, bytes :
      IF Len(bytes) < Count(shape) * Size(t) THEN Raise(s2, "ValueError")
      ELSE Ret(s2, [dtype |-> BinDtype(t), shape |-> shape,
                    data |-> [i \in 1..Count(shape) |->
                      Unpack(t, SubSeq(bytes, (i - 1) * Size(t) + 1,
                                              i * Size(t)))]])))

(***************************************************************************)
(* read_value, for a parameter [base, rank]; a scalar is read as an array  *)
(* of rank 0.                                                              *)
(***************************************************************************)
Scalar(t, x) == [dtype |-> t, shape |-> <<>>, data |-> <<x>>]

ReadScalar(s, t) ==
  Then(ReadIsBinary(s), LAMBDA s1, binary :
    LET r == IF binary
             THEN Then(EnsureType(s1, t, 0), LAMBDA s2, u : ReadBin(s2, t))
             ELSE ReadStr(s1, t)
    IN Then(r, LAMBDA s3, x : Ret(s3, Scalar(t, x))))

ReadArray(s, t, rank) ==
  Then(ReadIsBinary(s), LAMBDA s1, binary :
    IF binary
    THEN Then(EnsureType(s1, t, rank), LAMBDA s2, u : ReadBinArray(s2, t, rank))
    ELSE ReadStrArray(s1, t, rank))

ReadValue(s, p) ==
  IF p.rank = 0 THEN ReadScalar(s, p.base) ELSE ReadArray(s, p.base, p.rank)

(***************************************************************************)
(* write_value, for a value [dtype, shape, data].                          *)
(***************************************************************************)
NaN == <<"nan">>

Decimals == 6
Millionth == 10^Decimals

(* A float in millionths, rounded, half of one away from zero.              *)
InMillionths(x) ==
  IF x[4] + Decimals >= 0 THEN x[3] * 10^(x[4] + Decimals)
  ELSE LET unit == 10^(-x[4] - Decimals) IN (2 * x[3] + unit) \div (2 * unit)

(* "%.6f"                                                                   *)
FixedPoint(x) ==
  LET n == InMillionths(x)
  IN (IF x[2] THEN <<"-">> ELSE <<>>) \o Decimal(n \div Millionth) \o <<".">>
     \o Tail(Decimal(Millionth + (n % Millionth)))

WriteScalar(t, x) ==
  CASE x = NaN           -> Chars("nan") \o Name(t)
    [] x[1] = "float"    -> FixedPoint(x) \o Name(t)
    [] x[1] = "bool"     -> IF x[2] THEN Chars("true") ELSE Chars("false")
    [] x[1] = "int"      -> (IF x[2] < 0 THEN <<"-">> \o Decimal(-x[2])
                             ELSE Decimal(x[2])) \o Name(t)

(* Mutant of Separator: the elements of an array run together.              *)
NoSeparator == <<" ">>

Separator == Chars(", ")

(* Row j of all those for which k dimensions are left out.                  *)
WriteValue(val) ==
  LET rank == Len(val.shape)
      row[k \in 0..rank, j \in Nat] ==
        IF k = rank THEN WriteScalar(val.dtype, val.data[j])
        ELSE LET n == val.shape[k + 1]
                 elem(i) == row[k + 1, (j - 1) * n + i]
             IN <<"[">> \o elem(1)
                \o FlattenSeq([i \in 1..(n - 1) |-> Separator \o elem(i + 1)])
                \o <<"]">>
  IN IF rank > 0 /\ Count(val.shape) = 0
     THEN Chars("empty(") \o Dimensions(rank - 1) \o Name(val.dtype) \o <<")">>
     ELSE row[0, 1]
=============================================================================
