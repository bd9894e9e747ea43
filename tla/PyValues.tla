------------------------------ MODULE PyValues ------------------------------
(***************************************************************************)
(* What a compiled Python program does before it runs: it reads one value  *)
(* for every parameter of its entry point from standard input              *)
(* (read_value), and then unpacks all of them (entryPointInput).           *)
(*                                                                         *)
(* The input is either typed by somebody, and any text, or produced by     *)
(* other programs, one value after the other: printed by a Futhark program *)
(* (write_value and a newline), generated by futhark-dataset --binary, or  *)
(* converted by it from text.                                              *)
(***************************************************************************)
EXTENDS PyReader

CONSTANTS
  Python,     (* the major versions of Python                               *)
  Signature,  (* the parameter types of the programs: sequences of          *)
              (* [base, rank]                                               *)
  Typed,      (* Typed[sig]: the texts somebody may type for a program      *)
  Values      (* Values[p]: the values another program has for a parameter  *)

VARIABLES
  params,     (* the types of the parameters                                *)
  reader,     (* input_reader: the Python version and the unread input      *)
  written,    (* what other programs have written: [value, how]             *)
  args,       (* the values read                                            *)
  taken,      (* history: the characters each of them was read from         *)
  outcome     (* "writing", "reading", "running", or how the program ended  *)

valuevars == <<params, reader, written, args, taken, outcome>>

(***************************************************************************)
(* The writers of binary values                                            *)
(***************************************************************************)
LittleEndian(n, size) ==
  LET quotient[i \in 0..size] == IF i = 0 THEN n ELSE quotient[i - 1] \div 256
  IN [i \in 1..size |-> Byte(quotient[i - 1] % 256)]

(* A float is given by its bytes.                                           *)
Pack(t, x) == CASE x[1] = "bits" -> x[2]
                [] x[1] = "bool" -> <<Byte(IF x[2] THEN 1 ELSE 0)>>
                [] x[1] = "int"  -> LittleEndian(x[2], Size(t))

Binary(v, tag) ==
  <<"b", Byte(2), Byte(Len(v.shape))>> \o tag
  \o FlattenSeq([i \in DOMAIN v.shape |-> LittleEndian(v.shape[i], 8)])
  \o FlattenSeq([i \in DOMAIN v.data |-> Pack(v.dtype, v.data[i])])

(* futhark-dataset --binary --generate                                      *)
Generated(v) == Binary(v, BinName(v.dtype))

(* futhark-dataset --binary < text: the type is that of the signed integer  *)
(* of the same width, and of a double for a bool.                           *)
Converted(v) ==
  Binary(v, CASE Kind(v.dtype) = "unsigned" ->
                   [BinName(v.dtype) EXCEPT ![5 - Len(Name(v.dtype))] = "i"]
              [] Kind(v.dtype) = "bool" -> BinName("f64")
              [] OTHER                  -> BinName(v.dtype))

HasBits(v)  == \E x \in Range(v.data) : x[1] = "bits"
HasFloat(v) == \E x \in Range(v.data) : x[1] \in {"float", "nan"}

ASSUME PythonAssumption == Python \subseteq {2, 3}

ASSUME SignatureAssumption ==
  \A sig \in Signature : sig \in Seq([base : PrimType, rank : Nat])

(* Inputs are characters; the values are such that they can be written.     *)
ASSUME InputAssumption ==
  \A sig \in Signature :
    /\ \A text \in Typed[sig] : text \in Seq(STRING)
    /\ \A i \in DOMAIN sig : \A v \in Values[sig[i]] :
         /\ ~HasBits(v)  => WriteValue(v) \in Seq(STRING)
         /\ ~HasFloat(v) => Generated(v) \in Seq(STRING) /\ Converted(v) \in Seq(STRING)

(***************************************************************************)
(* The program                                                             *)
(***************************************************************************)
ValuesInit ==
  /\ params \in Signature
  /\ written = <<>>
  /\ args = <<>>
  /\ taken = <<>>
  /\ \E py \in Python :
       \/ /\ outcome = "writing" /\ params # <<>>
          /\ reader = [py |-> py, in |-> <<>>]
       \/ /\ outcome = "reading"
          /\ \E text \in Typed[params] : reader = [py |-> py, in |-> text]

Write(v, how, chars) ==
  /\ written' = Append(written, [value |-> v, how |-> how])
  /\ reader'  = [reader EXCEPT !.in = @ \o chars]
  /\ outcome' = IF Len(written) + 1 = Len(params) THEN "reading" ELSE "writing"
  /\ UNCHANGED <<params, args, taken>>

PrintValue ==
  /\ outcome = "writing"
  /\ \E v \in Values[params[Len(written) + 1]] :
       ~HasBits(v) /\ Write(v, "print", Append(WriteValue(v), "\n"))

GenerateBinary ==
  /\ outcome = "writing"
  /\ \E v \in Values[params[Len(written) + 1]] :
       ~HasFloat(v) /\ Write(v, "generate", Generated(v))

ConvertBinary ==
  /\ outcome = "writing"
  /\ \E v \in Values[params[Len(written) + 1]] :
       ~HasFloat(v) /\ Write(v, "convert", Converted(v))

(* One call of read_value.  A call that never returns leaves the program    *)
(* with the outcome "hangs" and the input as it was before the call.        *)
ReadArgument ==
  /\ outcome = "reading"
  /\ Len(args) < Len(params)
  /\ LET r == ReadValue(reader, params[Len(args) + 1])
     IN IF r.out = "value"
        THEN /\ args'   = Append(args, r.v)
             /\ taken'  = Append(taken,
                  SubSeq(reader.in, 1, Len(reader.in) - Len(r.s.in)))
             /\ reader' = r.s
             /\ UNCHANGED outcome
        ELSE /\ outcome' = r.out
             /\ reader'  = IF r.out = "hangs" THEN reader ELSE r.s
             /\ UNCHANGED <<args, taken>>
  /\ UNCHANGED <<params, written>>

(* How entryPointInput ends: an array must have the type and, as its        *)
(* dimensions are asked for one by one, at least the rank of the parameter. *)
Unpacked(p, v) ==
  CASE p.rank > 0 /\ v.dtype # p.base   -> "TypeError"
    [] p.rank > 0 /\ v.dtype = p.base /\ Len(v.shape) < p.rank -> "IndexError"
    [] OTHER                            -> "running"

UnpackArguments ==
  /\ outcome = "reading"
  /\ Len(args) = Len(params)
  /\ LET wrong == SelectInSeq([i \in DOMAIN args |-> Unpacked(params[i], args[i])],
                              LAMBDA how : how # "running")
     IN outcome' = IF wrong = 0 THEN "running"
                   ELSE Unpacked(params[wrong], args[wrong])
  /\ UNCHANGED <<params, reader, written, args, taken>>

ValuesNext == PrintValue \/ GenerateBinary \/ ConvertBinary
              \/ ReadArgument \/ UnpackArguments

ValuesSpec == ValuesInit /\ [][ValuesNext]_valuevars

Ended == outcome \notin {"writing", "reading"}

(***************************************************************************)
(* Properties                                                              *)
(***************************************************************************)
(* What a value written as w is when it is read: a printed empty array has  *)
(* lost its shape and a printed float all but six decimals; a bool that is  *)
(* no array is a number when it comes in binary.                            *)
AsRead(w) ==
  LET v == w.value
      Datum(x) == CASE x[1] = "float" -> MakeFloat(x[2], InMillionths(x), -Decimals)
                    [] x[1] = "bool" /\ w.how # "print" /\ v.shape = <<>> ->
                         <<"int", IF x[2] THEN 1 ELSE 0>>
                    [] OTHER -> x
  IN [dtype |-> v.dtype,
      shape |-> IF w.how = "print" /\ Count(v.shape) = 0
                THEN [i \in DOMAIN v.shape |-> 0] ELSE v.shape,
      data  |-> [i \in DOMAIN v.data |-> Datum(v.data[i])]]

(* The values that are known to stop a program: those of the findings,      *)
(* arrays of bool in binary (GeneratedAccepted) and what futhark-dataset    *)
(* converts under the name of another type (ConversionAccepted), and a      *)
(* printed NaN, which the reader does not know.                             *)
Stops(w) ==
  \/ w.how = "print" /\ NaN \in Range(w.value.data)
  \/ w.how = "generate" /\ w.value.dtype = "bool" /\ w.value.shape # <<>>
  \/ w.how = "convert" /\ Kind(w.value.dtype) \in {"unsigned", "bool"}

(* Values that other programs have written one after the other, in text and *)
(* in binary, are read back one by one, each from its own characters, until *)
(* one of them stops the program.  Without one, the program runs; and if it *)
(* runs it has all the values that were written, and no others are left     *)
(* (read_value, write_value).                                               *)
ReadsBack ==
  written # <<>> =>
    /\ \A i \in DOMAIN args :
         (outcome = "running" \/ ~Stops(written[i])) => args[i] = AsRead(written[i])
    /\ Ended /\ (\A i \in DOMAIN written : ~Stops(written[i])) => outcome = "running"
    /\ outcome = "running" => Range(reader.in) \subseteq Blanks

(* A text without its comments and its blanks, and without the '_' that     *)
(* Python 2 skips in numbers.                                               *)
Plain(text, py) ==
  LET dropped == Comments(text)
        \cup {i \in DOMAIN text : text[i] \in Blanks \cup (IF py = 2 THEN {"_"} ELSE {})}
      kept == SelectSeq([i \in DOMAIN text |-> i], LAMBDA i : i \notin dropped)
  IN [k \in DOMAIN kept |-> text[kept[k]]]

Unsigned(text) == IF text[1] \in {"-", "+"} THEN Tail(text) ELSE text

IsNumber(text, base) ==
  text # <<>> /\ \A c \in Range(text) : c \in DOMAIN DigitValue /\ DigitValue[c] < base

(* The signed number a text spells, in decimal or after 0x.                 *)
IsSigned(text) ==
  /\ text # <<>>
  /\ LET u == Unsigned(text)
     IN IsNumber(u, 10) \/ (SubSeq(u, 1, 2) = Chars("0x")
                            /\ IsNumber(SubSeq(u, 3, Len(u)), 16))

SignedNumber(text) ==
  LET u == Unsigned(text)
      n == IF IsNumber(u, 10) THEN Number(u, 10)
           ELSE Number(SubSeq(u, 3, Len(u)), 16)
  IN IF text[1] = "-" THEN -n ELSE n

SpellsInt(t, text, x) == IsSigned(text) /\ x = <<"int", Wrapped(t, SignedNumber(text))>>

SpellsFloat(text, x) ==
  LET u   == IF text[1] = "-" THEN Tail(text) ELSE text
      e   == SelectInSeq(u, LAMBDA c : c \in {"e", "E"})
      m   == IF e = 0 THEN u ELSE SubSeq(u, 1, e - 1)
      ex  == IF e = 0 THEN <<"0">> ELSE SubSeq(u, e + 1, Len(u))
      dot == SelectInSeq(m, LAMBDA c : c = ".")
      ds  == IF dot = 0 THEN m ELSE RemoveAt(m, dot)
  IN /\ IsNumber(ds, 10)
     /\ dot # Len(m)
     /\ IsSigned(ex)
     /\ x = MakeFloat(text[1] = "-", Number(ds, 10),
                      SignedNumber(ex) - IF dot = 0 THEN 0 ELSE Len(m) - dot)

SpellsScalar(t, text, x) ==
  \E n \in 1..Len(text) :
    LET word == SubSeq(text, 1, n)
    IN /\ SubSeq(text, n + 1, Len(text)) \in {<<>>, Name(t)}
       /\ CASE Kind(t) = "float" -> SpellsFloat(word, x)
            [] Kind(t) = "bool"  -> x = <<"bool", word = Chars("true")>>
                                    /\ word \in {Chars("true"), Chars("false")}
            [] OTHER             -> SpellsInt(t, word, x)

(* The parts between the commas outside all brackets.                       *)
Parts(text) ==
  LET depth(j) == Len(SelectSeq(SubSeq(text, 1, j), LAMBDA c : c = "["))
                  - Len(SelectSeq(SubSeq(text, 1, j), LAMBDA c : c = "]"))
      cuts == SetToSortSeq({0, Len(text) + 1} \cup
                {j \in DOMAIN text : text[j] = "," /\ depth(j) = 0}, <)
  IN [k \in 1..(Len(cuts) - 1) |-> SubSeq(text, cuts[k] + 1, cuts[k + 1] - 1)]

(* v is what the text spells as a value of type t.                          *)
Spells(t, text, v) ==
  LET rank == Len(v.shape)
      Inside(row) == SubSeq(row, 2, Len(row) - 1)
      rows[k \in 0..rank] ==
        IF k = 0 THEN <<text>>
        ELSE LET around == rows[k - 1]
             IN FlattenSeq([j \in DOMAIN around |-> Parts(Inside(around[j]))])
  IN /\ \A k \in 1..rank : \A row \in Range(rows[k - 1]) :
          /\ Len(row) >= 2 /\ row[1] = "[" /\ Last(row) = "]"
          /\ Len(Parts(Inside(row))) = v.shape[k]
     /\ LET texts == rows[rank]
        IN \A j \in DOMAIN v.data : SpellsScalar(t, texts[j], v.data[j])

(* Whatever is typed, a value with elements is what exactly the characters  *)
(* it was read from spell: attempts that fail in the middle (optional does  *)
(* not put back what they consumed) never make another value of the rest.   *)
(* Left out are empty arrays, which "[+]" and "[1i]" are read as too, and   *)
(* the hexadecimal floats of Python 2, whose digits are converted twice.    *)
SpelledOut ==
  written = <<>> =>
    \A i \in DOMAIN args :
      (Count(args[i].shape) # 0
         /\ (Kind(params[i].base) = "float" => "x" \notin Range(taken[i])))
      => /\ Len(args[i].data) = Count(args[i].shape)
         /\ Spells(params[i].base, Plain(taken[i], reader.py), args[i])

(* The input ends inside a comment.                                         *)
OpenComment(text) ==
  \E i \in 1..(Len(text) - 1) :
    /\ text[i] = "-" /\ text[i + 1] = "-"
    /\ \A j \in i..Len(text) : text[j] # "\n"

(* The input ends in a hexadecimal number, or in its fraction.              *)
OpenHex(text) ==
  \E i \in 1..(Len(text) - 1) :
    /\ text[i] = "0" /\ text[i + 1] \in {"x", "X"}
    /\ \A j \in (i + 2)..Len(text) : text[j] \in Range(HexDigits) \cup {"_", "."}

(* read_value returns or raises for every input, but for the two ends of    *)
(* the input at which a loop waits for a None that get_char never gives:    *)
(* inside a comment, and in Python 2 inside a hexadecimal number.           *)
HangsOnlyAtTheEnd ==
  outcome = "hangs" => \/ OpenComment(reader.in)
                       \/ reader.py = 2 /\ OpenHex(reader.in)

(* The arguments that are written by one tool alone.                        *)
AllWritten(how) == written # <<>> /\ \A i \in DOMAIN written : written[i].how = how

(* What futhark-dataset --binary makes of a text is read as the values the  *)
(* text spells.                                                             *)
ConversionAccepted == AllWritten("convert") => outcome # "exit"

(* Values in the binary format, of the types of the parameters, are input   *)
(* for every program (docs/binary-data-format.rst): with what               *)
(* futhark-dataset --binary --generate writes, the program runs.            *)
GeneratedAccepted == AllWritten("generate") /\ Ended => outcome = "running"
=============================================================================
