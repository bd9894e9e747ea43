----------------------------- MODULE PyValuesMC -----------------------------
(* PyValues for programs of one and two parameters.                         *)
EXTENDS PyValues

T(base, rank) == [base |-> base, rank |-> rank]

Scalars == {T("i8", 0), T("u8", 0), T("f32", 0), T("bool", 0)}

Signatures ==
  {<<p>> : p \in Scalars \cup {T("i8", 1), T("f32", 1), T("bool", 1), T("i8", 2)}}
  \cup {<<T("i8", 0), T("bool", 0)>>, <<T("i8", 1), T("f32", 0)>>,
        <<T("i16", 2), T("u8", 1)>>, <<T("bool", 1), T("i8", 0)>>,
        <<T("f32", 0), T("f32", 1)>>}

Pythons == {2, 3}

(* All texts of at most n of the words.                                     *)
Texts(words, n) ==
  UNION {{FlattenSeq([i \in 1..k |-> Chars(t[i])]) : t \in [1..k -> words]}
         : k \in 0..n}

(* Rows of a matrix, regular or not, spelled right or not.                  *)
Rows == {"[1]", "[2,-1i8]", "[]", "[+]", "[1,+]", "empty(i8)", " "}

Matrices ==
  {Chars("[" \o r \o s) : r \in Rows,
     s \in {"]", "", "]--"} \cup {"," \o q \o "]" : q \in Rows}}
  \cup Texts({"empty(", "[]", "i8", ")"}, 4)

(* Texts in which the reading of the first value ends inside or before the  *)
(* second one.                                                              *)
Pairs == {Append(a, " ") \o b : a \in Texts({"1", "[", "]", "--", "\n"}, 3),
                                b \in Texts({"true", "tr", "1", ".", "-"}, 2)}

NothingTyped == [sig \in Signatures |-> {}]

V(p, shape, data) == [dtype |-> p.base, shape |-> shape, data |-> data]

(* Arrays in binary that end too early.                                     *)
CutOff ==
  LET whole == Generated(V(T("i8", 1), <<2>>, <<<<"int", 45>>, <<"int", 1>>>>))
  IN {SubSeq(whole, 1, n) : n \in 0..(Len(whole) - 1)}

TypedTexts ==
  [sig \in Signatures |->
     CASE Len(sig) = 2 -> IF T("i8", 0) \in Range(sig) \/ T("f32", 0) = sig[2]
                          THEN Pairs ELSE {}
       [] sig[1] = T("i8", 0) ->
            Texts({"1", "-", "+", "_", "0x", "a", "i8", "--", "\n"}, 4)
       [] sig[1] = T("u8", 0) -> Texts({"20", "9", "-", "u8", "u", "b"}, 4)
       [] sig[1] = T("f32", 0) ->
            Texts({"0", "15", ".", "-", "e", "0x", "p", "f32"}, 4)
       [] sig[1] = T("bool", 0) ->
            Texts({"t", "true", "false", "fa", " ", "--", "\n"}, 3)
       [] sig[1] = T("i8", 1) ->
            Texts({"[", "]", ",", "1", "+", "i", "-"}, 5) \cup CutOff
       [] sig[1] = T("f32", 1) ->
            Texts({"[", "]", ",", "1", ".", "-"}, 4)
       [] sig[1] = T("bool", 1) ->
            Texts({"[", "]", ",", "true", "f", "empty(bool)"}, 4)
       [] sig[1] = T("i8", 2) -> Matrices]

(* Numbers at the ends of their types, and such that their bytes are a      *)
(* newline, a '-' or a 'b'; floats with more than six decimals, -0 and NaN. *)
Data(base) ==
  CASE base = "i8"   -> {<<"int", n>> : n \in {-128, 0, 45, 98}}
    [] base = "i16"  -> {<<"int", n>> : n \in {-32768, 11565}}
    [] base = "u8"   -> {<<"int", n>> : n \in {0, 10, 255}}
    [] base = "bool" -> {<<"bool", TRUE>>, <<"bool", FALSE>>}
    [] base = "f32"  -> {<<"float", TRUE, 15, -1>>, <<"float", FALSE, 16, -7>>,
                         <<"float", TRUE, 0, 0>>, NaN,
                         <<"bits", <<Byte(45), Byte(45), Byte(10), Byte(98)>>>>}

TheValues ==
  [p \in UNION {Range(sig) : sig \in Signatures} |->
     CASE p.rank = 0 -> {V(p, <<>>, <<x>>) : x \in Data(p.base)}
       [] p.rank = 1 -> {V(p, <<0>>, <<>>)}
                        \cup {V(p, <<2>>, <<x, y>>) : x, y \in Data(p.base)}
       [] p.rank = 2 -> {V(p, <<2, 0>>, <<>>), V(p, <<0, 1>>, <<>>)}
                        \cup {V(p, <<2, 1>>, <<x, y>>) : x, y \in Data(p.base)}
                        \cup {V(p, <<1, 2>>, <<x, y>>) : x, y \in Data(p.base)}]
=============================================================================
