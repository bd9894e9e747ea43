--------------------------- MODULE MemBlock_proofs ---------------------------
(***************************************************************************)
(* Reference counting is exact and sufficient for every set of cells and   *)
(* blocks and every nesting of calls and scopes.  A parameter does not     *)
(* count, so that its block survives the call needs its own invariant:     *)
(* some counting cell of an earlier call, or an array of the host, refers  *)
(* to the same block, and a running function changes neither (Borrowed).   *)
(***************************************************************************)
EXTENDS MemBlock, FiniteSetTheorems, TLAPS

(* Every block is counted exactly.                                          *)
Counted == \A b \in Block : count[b] = Cardinality(Owners(b))

(* Variables belong to calls in progress; unused cells refer to nothing.    *)
Placed ==
  \A c \in Cell : /\ kind[c] \in {"local", "param"} => frame[c] \in 1..frames
                  /\ kind[c] \in {"none", "array"} => frame[c] = 0
                  /\ kind[c] = "none" => ref[c] = Null

(* The block of a parameter is counted by a cell of an earlier call or of   *)
(* the host.                                                                *)
Borrowed ==
  \A p \in Cell : kind[p] = "param" /\ ref[p] # Null =>
    \E o \in Cell : kind[o] \in Counting /\ ref[o] = ref[p] /\ frame[o] < frame[p]

IInv == TypeOK /\ NoFreedCounter /\ Counted /\ Placed /\ Borrowed

-----------------------------------------------------------------------------
(* The number of elements when some of a set are replaced by others.        *)
LEMMA CardinalityChange ==
  ASSUME NEW O, NEW S, NEW G, IsFiniteSet(O), IsFiniteSet(G),
         S \subseteq O, G \cap (O \ S) = {}
  PROVE  /\ Cardinality((O \ S) \cup G) = Cardinality(O) - Cardinality(S) + Cardinality(G)
         /\ Cardinality(O) \in Nat /\ Cardinality(S) \in Nat /\ Cardinality(G) \in Nat
         /\ Cardinality((O \ S) \cup G) \in Nat
<1>1. IsFiniteSet(S) /\ IsFiniteSet(O \ S) /\ IsFiniteSet((O \ S) \cup G)
  BY FS_Subset, FS_Difference, FS_Union
<1>2. Cardinality(O \ S) = Cardinality(O) - Cardinality(S)
  <2>1. O \cap S = S
    OBVIOUS
  <2> QED
    BY <2>1, FS_Difference
<1>3. Cardinality((O \ S) \cup G) = Cardinality(O \ S) + Cardinality(G) - Cardinality({})
  <2>1. (O \ S) \cap G = {}
    OBVIOUS
  <2> QED
    BY <1>1, <2>1, FS_Union
<1>4. /\ Cardinality(O) \in Nat /\ Cardinality(S) \in Nat /\ Cardinality(G) \in Nat
      /\ Cardinality((O \ S) \cup G) \in Nat /\ Cardinality(O \ S) \in Nat
  BY <1>1, FS_CardinalityType
<1> QED
  BY <1>2, <1>3, <1>4, FS_EmptySet

LEMMA CellsFinite == \A S \in SUBSET Cell : IsFiniteSet(S)
  BY FiniteAssumption, FS_Subset

(* One cell refers to a block once or not at all.                           *)
LEMMA OneReference ==
  ASSUME NEW c \in Cell, NEW b
  PROVE  References({c}, b) = IF ref[c] = b THEN 1 ELSE 0
<1>1. {x \in {c} : ref[x] = b} = IF ref[c] = b THEN {c} ELSE {}
  OBVIOUS
<1> QED
  BY <1>1, FS_Singleton, FS_EmptySet DEF References

(* A counting cell keeps its block alive.                                   *)
LEMMA OwnedIsLive ==
  ASSUME IInv, NEW c \in Cell, kind[c] \in Counting, ref[c] # Null
  PROVE  count[ref[c]] # 0
<1>1. ref[c] \in Block /\ c \in Owners(ref[c])
  BY DEF IInv, TypeOK, Owners
<1>2. IsFiniteSet(Owners(ref[c]))
  BY CellsFinite DEF Owners
<1> QED
  BY <1>1, <1>2, FS_EmptySet DEF IInv, Counted

-----------------------------------------------------------------------------
(* The invariant implies the safety properties of the model.                *)
LEMMA Consequences == IInv => RefcountExact /\ NoDangling /\ NoLeak
<1> SUFFICES ASSUME IInv PROVE RefcountExact /\ NoDangling /\ NoLeak
  OBVIOUS
<1>1. RefcountExact
  BY DEF IInv, Counted, RefcountExact
<1>2. NoDangling
  <2> SUFFICES ASSUME NEW c \in Cell, ref[c] # Null PROVE count[ref[c]] # 0
    BY DEF NoDangling
  <2>1. CASE kind[c] \in Counting
    BY <2>1, OwnedIsLive
  <2>2. CASE kind[c] = "param"
    <3>1. PICK o \in Cell : kind[o] \in Counting /\ ref[o] = ref[c]
      BY <2>2 DEF IInv, Borrowed
    <3> QED
      BY <3>1, OwnedIsLive
  <2>3. CASE kind[c] = "none"
    BY <2>3 DEF IInv, Placed
  <2> QED
    BY <2>1, <2>2, <2>3 DEF IInv, TypeOK, Counting
<1>3. NoLeak
  <2> SUFFICES ASSUME frames = 0, NEW b \in Block, count[b] # 0
               PROVE  \E c \in Arrays : ref[c] = b
    BY DEF NoLeak
  <2>1. Owners(b) # {}
    BY FS_EmptySet DEF IInv, Counted
  <2>2. PICK c \in Cell : kind[c] \in Counting /\ ref[c] = b
    BY <2>1 DEF Owners
  <2>3. kind[c] # "local"
    BY DEF IInv, Placed
  <2> QED
    BY <2>2, <2>3 DEF Counting, Arrays
<1> QED
  BY <1>1, <1>2, <1>3

LEMMA InitIInv == Init => IInv
<1> SUFFICES ASSUME Init PROVE IInv
  OBVIOUS
<1>1. TypeOK
  BY BoundsAssumption DEF Init, TypeOK
<1>2. \A b : Owners(b) = {}
  BY DEF Init, Owners, Counting
<1>3. Counted
  BY <1>2, FS_EmptySet DEF Init, Counted
<1> QED
  BY <1>1, <1>3 DEF Init, IInv, NoFreedCounter, Placed, Borrowed

-----------------------------------------------------------------------------
(* Cardinalities are natural numbers, so exact counts are.                  *)
LEMMA OwnersFinite ==
  \A b : IsFiniteSet(Owners(b)) /\ Cardinality(Owners(b)) \in Nat
  BY CellsFinite, FS_CardinalityType DEF Owners

(* Giving up the counting cells in S, and making those in G refer to b      *)
(* instead, changes the owners of b by as many.                             *)
LEMMA OwnersChange ==
  ASSUME IInv, NEW b \in Block, NEW S \in SUBSET Cell,
         \A c \in S : kind[c] \in Counting,
         NEW G \in SUBSET Cell, G \cap (Owners(b) \ S) = {},
         Owners(b)' = (Owners(b) \ S) \cup G
  PROVE  /\ Cardinality(Owners(b)') = count[b] - References(S, b) + Cardinality(G)
         /\ Cardinality(Owners(b)') \in Nat
         /\ References(S, b) \in Nat /\ Cardinality(G) \in Nat /\ count[b] \in Nat
<1> DEFINE R == {c \in S : ref[c] = b}
<1>1. /\ R \subseteq Owners(b) /\ Owners(b) \ R = Owners(b) \ S
      /\ G \cap (Owners(b) \ R) = {}
  BY DEF Owners
<1>2. IsFiniteSet(Owners(b)) /\ IsFiniteSet(G)
  BY CellsFinite, OwnersFinite
<1>3. /\ Cardinality((Owners(b) \ R) \cup G)
            = Cardinality(Owners(b)) - Cardinality(R) + Cardinality(G)
      /\ Cardinality((Owners(b) \ R) \cup G) \in Nat
      /\ Cardinality(R) \in Nat /\ Cardinality(G) \in Nat
      /\ Cardinality(Owners(b)) \in Nat
  <2> DEFINE O == Owners(b)
  <2>1. /\ IsFiniteSet(O) /\ IsFiniteSet(G)
        /\ R \subseteq O /\ G \cap (O \ R) = {}
    BY <1>1, <1>2
  <2> HIDE DEF R, O
  <2>2. Cardinality((O \ R) \cup G) = Cardinality(O) - Cardinality(R) + Cardinality(G)
    BY <2>1, CardinalityChange
  <2>3. Cardinality((O \ R) \cup G) \in Nat
    BY <2>1, CardinalityChange
  <2>4. Cardinality(O) \in Nat /\ Cardinality(R) \in Nat /\ Cardinality(G) \in Nat
    BY <2>1, CardinalityChange
  <2> QED
    BY <2>2, <2>3, <2>4 DEF O
<1> QED
  BY <1>1, <1>3 DEF References, IInv, Counted

(* Giving up the counting cells in S takes that many owners from b.         *)
LEMMA OwnersShrink ==
  ASSUME IInv, NEW b \in Block, NEW S \in SUBSET Cell,
         \A c \in S : kind[c] \in Counting,
         Owners(b)' = Owners(b) \ S
  PROVE  /\ Cardinality(Owners(b)') = count[b] - References(S, b)
         /\ Cardinality(Owners(b)') \in Nat
<1> DEFINE G == {}
<1>1. /\ G \in SUBSET Cell /\ G \cap (Owners(b) \ S) = {}
      /\ Owners(b)' = (Owners(b) \ S) \cup G
      /\ Cardinality(G) = 0
  BY FS_EmptySet
<1> HIDE DEF G
<1>2. Cardinality(Owners(b)') = count[b] - References(S, b) + Cardinality(G)
  BY <1>1, OwnersChange
<1>3. Cardinality(Owners(b)') \in Nat
  BY <1>1, OwnersChange
<1>4. References(S, b) \in Nat /\ count[b] \in Nat
  BY <1>1, OwnersChange
<1> QED
  BY <1>1, <1>2, <1>3, <1>4

(* What is left of the owners of b without the counting cells in S.         *)
LEMMA OwnersLeft ==
  ASSUME IInv, NEW b \in Block, NEW S \in SUBSET Cell,
         \A c \in S : kind[c] \in Counting
  PROVE  /\ Cardinality(Owners(b) \ S) = count[b] - References(S, b)
         /\ Cardinality(Owners(b) \ S) \in Nat
<1> DEFINE R == {c \in S : ref[c] = b}
           O == Owners(b)
           G == {}
<1>1. /\ R \subseteq O /\ O \ S = (O \ R) \cup G /\ G \cap (O \ R) = {}
      /\ IsFiniteSet(O) /\ IsFiniteSet(G) /\ Cardinality(G) = 0
  BY OwnersFinite, FS_EmptySet DEF Owners
<1>2. References(S, b) = Cardinality(R) /\ count[b] = Cardinality(O)
  BY DEF References, IInv, Counted
<1> HIDE DEF R, O, G
<1>3. Cardinality((O \ R) \cup G) = Cardinality(O) - Cardinality(R) + Cardinality(G)
  BY <1>1, CardinalityChange
<1>4. Cardinality((O \ R) \cup G) \in Nat
  BY <1>1, CardinalityChange
<1>5. Cardinality(O) \in Nat /\ Cardinality(R) \in Nat
  BY <1>1, CardinalityChange
<1>6. Cardinality(O \ S) = Cardinality((O \ R) \cup G)
  BY <1>1
<1>7. Cardinality(O \ S) = Cardinality(O) - Cardinality(R)
  BY <1>1, <1>3, <1>5, <1>6
<1> QED
  BY <1>2, <1>4, <1>6, <1>7 DEF O

(* Sizes stay natural numbers when blocks are freed.                        *)
LEMMA SizeType ==
  ASSUME TypeOK, NEW freed
  PROVE  [b \in Block |-> IF b \in freed THEN 0 ELSE size[b]] \in [Block -> Nat]
  BY DEF TypeOK

-----------------------------------------------------------------------------
LEMMA FreeArrayPreserves ==
  ASSUME IInv, NEW c \in Cell, FreeArray(c)
  PROVE  IInv'
<1>1. /\ status = "running" /\ frames = 0 /\ kind[c] = "array"
      /\ count' = [b \in Block |-> count[b] - References({c}, b)]
      /\ kind'  = [x \in Cell |-> IF x \in {c} THEN "none" ELSE kind[x]]
      /\ frame' = [x \in Cell |-> IF x \in {c} THEN 0 ELSE frame[x]]
      /\ level' = [x \in Cell |-> IF x \in {c} THEN 0 ELSE level[x]]
      /\ ref'   = [x \in Cell |-> IF x \in {c} THEN Null ELSE ref[x]]
      /\ UNCHANGED <<frames, inner, status>>
  BY DEF FreeArray, SetCounts, UnRef, Forget, Arrays, stack
<1>2. size' \in [Block -> Nat]
  BY SizeType DEF FreeArray, SetCounts, IInv
<1>3. \A b \in Block : Owners(b)' = Owners(b) \ {c}
  BY <1>1, NullAssumption DEF Owners, Counting
<1>4. \A b \in Block : count'[b] = Cardinality(Owners(b)') /\ count'[b] \in Nat
  <2> TAKE b \in Block
  <2> DEFINE S == {c}
  <2>1. S \in SUBSET Cell /\ Owners(b)' = Owners(b) \ S
    BY <1>3
  <2>2. \A x \in S : kind[x] \in Counting
    BY <1>1 DEF Counting
  <2> HIDE DEF S
  <2>3. Cardinality(Owners(b)') = count[b] - References(S, b)
    BY <2>1, <2>2, OwnersShrink
  <2>4. Cardinality(Owners(b)') \in Nat
    BY <2>1, <2>2, OwnersShrink
  <2> QED
    BY <1>1, <2>3, <2>4 DEF S
<1>5. TypeOK'
  <2>1. count' \in [Block -> Nat]
    BY <1>1, <1>4
  <2>2. kind' \in [Cell -> {"none", "local", "param", "array"}]
    BY <1>1 DEF IInv, TypeOK
  <2>3. frame' \in [Cell -> 0..MaxFrames] /\ level' \in [Cell -> 0..MaxInner]
    BY <1>1, BoundsAssumption DEF IInv, TypeOK
  <2>4. ref' \in [Cell -> Block \cup {Null}]
    BY <1>1 DEF IInv, TypeOK
  <2> QED
    BY <1>1, <1>2, <2>1, <2>2, <2>3, <2>4 DEF IInv, TypeOK
<1>6. Placed'
  BY <1>1 DEF IInv, TypeOK, Placed
<1>7. Borrowed'
  BY <1>1 DEF IInv, TypeOK, Placed, Borrowed
<1> QED
  BY <1>1, <1>4, <1>5, <1>6, <1>7 DEF IInv, NoFreedCounter, Counted

LEMMA CloseScopePreserves ==
  ASSUME IInv, CloseScope
  PROVE  IInv'
<1> DEFINE S == InScope
<1>1. /\ status = "running" /\ frames > 0 /\ inner[frames] > 0
      /\ count' = [b \in Block |-> count[b] - References(S, b)]
      /\ kind'  = [x \in Cell |-> IF x \in S THEN "none" ELSE kind[x]]
      /\ frame' = [x \in Cell |-> IF x \in S THEN 0 ELSE frame[x]]
      /\ level' = [x \in Cell |-> IF x \in S THEN 0 ELSE level[x]]
      /\ ref'   = [x \in Cell |-> IF x \in S THEN Null ELSE ref[x]]
      /\ inner' = [inner EXCEPT ![frames] = inner[frames] - 1]
      /\ UNCHANGED <<frames, status>>
  BY DEF CloseScope, SetCounts, UnRef, Forget
<1>2. size' \in [Block -> Nat]
  BY SizeType DEF CloseScope, SetCounts, IInv
<1>3. S \subseteq Cell /\ \A c \in S : kind[c] = "local" /\ frame[c] = frames
  BY DEF InScope, Locals
<1> HIDE DEF S
<1>4. \A b \in Block : Owners(b)' = Owners(b) \ S
  BY <1>1, <1>3, NullAssumption DEF Owners, Counting
<1>5. \A b \in Block : count'[b] = Cardinality(Owners(b)') /\ count'[b] \in Nat
  <2> TAKE b \in Block
  <2>1. S \in SUBSET Cell /\ \A c \in S : kind[c] \in Counting
    BY <1>3 DEF Counting
  <2>2. Cardinality(Owners(b)') = count[b] - References(S, b)
    BY <1>4, <2>1, OwnersShrink
  <2>3. Cardinality(Owners(b)') \in Nat
    BY <1>4, <2>1, OwnersShrink
  <2> QED
    BY <1>1, <2>2, <2>3
<1>6. TypeOK'
  <2>1. count' \in [Block -> Nat]
    BY <1>1, <1>5
  <2>2. frames \in 1..MaxFrames /\ inner[frames] - 1 \in 0..MaxInner
    BY <1>1, BoundsAssumption DEF IInv, TypeOK
  <2>3. inner' \in [1..MaxFrames -> 0..MaxInner]
    BY <1>1, <2>2 DEF IInv, TypeOK
  <2> QED
    BY <1>1, <1>2, <2>1, <2>3, BoundsAssumption DEF IInv, TypeOK
<1>7. Placed'
  BY <1>1 DEF IInv, TypeOK, Placed
<1>8. Borrowed'
  <2> SUFFICES ASSUME NEW p \in Cell, kind'[p] = "param", ref'[p] # Null
               PROVE  \E o \in Cell : kind'[o] \in Counting /\ ref'[o] = ref'[p]
                                      /\ frame'[o] < frame'[p]
    BY DEF Borrowed
  <2>1. p \notin S /\ kind[p] = "param" /\ ref'[p] = ref[p] /\ frame'[p] = frame[p]
    BY <1>1
  <2>2. PICK o \in Cell : kind[o] \in Counting /\ ref[o] = ref[p] /\ frame[o] < frame[p]
    BY <2>1 DEF IInv, Borrowed
  <2>3. frame[p] \in 1..frames /\ frames \in Nat /\ frame[o] \in Nat
    BY <2>1 DEF IInv, Placed, TypeOK
  <2>4. o \notin S
    BY <1>3, <2>2, <2>3
  <2> QED
    BY <1>1, <2>1, <2>2, <2>4
<1> QED
  BY <1>1, <1>5, <1>6, <1>7, <1>8 DEF IInv, NoFreedCounter, Counted

LEMMA OpenScopePreserves ==
  ASSUME IInv, OpenScope
  PROVE  IInv'
<1>1. /\ frames > 0 /\ inner[frames] < MaxInner
      /\ inner' = [inner EXCEPT ![frames] = inner[frames] + 1]
      /\ UNCHANGED <<cells, heap, frames, status>>
  BY DEF OpenScope
<1>2. frames \in 1..MaxFrames /\ inner[frames] + 1 \in 0..MaxInner
  BY <1>1, BoundsAssumption DEF IInv, TypeOK
<1>3. TypeOK'
  BY <1>1, <1>2 DEF IInv, TypeOK, cells, heap
<1> QED
  BY <1>1, <1>3 DEF IInv, NoFreedCounter, Counted, Placed, Borrowed, Owners, cells, heap

LEMMA StopPreserves ==
  ASSUME IInv, NEW n \in Sizes, Stop(n)
  PROVE  IInv'
  BY DEF Stop, IInv, TypeOK, NoFreedCounter, Counted, Placed, Borrowed, Owners,
         cells, heap, stack

LEMMA StutterPreserves ==
  ASSUME IInv, UNCHANGED vars
  PROVE  IInv'
  BY DEF vars, IInv, TypeOK, NoFreedCounter, Counted, Placed, Borrowed, Owners

LEMMA DeclareMemPreserves ==
  ASSUME IInv, NEW c \in Cell, DeclareMem(c)
  PROVE  IInv'
<1>1. /\ status = "running" /\ frames > 0 /\ kind[c] = "none"
      /\ kind' = [kind EXCEPT ![c] = "local"]
      /\ frame' = [frame EXCEPT ![c] = frames]
      /\ level' = [level EXCEPT ![c] = inner[frames]]
      /\ UNCHANGED <<ref, count, size, frames, inner, status>>
  BY DEF DeclareMem, Free, heap, stack
<1>2. ref[c] = Null
  BY <1>1 DEF IInv, Placed
<1>3. frames \in 1..MaxFrames /\ inner[frames] \in 0..MaxInner
  BY <1>1, BoundsAssumption DEF IInv, TypeOK
<1>4. TypeOK'
  BY <1>1, <1>3, BoundsAssumption DEF IInv, TypeOK
<1>5. \A b \in Block : Owners(b)' = Owners(b)
  BY <1>1, <1>2, NullAssumption DEF IInv, TypeOK, Owners, Counting
<1>6. Placed'
  BY <1>1, <1>3 DEF IInv, TypeOK, Placed
<1>7. Borrowed'
  <2> SUFFICES ASSUME NEW p \in Cell, kind'[p] = "param", ref'[p] # Null
               PROVE  \E o \in Cell : kind'[o] \in Counting /\ ref'[o] = ref'[p]
                                      /\ frame'[o] < frame'[p]
    BY DEF Borrowed
  <2>1. p # c /\ kind[p] = "param" /\ ref'[p] = ref[p] /\ frame'[p] = frame[p]
    BY <1>1 DEF IInv, TypeOK
  <2>2. PICK o \in Cell : kind[o] \in Counting /\ ref[o] = ref[p] /\ frame[o] < frame[p]
    BY <1>1, <2>1 DEF IInv, Borrowed
  <2>3. o # c
    BY <1>1, <2>2 DEF Counting
  <2> QED
    BY <1>1, <2>1, <2>2, <2>3 DEF IInv, TypeOK
<1> QED
  BY <1>1, <1>4, <1>5, <1>6, <1>7 DEF IInv, NoFreedCounter, Counted

LEMMA CallPreserves ==
  ASSUME IInv, NEW P \in SUBSET Free, NEW args \in [P -> Arguments], Call(P, args)
  PROVE  IInv'
<1>1. /\ status = "running" /\ frames < MaxFrames
      /\ kind' = [c \in Cell |-> IF c \in P THEN "param" ELSE kind[c]]
      /\ frame' = [c \in Cell |-> IF c \in P THEN frames + 1 ELSE frame[c]]
      /\ ref' = [c \in Cell |-> IF c \in P THEN ref[args[c]] ELSE ref[c]]
      /\ frames' = frames + 1
      /\ inner' = [inner EXCEPT ![frames + 1] = 0]
      /\ UNCHANGED <<level, count, size, status>>
  BY DEF Call, heap
<1>2. /\ \A c \in P : c \in Cell /\ kind[c] = "none"
      /\ \A c \in P : args[c] \in Cell /\ args[c] \in Arguments
  BY DEF Free, Arguments, Arrays, Visible
<1>3. frames \in Nat /\ frames + 1 \in 1..MaxFrames
  BY <1>1, BoundsAssumption DEF IInv, TypeOK
<1>4. TypeOK'
  <2>1. kind' \in [Cell -> {"none", "local", "param", "array"}]
    BY <1>1 DEF IInv, TypeOK
  <2>2. frame' \in [Cell -> 0..MaxFrames]
    BY <1>1, <1>3 DEF IInv, TypeOK
  <2>3. ref' \in [Cell -> Block \cup {Null}]
    BY <1>1, <1>2 DEF IInv, TypeOK
  <2>4. inner' \in [1..MaxFrames -> 0..MaxInner]
    BY <1>1, BoundsAssumption DEF IInv, TypeOK
  <2> QED
    BY <1>1, <1>3, <2>1, <2>2, <2>3, <2>4 DEF IInv, TypeOK
<1>5. \A b \in Block : Owners(b)' = Owners(b)
  BY <1>1, <1>2 DEF Owners, Counting
<1>6. Placed'
  BY <1>1, <1>2, <1>3 DEF IInv, TypeOK, Placed
<1>7. Borrowed'
  <2> SUFFICES ASSUME NEW p \in Cell, kind'[p] = "param", ref'[p] # Null
               PROVE  \E o \in Cell : kind'[o] \in Counting /\ ref'[o] = ref'[p]
                                      /\ frame'[o] < frame'[p]
    BY DEF Borrowed
  <2>1. \A o \in Cell : kind[o] \in Counting =>
          o \notin P /\ kind'[o] = kind[o] /\ ref'[o] = ref[o] /\ frame'[o] = frame[o]
    BY <1>1, <1>2 DEF Counting
  <2>2. CASE p \notin P
    <3>1. kind[p] = "param" /\ ref'[p] = ref[p] /\ frame'[p] = frame[p]
      BY <1>1, <2>2
    <3>2. PICK o \in Cell : kind[o] \in Counting /\ ref[o] = ref[p] /\ frame[o] < frame[p]
      BY <3>1 DEF IInv, Borrowed
    <3> QED
      BY <2>1, <3>1, <3>2
  <2>3. CASE p \in P
    <3> DEFINE a == args[p]
    <3>1. a \in Cell /\ a \in Arguments /\ ref'[p] = ref[a] /\ frame'[p] = frames + 1
      BY <1>1, <1>2, <2>3
    <3>2. kind[a] \in {"array", "local", "param"}
      BY <3>1 DEF Arguments, Arrays, Visible
    <3>3. frame[a] \in Nat /\ frame[a] <= frames
      BY <1>3, <3>1, <3>2 DEF IInv, TypeOK, Placed
    <3>4. CASE kind[a] \in Counting
      BY <1>3, <2>1, <3>1, <3>3, <3>4
    <3>5. CASE kind[a] = "param"
      <4>1. PICK o \in Cell : kind[o] \in Counting /\ ref[o] = ref[a] /\ frame[o] < frame[a]
        BY <3>1, <3>5 DEF IInv, Borrowed
      <4>2. frame[o] \in Nat
        BY DEF IInv, TypeOK
      <4> QED
        BY <1>3, <2>1, <3>1, <3>3, <4>1, <4>2
    <3> QED
      BY <3>2, <3>4, <3>5 DEF Counting
  <2> QED
    BY <2>2, <2>3
<1> QED
  BY <1>1, <1>4, <1>5, <1>6, <1>7 DEF IInv, NoFreedCounter, Counted

-----------------------------------------------------------------------------
(* memblock_alloc into a cell c: apart from c, whose old reference (if it   *)
(* counts) is given up, nothing changes but the new block.                  *)
LEMMA AllocationPreserves ==
  ASSUME IInv, status = "running", NEW c \in Cell, NEW n \in Sizes, n >= 0,
         NEW b \in Block, NEW S \in SUBSET {c}, \A x \in S : kind[x] \in Counting,
         c \notin S => kind[c] = "none",
         NewBlock(S, b, n), ref' = [ref EXCEPT ![c] = b],
         kind' \in [Cell -> {"none", "local", "param", "array"}],
         \A x \in Cell \ {c} : kind'[x] = kind[x],
         kind'[c] \in Counting,
         UNCHANGED status
  PROVE  Counted' /\ count' \in [Block -> Nat] /\ size' \in [Block -> Nat]
<1> DEFINE left == UnRef(S)
<1>1. /\ left[b] = 0
      /\ count' = [left EXCEPT ![b] = 1]
      /\ left = [x \in Block |-> count[x] - References(S, x)]
  BY DEF NewBlock, UnRef
<1>2. S \in SUBSET Cell
  OBVIOUS
<1>3. \A x \in Block : Owners(x) \ S = Owners(x) \ {c}
  BY DEF Owners, Counting
<1>4. \A x \in Block : Cardinality(Owners(x) \ S) = left[x] /\ left[x] \in Nat
  <2> TAKE x \in Block
  <2>1. Cardinality(Owners(x) \ S) = count[x] - References(S, x)
    BY <1>2, OwnersLeft
  <2>2. Cardinality(Owners(x) \ S) \in Nat
    BY <1>2, OwnersLeft
  <2> QED
    BY <1>1, <2>1, <2>2
<1> HIDE DEF left
<1>5. \A x \in Block : count'[x] = IF x = b THEN 1 ELSE left[x]
  BY <1>1
<1>6. Owners(b) \ {c} = {}
  <2>1. IsFiniteSet(Owners(b) \ S)
    BY CellsFinite DEF Owners
  <2> QED
    BY <1>1, <1>3, <1>4, <2>1, FS_EmptySet
<1>7. \A x \in Block : Owners(x)' = (Owners(x) \ {c}) \cup (IF x = b THEN {c} ELSE {})
  BY DEF Owners, IInv, TypeOK
<1>8. \A x \in Block : count'[x] = Cardinality(Owners(x)')
  <2> TAKE x \in Block
  <2>1. CASE x = b
    <3>1. Owners(x)' = {c}
      BY <1>6, <1>7, <2>1
    <3> QED
      BY <1>5, <2>1, <3>1, FS_Singleton
  <2>2. CASE x # b
    <3>1. Owners(x)' = Owners(x) \ S
      BY <1>3, <1>7, <2>2
    <3> QED
      BY <1>4, <1>5, <2>2, <3>1
  <2> QED
    BY <2>1, <2>2
<1>9. count' \in [Block -> Nat]
  <2>1. count' = [x \in Block |-> count'[x]]
    BY <1>1
  <2>2. \A x \in Block : count'[x] \in Nat
    <3> TAKE x \in Block
    <3>1. left[x] \in Nat
      BY <1>4
    <3>2. count'[x] = 1 \/ count'[x] = left[x]
      BY <1>5
    <3> QED
      BY <3>1, <3>2
  <2> QED
    BY <2>1, <2>2
<1>10. size' \in [Block -> Nat]
  <2> DEFINE freed == {a \in Block : count[a] # 0 /\ left[a] = 0}
  <2>1. size' = [a \in Block |-> IF a = b THEN n
                                 ELSE IF a \in freed THEN 0 ELSE size[a]]
    BY DEF NewBlock, left
  <2>2. n \in Nat
    BY SizesAssumption
  <2> HIDE DEF freed
  <2> QED
    BY <2>1, <2>2 DEF IInv, TypeOK
<1> QED
  BY <1>8, <1>9, <1>10 DEF Counted

LEMMA NewArrayPreserves ==
  ASSUME IInv, NEW c \in Cell, NEW n \in Sizes, NewArray(c, n)
  PROVE  IInv'
<1>1. PICK b \in Block : NewBlock({}, b, n) /\ ref' = [ref EXCEPT ![c] = b]
  BY DEF NewArray
<1>2. /\ status = "running" /\ frames = 0 /\ kind[c] = "none" /\ n >= 0
      /\ kind' = [kind EXCEPT ![c] = "array"]
      /\ UNCHANGED <<frame, level, frames, inner, status>>
  BY DEF NewArray, Free, stack
<1>3. /\ kind' \in [Cell -> {"none", "local", "param", "array"}]
      /\ \A x \in Cell \ {c} : kind'[x] = kind[x]
      /\ kind'[c] \in Counting
  BY <1>2 DEF IInv, TypeOK, Counting
<1>4. Counted' /\ count' \in [Block -> Nat] /\ size' \in [Block -> Nat]
  <2> DEFINE S == {}
  <2>1. S \in SUBSET {c} /\ (\A x \in S : kind[x] \in Counting) /\ NewBlock(S, b, n)
    BY <1>1
  <2> HIDE DEF S
  <2> QED
    BY <1>1, <1>2, <1>3, <2>1, AllocationPreserves
<1>5. TypeOK'
  BY <1>1, <1>2, <1>3, <1>4 DEF IInv, TypeOK
<1>6. Placed'
  BY <1>1, <1>2 DEF IInv, TypeOK, Placed
<1>7. Borrowed'
  BY <1>2, <1>6 DEF IInv, TypeOK, Placed, Borrowed
<1> QED
  BY <1>2, <1>4, <1>5, <1>6, <1>7 DEF IInv, NoFreedCounter

LEMMA AllocatePreserves ==
  ASSUME IInv, NEW c \in Cell, NEW n \in Sizes, Allocate(c, n)
  PROVE  IInv'
<1>1. PICK b \in Block : NewBlock({c}, b, n) /\ ref' = [ref EXCEPT ![c] = b]
  BY DEF Allocate
<1>2. /\ status = "running" /\ frames > 0 /\ n >= 0
      /\ kind[c] = "local" /\ frame[c] = frames
      /\ UNCHANGED <<kind, frame, level, frames, inner, status>>
  BY DEF Allocate, InScope, Locals, stack
<1>3. /\ kind' \in [Cell -> {"none", "local", "param", "array"}]
      /\ \A x \in Cell \ {c} : kind'[x] = kind[x]
      /\ kind'[c] \in Counting
  BY <1>2 DEF IInv, TypeOK, Counting
<1>4. Counted' /\ count' \in [Block -> Nat] /\ size' \in [Block -> Nat]
  <2> DEFINE S == {c}
  <2>1. S \in SUBSET {c} /\ c \in S /\ NewBlock(S, b, n)
    BY <1>1
  <2>2. \A x \in S : kind[x] \in Counting
    BY <1>2 DEF Counting
  <2> HIDE DEF S
  <2> QED
    BY <1>1, <1>2, <1>3, <2>1, <2>2, AllocationPreserves
<1>5. TypeOK'
  BY <1>1, <1>2, <1>3, <1>4 DEF IInv, TypeOK
<1>6. Placed'
  BY <1>1, <1>2 DEF IInv, TypeOK, Placed
<1>7. Borrowed'
  <2> SUFFICES ASSUME NEW p \in Cell, kind'[p] = "param", ref'[p] # Null
               PROVE  \E o \in Cell : kind'[o] \in Counting /\ ref'[o] = ref'[p]
                                      /\ frame'[o] < frame'[p]
    BY DEF Borrowed
  <2>1. p # c /\ kind[p] = "param" /\ ref'[p] = ref[p]
    BY <1>1, <1>2 DEF IInv, TypeOK
  <2>2. PICK o \in Cell : kind[o] \in Counting /\ ref[o] = ref[p] /\ frame[o] < frame[p]
    BY <2>1 DEF IInv, Borrowed
  <2>3. frame[p] <= frames /\ frame[p] \in Nat /\ frame[o] \in Nat /\ frames \in Nat
    BY <2>1 DEF IInv, Placed, TypeOK
  <2>4. o # c
    BY <1>2, <2>2, <2>3
  <2> QED
    BY <1>1, <1>2, <2>1, <2>2, <2>4 DEF IInv, TypeOK
<1> QED
  BY <1>2, <1>4, <1>5, <1>6, <1>7 DEF IInv, NoFreedCounter

LEMMA SetMemPreserves ==
  ASSUME IInv, NEW d \in Cell, NEW s \in Cell, SetMem(d, s)
  PROVE  IInv'
<1> DEFINE left == UnRef({d})
           b == ref[s]
<1>1. /\ status = "running" /\ frames > 0 /\ s # d
      /\ kind[d] = "local" /\ frame[d] = frames
      /\ kind[s] \in {"local", "param"} /\ frame[s] = frames /\ ref[s] # Null
      /\ status' = IF left[b] = 0 THEN "undefined" ELSE status
      /\ count' = [left EXCEPT ![b] = left[b] + 1]
      /\ ref' = [ref EXCEPT ![d] = b]
      /\ UNCHANGED <<kind, frame, level, frames, inner>>
  BY DEF SetMem, SetCounts, Locals, Visible, stack
<1>2. left = [x \in Block |-> count[x] - References({d}, x)]
  BY DEF UnRef
<1>3. size' \in [Block -> Nat]
  BY SizeType DEF SetMem, SetCounts, IInv
<1>4. b \in Block
  BY <1>1 DEF IInv, TypeOK
<1>5. \A x \in Block : Cardinality(Owners(x) \ {d}) = left[x] /\ left[x] \in Nat
  <2> TAKE x \in Block
  <2> DEFINE S == {d}
  <2>1. S \in SUBSET Cell
    OBVIOUS
  <2>2. \A c \in S : kind[c] \in Counting
    BY <1>1 DEF Counting
  <2>3. left[x] = count[x] - References(S, x)
    BY <1>2
  <2> HIDE DEF S, left
  <2>4. Cardinality(Owners(x) \ S) = count[x] - References(S, x)
    BY <2>1, <2>2, OwnersLeft
  <2>5. Cardinality(Owners(x) \ S) \in Nat
    BY <2>1, <2>2, OwnersLeft
  <2> QED
    BY <2>3, <2>4, <2>5 DEF S
<1>6. PICK o \in Cell \ {d} : kind[o] \in Counting /\ ref[o] = b
  <2>1. CASE kind[s] = "local"
    BY <1>1, <2>1 DEF Counting
  <2>2. CASE kind[s] = "param"
    <3>1. PICK o \in Cell : kind[o] \in Counting /\ ref[o] = b /\ frame[o] < frame[s]
      BY <1>1, <2>2 DEF IInv, Borrowed
    <3>2. frame[o] \in Nat /\ frames \in Nat
      BY DEF IInv, TypeOK
    <3>3. o # d
      BY <1>1, <3>1, <3>2
    <3> QED
      BY <3>1, <3>3
  <2> QED
    BY <1>1, <2>1, <2>2
<1>7. left[b] # 0
  <2>1. o \in Owners(b) \ {d}
    BY <1>6 DEF Owners
  <2>2. IsFiniteSet(Owners(b) \ {d})
    BY CellsFinite DEF Owners
  <2>3. Cardinality(Owners(b) \ {d}) # 0
    BY <2>1, <2>2, FS_EmptySet
  <2> QED
    BY <1>4, <1>5, <2>3
<1>8. status' = "running"
  BY <1>1, <1>7
<1>9. \A x \in Block : count'[x] = IF x = b THEN left[x] + 1 ELSE left[x]
  BY <1>1, <1>2
<1>10. count' = [x \in Block |-> count'[x]]
  BY <1>1, <1>2
<1> HIDE DEF left
<1>11. \A x \in Block : count'[x] = Cardinality(Owners(x)') /\ count'[x] \in Nat
  <2> TAKE x \in Block
  <2> DEFINE O == Owners(x) \ {d}
             N == Owners(x)'
             k == left[x]
  <2>1. IsFiniteSet(O) /\ d \notin O
    BY CellsFinite DEF Owners
  <2>2. k \in Nat /\ Cardinality(O) = k
    <3>1. left[x] \in Nat
      BY <1>5
    <3>2. Cardinality(Owners(x) \ {d}) = left[x]
      BY <1>5
    <3> QED
      BY <3>1, <3>2
  <2>3. x = b => N = O \cup {d} /\ count'[x] = k + 1
    BY <1>1, <1>9 DEF Owners, IInv, TypeOK, Counting
  <2>4. x # b => N = O /\ count'[x] = k
    BY <1>1, <1>9 DEF Owners, IInv, TypeOK, Counting
  <2> HIDE DEF O, N, k, b
  <2>5. Cardinality(O \cup {d}) = Cardinality(O) + 1
    BY <2>1, FS_AddElement
  <2>6. count'[x] = Cardinality(N)
    <3>1. CASE x = b
      BY <2>2, <2>3, <2>5, <3>1
    <3>2. CASE x # b
      BY <2>2, <2>4, <3>2
    <3> QED
      BY <3>1, <3>2
  <2>7. count'[x] \in Nat
    BY <2>2, <2>3, <2>4
  <2> QED
    BY <2>6, <2>7 DEF N
<1>12. TypeOK'
  <2>1. count' \in [Block -> Nat]
    BY <1>10, <1>11
  <2> QED
    BY <1>1, <1>3, <1>4, <1>8, <2>1 DEF IInv, TypeOK
<1>13. Placed'
  BY <1>1 DEF IInv, TypeOK, Placed
<1>14. Borrowed'
  <2> SUFFICES ASSUME NEW p \in Cell, kind'[p] = "param", ref'[p] # Null
               PROVE  \E q \in Cell : kind'[q] \in Counting /\ ref'[q] = ref'[p]
                                      /\ frame'[q] < frame'[p]
    BY DEF Borrowed
  <2>1. p # d /\ kind[p] = "param" /\ ref'[p] = ref[p]
    BY <1>1 DEF IInv, TypeOK
  <2>2. PICK q \in Cell : kind[q] \in Counting /\ ref[q] = ref[p] /\ frame[q] < frame[p]
    BY <2>1 DEF IInv, Borrowed
  <2>3. frame[p] <= frames /\ frame[p] \in Nat /\ frame[q] \in Nat /\ frames \in Nat
    BY <2>1 DEF IInv, Placed, TypeOK
  <2>4. q # d
    BY <1>1, <2>2, <2>3
  <2> QED
    BY <1>1, <2>1, <2>2, <2>4 DEF IInv, TypeOK
<1> QED
  BY <1>8, <1>11, <1>12, <1>13, <1>14 DEF IInv, NoFreedCounter, Counted

LEMMA ReturnPreserves ==
  ASSUME IInv, NEW D \in SUBSET Results,
         NEW outs \in [D -> {c \in Locals : ref[c] # Null}], Return(D, outs)
  PROVE  IInv'
<1> DEFINE L == Locals
           G(b) == {d \in D : ref[outs[d]] = b}
<1>1. /\ status = "running" /\ frames > 0 /\ inner[frames] = 0
      /\ count' = [b \in Block |-> count[b] + Cardinality(G(b)) - References(L, b)]
      /\ kind' = [c \in Cell |->
                IF c \in D THEN (IF frames = 1 THEN "array" ELSE "local")
                ELSE IF c \in Visible THEN "none" ELSE kind[c]]
      /\ frame' = [c \in Cell |-> IF c \in Visible THEN 0 ELSE frame[c]]
      /\ level' = [c \in Cell |-> IF c \in Visible THEN 0 ELSE level[c]]
      /\ ref' = [c \in Cell |-> IF c \in D THEN ref[outs[c]]
                                ELSE IF c \in Visible THEN Null ELSE ref[c]]
      /\ frames' = frames - 1
      /\ UNCHANGED inner
      /\ status' = IF \E d \in D : count[ref[outs[d]]] = 0 THEN "undefined" ELSE status
  BY DEF Return, Leave, SetCounts, Resulting
<1>2. size' \in [Block -> Nat]
  BY SizeType DEF Return, SetCounts, IInv
<1>3. frames \in 1..MaxFrames /\ frames - 1 \in 0..MaxFrames
  BY <1>1, BoundsAssumption DEF IInv, TypeOK
<1>4. \A d \in D : /\ d \in Cell /\ ref[d] = Null /\ d \notin Visible
                   /\ frames = 1 => frame[d] = 0
                   /\ frames # 1 => frame[d] = frames - 1
  BY <1>3 DEF Results, Free, Visible, IInv, Placed
<1>5. \A d \in D : ref[outs[d]] \in Block
  BY DEF Locals, IInv, TypeOK
<1>6. \A c \in Cell : c \in Visible <=> kind[c] \in {"local", "param"} /\ frame[c] = frames
  BY DEF Visible
<1>7. L \in SUBSET Cell /\ \A c \in Cell : c \in L <=> kind[c] = "local" /\ frame[c] = frames
  BY DEF Locals
<1>8. UNCHANGED status
  <2>1. ASSUME NEW d \in D PROVE count[ref[outs[d]]] # 0
    <3>1. outs[d] \in Cell /\ kind[outs[d]] = "local" /\ ref[outs[d]] # Null
      BY DEF Locals
    <3> QED
      BY <3>1, OwnedIsLive DEF Counting
  <2> QED
    BY <1>1, <2>1
<1> HIDE DEF L
<1>9. \A b \in Block : Owners(b)' = (Owners(b) \ L) \cup G(b)
  BY <1>1, <1>4, <1>6, <1>7, NullAssumption DEF Owners, Counting, IInv, TypeOK
<1>10. \A b \in Block : count'[b] = Cardinality(Owners(b)') /\ count'[b] \in Nat
  <2> TAKE b \in Block
  <2> DEFINE H == G(b)
  <2>1. /\ H \in SUBSET Cell /\ H \cap (Owners(b) \ L) = {}
        /\ Owners(b)' = (Owners(b) \ L) \cup H
    BY <1>4, <1>9, NullAssumption DEF Owners
  <2>2. \A c \in L : kind[c] \in Counting
    BY <1>7 DEF Counting
  <2>3. count'[b] = count[b] + Cardinality(H) - References(L, b)
    BY <1>1
  <2> HIDE DEF H
  <2>4. Cardinality(Owners(b)') = count[b] - References(L, b) + Cardinality(H)
    BY <1>7, <2>1, <2>2, OwnersChange
  <2>5. Cardinality(Owners(b)') \in Nat
    BY <1>7, <2>1, <2>2, OwnersChange
  <2>6. References(L, b) \in Nat /\ Cardinality(H) \in Nat /\ count[b] \in Nat
    BY <1>7, <2>1, <2>2, OwnersChange
  <2> QED
    BY <2>3, <2>4, <2>5, <2>6
<1>11. count' \in [Block -> Nat]
  <2>1. count' = [b \in Block |-> count'[b]]
    BY <1>1
  <2> QED
    BY <1>10, <2>1
<1>12. TypeOK'
  <2>1. kind' \in [Cell -> {"none", "local", "param", "array"}]
    BY <1>1 DEF IInv, TypeOK
  <2>2. frame' \in [Cell -> 0..MaxFrames]
    BY <1>1, BoundsAssumption DEF IInv, TypeOK
  <2>3. level' \in [Cell -> 0..MaxInner]
    BY <1>1, BoundsAssumption DEF IInv, TypeOK
  <2>4. ref' \in [Cell -> Block \cup {Null}]
    BY <1>1, <1>5 DEF IInv, TypeOK
  <2> QED
    BY <1>1, <1>2, <1>3, <1>11, <1>8, <2>1, <2>2, <2>3, <2>4 DEF IInv, TypeOK
<1>13. Placed'
  <2> SUFFICES ASSUME NEW c \in Cell
               PROVE  /\ kind'[c] \in {"local", "param"} => frame'[c] \in 1..frames'
                      /\ kind'[c] \in {"none", "array"} => frame'[c] = 0
                      /\ kind'[c] = "none" => ref'[c] = Null
    BY DEF Placed
  <2>1. CASE c \in D
    BY <1>1, <1>3, <1>4, <2>1
  <2>2. CASE c \notin D /\ c \in Visible
    BY <1>1, <2>2
  <2>3. CASE c \notin D /\ c \notin Visible
    <3>1. kind'[c] = kind[c] /\ frame'[c] = frame[c] /\ ref'[c] = ref[c]
      BY <1>1, <2>3
    <3>2. kind[c] \in {"local", "param"} => frame[c] \in 1..frames /\ frame[c] # frames
      BY <1>6, <2>3 DEF IInv, Placed
    <3> QED
      BY <1>1, <1>3, <3>1, <3>2 DEF IInv, Placed
  <2> QED
    BY <2>1, <2>2, <2>3
<1>14. Borrowed'
  <2> SUFFICES ASSUME NEW p \in Cell, kind'[p] = "param", ref'[p] # Null
               PROVE  \E o \in Cell : kind'[o] \in Counting /\ ref'[o] = ref'[p]
                                      /\ frame'[o] < frame'[p]
    BY DEF Borrowed
  <2>1. /\ p \notin D /\ p \notin Visible
        /\ kind[p] = "param" /\ ref'[p] = ref[p] /\ frame'[p] = frame[p]
    BY <1>1
  <2>2. PICK o \in Cell : kind[o] \in Counting /\ ref[o] = ref[p] /\ frame[o] < frame[p]
    BY <2>1 DEF IInv, Borrowed
  <2>3. frame[p] \in 1..frames /\ frames \in Nat /\ frame[o] \in Nat
    BY <2>1 DEF IInv, Placed, TypeOK
  <2>4. o \notin D /\ o \notin Visible
    BY <1>4, <1>6, <2>1, <2>2, <2>3
  <2> QED
    BY <1>1, <2>1, <2>2, <2>4
<1> QED
  BY <1>1, <1>10, <1>12, <1>13, <1>14, <1>8 DEF IInv, NoFreedCounter, Counted

-----------------------------------------------------------------------------
LEMMA NextPreserves == IInv /\ [Next]_vars => IInv'
<1> SUFFICES ASSUME IInv, [Next]_vars PROVE IInv'
  OBVIOUS
<1>1. ASSUME NEW c \in Cell, FreeArray(c) PROVE IInv'
  BY <1>1, FreeArrayPreserves
<1>2. ASSUME NEW c \in Cell, DeclareMem(c) PROVE IInv'
  BY <1>2, DeclareMemPreserves
<1>3. ASSUME NEW c \in Cell, NEW n \in Sizes, NewArray(c, n) PROVE IInv'
  BY <1>3, NewArrayPreserves
<1>4. ASSUME NEW c \in Cell, NEW n \in Sizes, Allocate(c, n) PROVE IInv'
  BY <1>4, AllocatePreserves
<1>5. ASSUME NEW n \in Sizes, Stop(n) PROVE IInv'
  BY <1>5, StopPreserves
<1>6. ASSUME NEW P \in SUBSET Free, NEW args \in [P -> Arguments], Call(P, args)
      PROVE  IInv'
  BY <1>6, CallPreserves
<1>7. CASE OpenScope
  BY <1>7, OpenScopePreserves
<1>8. CASE CloseScope
  BY <1>8, CloseScopePreserves
<1>9. ASSUME NEW d \in Cell, NEW s \in Cell, SetMem(d, s) PROVE IInv'
  BY <1>9, SetMemPreserves
<1>10. ASSUME NEW D \in SUBSET Results,
              NEW outs \in [D -> {c \in Locals : ref[c] # Null}], Return(D, outs)
       PROVE  IInv'
  BY <1>10, ReturnPreserves
<1>11. CASE UNCHANGED vars
  BY <1>11, StutterPreserves
<1> QED
  BY <1>1, <1>2, <1>3, <1>4, <1>5, <1>6, <1>7, <1>8, <1>9, <1>10, <1>11 DEF Next

(* Every behaviour keeps the inductive invariant.                           *)
THEOREM Invariance == Spec => []IInv
  BY InitIInv, NextPreserves, PTL DEF Spec

(* The variables keep their shapes: counts and sizes never become negative. *)
THEOREM TypeCorrect == Spec => []TypeOK
<1>1. IInv => TypeOK
  BY DEF IInv
<1> QED
  BY Invariance, <1>1, PTL

(* The count of every block is the number of variables and host arrays      *)
(* that refer to it.                                                        *)
THEOREM CountsExact == Spec => []RefcountExact
  BY Invariance, Consequences, PTL

(* No cell a function or the host can reach, counted or not, refers to a    *)
(* freed block.                                                             *)
THEOREM NeverDangles == Spec => []NoDangling
  BY Invariance, Consequences, PTL

(* Between entry points only the arrays the host holds are allocated.       *)
THEOREM NeverLeaks == Spec => []NoLeak
  BY Invariance, Consequences, PTL

(* Unreferencing the destination of a memblock_set first never frees the    *)
(* block of its source, and the results of a function are still counted     *)
(* when it counts them once more.                                           *)
THEOREM SetIsSafe == Spec => []NoFreedCounter
<1>1. IInv => NoFreedCounter
  BY DEF IInv
<1> QED
  BY Invariance, <1>1, PTL

-----------------------------------------------------------------------------
(* What the host, or a caller of the running function, has in its variables *)
(* stays there until the call returns, with the memory it refers to.        *)
CallersKept ==
  \A c \in Cell : kind[c] \in Counting /\ frame[c] < frames /\ ref[c] # Null =>
    /\ kind'[c] = kind[c] /\ ref'[c] = ref[c]
    /\ count'[ref[c]] # 0 /\ size'[ref[c]] = size[ref[c]]

(* The memory of an argument stays allocated and keeps its size, in the     *)
(* call it was passed to and in the calls that one makes.                   *)
ArgumentsKept ==
  \A p \in Cell : kind[p] = "param" /\ ref[p] # Null =>
    count'[ref[p]] # 0 /\ size'[ref[p]] = size[ref[p]]

(* No statement assigns or gives up a variable of an earlier call.          *)
LEMMA CellKept ==
  ASSUME IInv, [Next]_vars, NEW c \in Cell,
         kind[c] \in Counting, frame[c] < frames, ref[c] # Null
  PROVE  kind'[c] = kind[c] /\ ref'[c] = ref[c]
<1>1. frames # 0 /\ frames \in Nat /\ frame[c] \in Nat
  BY DEF IInv, TypeOK
<1>2. c \notin Locals /\ c \notin Visible /\ c \notin InScope /\ c \notin Free
  BY <1>1 DEF Locals, Visible, InScope, Free, Counting
<1>3. kind \in [Cell -> {"none", "local", "param", "array"}] /\ ref \in [Cell -> Block \cup {Null}]
  BY DEF IInv, TypeOK
<1>4. ASSUME NEW x \in Cell, DeclareMem(x) PROVE kind'[c] = kind[c] /\ ref'[c] = ref[c]
  BY <1>2, <1>3, <1>4 DEF DeclareMem
<1>5. ASSUME NEW x \in Cell, NEW n \in Sizes, Allocate(x, n) PROVE kind'[c] = kind[c] /\ ref'[c] = ref[c]
  BY <1>2, <1>3, <1>5 DEF Allocate
<1>6. ASSUME NEW P \in SUBSET Free, NEW args, Call(P, args) PROVE kind'[c] = kind[c] /\ ref'[c] = ref[c]
  BY <1>2, <1>3, <1>6 DEF Call
<1>7. ASSUME CloseScope PROVE kind'[c] = kind[c] /\ ref'[c] = ref[c]
  BY <1>2, <1>3, <1>7 DEF CloseScope, Forget
<1>8. ASSUME NEW d \in Cell, NEW s \in Cell, SetMem(d, s) PROVE kind'[c] = kind[c] /\ ref'[c] = ref[c]
  BY <1>2, <1>3, <1>8 DEF SetMem
<1>9. ASSUME NEW D \in SUBSET Results, NEW outs, Return(D, outs) PROVE kind'[c] = kind[c] /\ ref'[c] = ref[c]
  <2>1. c \notin D
    BY <1>2 DEF Results
  <2> QED
    BY <1>2, <1>3, <1>9, <2>1 DEF Return, Leave
<1>10. ASSUME \/ UNCHANGED vars \/ OpenScope \/ \E n \in Sizes : Stop(n)
       PROVE  kind'[c] = kind[c] /\ ref'[c] = ref[c]
  BY <1>10 DEF vars, OpenScope, Stop, cells
<1> QED
  BY <1>1, <1>4, <1>5, <1>6, <1>7, <1>8, <1>9, <1>10 DEF Next, FreeArray, NewArray

(* Memory an earlier call has a variable for is neither freed nor given out *)
(* a second time.                                                           *)
LEMMA MemoryKept ==
  ASSUME IInv, [Next]_vars, NEW c \in Cell,
         kind[c] \in Counting, frame[c] < frames, ref[c] # Null, count'[ref[c]] # 0
  PROVE  size'[ref[c]] = size[ref[c]]
<1> DEFINE b == ref[c]
<1>1. frames # 0 /\ frames \in Nat /\ frame[c] \in Nat /\ b \in Block /\ count'[b] # 0
  BY DEF IInv, TypeOK
<1>2. c \in Owners(b) /\ c \notin Locals
  BY <1>1 DEF Owners, Locals
<1> HIDE DEF b
<1>3. ASSUME NEW new, SetCounts(new) PROVE size'[b] = size[b]
  BY <1>1, <1>3 DEF SetCounts
<1>4. ASSUME NEW x \in Cell, NEW n \in Sizes, Allocate(x, n) PROVE size'[b] = size[b]
  <2>1. x \in Locals /\ kind[x] \in Counting
    BY <1>4 DEF Allocate, InScope, Locals, Counting
  <2> DEFINE S == {x}
  <2>2. S \in SUBSET Cell /\ (\A y \in S : kind[y] \in Counting) /\ c \notin S
    BY <1>2, <2>1
  <2> HIDE DEF S
  <2>3. PICK a \in Block : NewBlock(S, a, n)
    BY <1>4 DEF Allocate, S
  <2>4. Cardinality(Owners(b) \ S) = count[b] - References(S, b)
    BY <1>1, <2>2, OwnersLeft
  <2>5. Cardinality(Owners(b) \ S) # 0
    <3>1. IsFiniteSet(Owners(b) \ S) /\ Owners(b) \ S # {}
      BY <1>2, <2>2, OwnersFinite, FS_Subset
    <3> QED
      BY <3>1, FS_EmptySet
  <2>6. UnRef(S)[b] # 0
    BY <1>1, <2>4, <2>5 DEF UnRef
  <2> QED
    BY <1>1, <2>3, <2>6 DEF NewBlock
<1>5. ASSUME CloseScope \/ (\E d, s \in Cell : SetMem(d, s))
      PROVE  size'[b] = size[b]
  BY <1>3, <1>5 DEF CloseScope, SetMem
<1>6. ASSUME NEW D, NEW outs, Return(D, outs) PROVE size'[b] = size[b]
  BY <1>3, <1>6 DEF Return
<1>7. ASSUME NEW x \in Cell, DeclareMem(x) PROVE size'[b] = size[b]
  BY <1>7 DEF DeclareMem, heap
<1>8. ASSUME NEW P, NEW args, Call(P, args) PROVE size'[b] = size[b]
  BY <1>8 DEF Call, heap
<1>9. ASSUME UNCHANGED vars \/ OpenScope \/ \E n \in Sizes : Stop(n) PROVE size'[b] = size[b]
  BY <1>9 DEF vars, OpenScope, Stop, heap
<1>10. size'[b] = size[b]
  BY <1>1, <1>4, <1>5, <1>6, <1>7, <1>8, <1>9 DEF Next, FreeArray, NewArray
<1> QED
  BY <1>10 DEF b

LEMMA EarlierCallsKept ==
  ASSUME IInv, [Next]_vars, (NoDangling /\ NoFreedCounter)' PROVE CallersKept /\ ArgumentsKept
<1>1. ASSUME NEW c \in Cell, kind[c] \in Counting, frame[c] < frames, ref[c] # Null
      PROVE  /\ kind'[c] = kind[c] /\ ref'[c] = ref[c]
             /\ count'[ref[c]] # 0 /\ size'[ref[c]] = size[ref[c]]
  <2>1. kind'[c] = kind[c] /\ ref'[c] = ref[c]
    BY <1>1, CellKept
  <2>2. count'[ref[c]] # 0
    BY <1>1, <2>1 DEF NoDangling, NoFreedCounter
  <2> QED
    BY <1>1, <2>1, <2>2, MemoryKept
<1>2. ASSUME NEW p \in Cell, kind[p] = "param", ref[p] # Null
      PROVE  count'[ref[p]] # 0 /\ size'[ref[p]] = size[ref[p]]
  <2>1. PICK o \in Cell : kind[o] \in Counting /\ ref[o] = ref[p] /\ frame[o] < frame[p]
    BY <1>2 DEF IInv, Borrowed
  <2>2. frame[p] \in 1..frames /\ frames \in Nat /\ frame[o] \in Nat
    BY <1>2 DEF IInv, Placed, TypeOK
  <2>3. frame[o] < frames /\ ref[o] # Null
    BY <1>2, <2>1, <2>2
  <2> QED
    BY <1>1, <2>1, <2>3
<1> QED
  BY <1>1, <1>2 DEF CallersKept, ArgumentsKept

(* Whatever a function reassigns, allocates and returns, its arguments stay *)
(* allocated until it returns although they are not counted for it, and so  *)
(* does everything its callers and the host have (memblock_unref and        *)
(* memblock_set; GenericC.hs).                                              *)
THEOREM CalleesFreeOnlyTheirOwn == Spec => [][CallersKept /\ ArgumentsKept]_vars
<1>1. IInv /\ (NoDangling /\ NoFreedCounter)' /\ [Next]_vars => [CallersKept /\ ArgumentsKept]_vars
  BY EarlierCallsKept
<1> QED
  BY Invariance, NeverDangles, SetIsSafe, <1>1, PTL DEF Spec

-----------------------------------------------------------------------------
(* Induction.  The theorems of the library about it have an operator as a   *)
(* parameter; that a set of numbers has a least element follows from WFMin, *)
(* which has none, and is all that is needed.                               *)
Smaller == {p \in Nat \X Nat : p[1] < p[2]}

LEMMA SmallerWellFounded == IsWellFoundedOn(Smaller, Nat)
  BY NatLessThanWellFounded, Zenon DEF OpToRel, Smaller

LEMMA HasMinimal ==
  ASSUME NEW S, S \subseteq Nat, S # {}
  PROVE  \E x \in S : \A y \in S : ~ (<<y, x>> \in Smaller)
  BY SmallerWellFounded, WFMin, Zenon

(* A set of numbers with 0 and the successor of each of its elements.       *)
LEMMA NatInductionOnSet ==
  ASSUME NEW S, 0 \in S, \A n \in Nat : n \in S => n + 1 \in S
  PROVE  Nat \subseteq S
<1> DEFINE T == Nat \ S
<1>1. SUFFICES ASSUME T # {} PROVE FALSE
  OBVIOUS
<1>2. PICK x \in T : \A y \in T : ~ (<<y, x>> \in Smaller)
  BY <1>1, HasMinimal
<1>3. x \in Nat /\ x # 0
  OBVIOUS
<1>4. x - 1 \in Nat /\ x - 1 < x /\ (x - 1) + 1 = x
  BY <1>3
<1>5. <<x - 1, x>> \in Smaller
  BY <1>3, <1>4 DEF Smaller
<1>6. x - 1 \in S
  BY <1>2, <1>4, <1>5
<1> QED
  BY <1>4, <1>6

(* A set of n + 1 elements is not empty, and has n without one of them.      *)
LEMMA OneLess ==
  ASSUME NEW A, IsFiniteSet(A), NEW n \in Nat, Cardinality(A) = n + 1
  PROVE  /\ A # {}
         /\ \A x \in A : IsFiniteSet(A \ {x}) /\ Cardinality(A \ {x}) = n
<1>1. A # {}
  BY FS_EmptySet
<1>2. ASSUME NEW x \in A PROVE IsFiniteSet(A \ {x}) /\ Cardinality(A \ {x}) = n
  <2>1. IsFiniteSet(A \ {x}) /\ Cardinality(A \ {x}) = Cardinality(A) - 1
    BY FS_RemoveElement
  <2> QED
    BY <2>1
<1> QED
  BY <1>1, <1>2

(* A family of subsets of a finite set, with the empty one and closed under *)
(* adding an element.                                                       *)
LEMMA SubsetInduction ==
  ASSUME NEW S, IsFiniteSet(S), NEW Q, {} \in Q,
         \A A \in SUBSET S, x \in S : x \notin A /\ A \in Q => A \cup {x} \in Q
  PROVE  \A A \in SUBSET S : A \in Q
<1> DEFINE N == {n \in Nat : \A A \in SUBSET S : Cardinality(A) = n => A \in Q}
<1>1. \A A \in SUBSET S : IsFiniteSet(A) /\ Cardinality(A) \in Nat
  BY FS_Subset, FS_CardinalityType
<1>2. 0 \in N
  BY <1>1, FS_EmptySet
<1>3. ASSUME NEW n \in Nat, n \in N PROVE n + 1 \in N
  <2> SUFFICES ASSUME NEW A \in SUBSET S, Cardinality(A) = n + 1 PROVE A \in Q
    OBVIOUS
  <2>1. A # {} /\ \A x \in A : Cardinality(A \ {x}) = n
    BY <1>1, OneLess
  <2>2. PICK x \in A : TRUE
    BY <2>1
  <2>3. Cardinality(A \ {x}) = n
    BY <2>1
  <2>4. A \ {x} \in Q
    BY <1>3, <2>3
  <2>5. (A \ {x}) \cup {x} \in Q
    BY <2>2, <2>4
  <2>6. (A \ {x}) \cup {x} = A
    BY <2>2
  <2> QED
    BY <2>5, <2>6
<1> HIDE DEF N
<1>4. Nat \subseteq N
  BY <1>2, <1>3, NatInductionOnSet
<1> QED
  BY <1>1, <1>4 DEF N

-----------------------------------------------------------------------------
(* Sums.  SumFunctionOnSet is defined by a recursive function on subsets;   *)
(* "it" is one when it satisfies its equation.                              *)
Some(s) == CHOOSE x \in s : TRUE
IsSum(f, S, it) ==
  it = [s \in SUBSET S |-> IF s = {} THEN 0 ELSE f[Some(s)] + it[s \ {Some(s)}]]

LEMMA SumIs ==
  ASSUME NEW f, NEW S
  PROVE  SumFunctionOnSet(f, S) = (CHOOSE it : IsSum(f, S, it))[S]
  BY DEF SumFunctionOnSet, FoldFunctionOnSet, MapThenFoldSet, IsSum, Some

(* There is such a function: one that is right for the subsets of n         *)
(* elements gives one that is right for those of n + 1.                     *)
LEMMA SumExists ==
  ASSUME NEW f, NEW S, IsFiniteSet(S)
  PROVE  \E it : IsSum(f, S, it)
<1> DEFINE body(g, s) == IF s = {} THEN 0 ELSE f[Some(s)] + g[s \ {Some(s)}]
           over(g)    == [s \in SUBSET S |-> body(g, s)]
           right(g, n) == \A s \in SUBSET S : Cardinality(s) <= n => g[s] = body(g, s)
           N == {n \in Nat : \E g : right(g, n)}
<1>1. \A s \in SUBSET S : IsFiniteSet(s) /\ Cardinality(s) \in Nat
  BY FS_Subset, FS_CardinalityType
<1>2. ASSUME NEW s \in SUBSET S, s # {}
      PROVE  /\ Some(s) \in s /\ s \ {Some(s)} \in SUBSET S
             /\ Cardinality(s \ {Some(s)}) = Cardinality(s) - 1
  <2>1. Some(s) \in s
    BY <1>2 DEF Some
  <2> QED
    BY <1>1, <2>1, FS_RemoveElement
<1>3. ASSUME NEW g, NEW n \in Nat, right(g, n) PROVE right(over(g), n + 1)
  <2> SUFFICES ASSUME NEW s \in SUBSET S, Cardinality(s) <= n + 1
               PROVE  over(g)[s] = body(over(g), s)
    OBVIOUS
  <2>1. CASE s = {}
    BY <2>1
  <2>2. CASE s # {}
    <3> DEFINE r == s \ {Some(s)}
    <3>1. r \in SUBSET S /\ Cardinality(r) <= n
      BY <1>1, <1>2, <2>2
    <3>2. g[r] = body(g, r)
      BY <1>3, <3>1
    <3>3. over(g)[r] = body(g, r)
      BY <3>1
    <3>4. over(g)[s] = f[Some(s)] + g[r]
      BY <2>2
    <3> QED
      BY <2>2, <3>2, <3>3, <3>4
  <2> QED
    BY <2>1, <2>2
<1>4. 0 \in N
  <2> DEFINE zero == [s \in SUBSET S |-> 0]
  <2>1. \A s \in SUBSET S : Cardinality(s) <= 0 => s = {}
    BY <1>1, FS_EmptySet
  <2>2. right(zero, 0)
    BY <2>1
  <2> HIDE DEF zero
  <2>3. \E g : right(g, 0)
    BY <2>2
  <2> HIDE DEF right
  <2> QED
    BY <2>3
<1>5. ASSUME NEW n \in Nat, n \in N PROVE n + 1 \in N
  <2>1. PICK g : right(g, n)
    BY <1>5
  <2>2. right(over(g), n + 1)
    BY <1>3, <2>1
  <2> HIDE DEF over
  <2>3. \E h : right(h, n + 1)
    BY <2>2
  <2>4. n + 1 \in Nat
    OBVIOUS
  <2> HIDE DEF right
  <2> QED
    BY <2>3, <2>4
<1> HIDE DEF N
<1>6. Nat \subseteq N
  BY <1>4, <1>5, NatInductionOnSet
<1>7. PICK g : right(g, Cardinality(S))
  BY <1>1, <1>6 DEF N
<1>8. \A s \in SUBSET S : Cardinality(s) <= Cardinality(S)
  BY FS_Subset
<1>9. \A s \in SUBSET S : g[s] = body(g, s)
  BY <1>7, <1>8
<1>10. \A s \in SUBSET S : body(over(g), s) = body(g, s)
  <2> TAKE s \in SUBSET S
  <2>1. CASE s = {}
    BY <2>1
  <2>2. CASE s # {}
    BY <1>2, <1>9, <2>2
  <2> QED
    BY <2>1, <2>2
<1>11. IsSum(f, S, over(g))
  BY <1>10 DEF IsSum
<1> QED
  BY <1>11

(* Two such functions agree on what both are defined for.                   *)
LEMMA SumUnique ==
  ASSUME NEW f, NEW S, IsFiniteSet(S), NEW R \in SUBSET S,
         NEW it, IsSum(f, S, it), NEW jt, IsSum(f, R, jt)
  PROVE  it[R] = jt[R]
<1> DEFINE N == {n \in Nat : \A s \in SUBSET R : Cardinality(s) = n => it[s] = jt[s]}
<1>1. \A s \in SUBSET R : IsFiniteSet(s) /\ Cardinality(s) \in Nat /\ s \in SUBSET S
  BY FS_Subset, FS_CardinalityType
<1>2. \A s \in SUBSET R :
        /\ it[s] = IF s = {} THEN 0 ELSE f[Some(s)] + it[s \ {Some(s)}]
        /\ jt[s] = IF s = {} THEN 0 ELSE f[Some(s)] + jt[s \ {Some(s)}]
  BY <1>1 DEF IsSum
<1>3. 0 \in N
  BY <1>1, <1>2, FS_EmptySet
<1>4. ASSUME NEW n \in Nat, n \in N PROVE n + 1 \in N
  <2> SUFFICES ASSUME NEW s \in SUBSET R, Cardinality(s) = n + 1 PROVE it[s] = jt[s]
    OBVIOUS
  <2>1. IsFiniteSet(s) /\ s # {}
    BY <1>1, FS_EmptySet
  <2>2. Some(s) \in s
    BY <2>1 DEF Some
  <2>3. Cardinality(s \ {Some(s)}) = n /\ s \ {Some(s)} \in SUBSET R
    BY <2>1, <2>2, FS_RemoveElement
  <2>4. it[s \ {Some(s)}] = jt[s \ {Some(s)}]
    BY <1>4, <2>3
  <2> QED
    BY <1>2, <2>1, <2>4
<1> HIDE DEF N
<1>5. Nat \subseteq N
  BY <1>3, <1>4, NatInductionOnSet
<1> QED
  BY <1>1, <1>5 DEF N

(* The sum over a set is that over the rest and the element chosen.         *)
LEMMA SumUnfold ==
  ASSUME NEW f, NEW S, IsFiniteSet(S)
  PROVE  SumFunctionOnSet(f, S) =
           IF S = {} THEN 0
           ELSE f[Some(S)] + SumFunctionOnSet(f, S \ {Some(S)})
<1> DEFINE it == CHOOSE g : IsSum(f, S, g)
           R  == S \ {Some(S)}
           jt == CHOOSE g : IsSum(f, R, g)
<1>1. IsFiniteSet(R) /\ R \in SUBSET S
  BY FS_Subset
<1>2. IsSum(f, S, it)
  BY SumExists
<1>3. IsSum(f, R, jt)
  BY <1>1, SumExists
<1>4. SumFunctionOnSet(f, S) = it[S] /\ SumFunctionOnSet(f, R) = jt[R]
  BY SumIs
<1> HIDE DEF it, jt
<1>5. it[R] = jt[R]
  BY <1>1, <1>2, <1>3, SumUnique
<1>6. it[S] = IF S = {} THEN 0 ELSE f[Some(S)] + it[R]
  BY <1>2 DEF IsSum
<1> QED
  BY <1>4, <1>5, <1>6

(* Sums of integers are integers, ...                                       *)
LEMMA SumType ==
  ASSUME NEW S, IsFiniteSet(S), NEW f \in [S -> Int]
  PROVE  \A A \in SUBSET S : SumFunctionOnSet(f, A) \in Int
<1> DEFINE sum(A) == SumFunctionOnSet(f, A)
           N == {n \in Nat : \A A \in SUBSET S : Cardinality(A) = n => sum(A) \in Int}
<1>1. \A A \in SUBSET S : IsFiniteSet(A) /\ Cardinality(A) \in Nat
  BY FS_Subset, FS_CardinalityType
<1>2. \A A \in SUBSET S : sum(A) = IF A = {} THEN 0 ELSE f[Some(A)] + sum(A \ {Some(A)})
  BY <1>1, SumUnfold
<1> HIDE DEF sum
<1>3. 0 \in N
  BY <1>1, <1>2, FS_EmptySet
<1>4. ASSUME NEW n \in Nat, n \in N PROVE n + 1 \in N
  <2> SUFFICES ASSUME NEW A \in SUBSET S, Cardinality(A) = n + 1 PROVE sum(A) \in Int
    OBVIOUS
  <2>1. A # {} /\ \A x \in A : Cardinality(A \ {x}) = n
    BY <1>1, OneLess
  <2>2. Some(A) \in A
    BY <2>1 DEF Some
  <2>3. sum(A \ {Some(A)}) \in Int
    BY <1>4, <2>1, <2>2
  <2> QED
    BY <1>2, <2>1, <2>2, <2>3
<1> HIDE DEF N
<1>5. Nat \subseteq N
  BY <1>3, <1>4, NatInductionOnSet
<1> QED
  BY <1>1, <1>5 DEF N, sum

(* ... and every element may come first.                                    *)
LEMMA SumStep ==
  ASSUME NEW S, IsFiniteSet(S), NEW f \in [S -> Int]
  PROVE  \A A \in SUBSET S : \A x \in A :
           SumFunctionOnSet(f, A) = f[x] + SumFunctionOnSet(f, A \ {x})
<1> DEFINE sum(A) == SumFunctionOnSet(f, A)
           N == {n \in Nat : \A A \in SUBSET S : Cardinality(A) = n =>
                               \A x \in A : sum(A) = f[x] + sum(A \ {x})}
<1>1. \A A \in SUBSET S : IsFiniteSet(A) /\ Cardinality(A) \in Nat
  BY FS_Subset, FS_CardinalityType
<1>2. \A A \in SUBSET S : sum(A) = IF A = {} THEN 0 ELSE f[Some(A)] + sum(A \ {Some(A)})
  BY <1>1, SumUnfold
<1>3. \A A \in SUBSET S : sum(A) \in Int
  BY SumType
<1> HIDE DEF sum
<1>4. 0 \in N
  BY <1>1, FS_EmptySet
<1>5. ASSUME NEW n \in Nat, n \in N PROVE n + 1 \in N
  <2> SUFFICES ASSUME NEW A \in SUBSET S, Cardinality(A) = n + 1, NEW x \in A
               PROVE  sum(A) = f[x] + sum(A \ {x})
    OBVIOUS
  <2>1. A # {} /\ \A y \in A : Cardinality(A \ {y}) = n
    BY <1>1, OneLess
  <2>2. PICK c \in A : c = Some(A)
    BY <2>1 DEF Some
  <2>3. sum(A) = f[c] + sum(A \ {c})
    BY <1>2, <2>1, <2>2
  <2>4. CASE x = c
    BY <2>3, <2>4
  <2>5. CASE x # c
    <3> DEFINE rest == (A \ {x}) \ {c}
    <3>1. rest = (A \ {c}) \ {x} /\ rest \in SUBSET S /\ x \in A \ {c} /\ c \in A \ {x}
      BY <2>5
    <3>2. sum(A \ {c}) = f[x] + sum(rest)
      BY <1>5, <2>1, <3>1
    <3>3. sum(A \ {x}) = f[c] + sum(rest)
      BY <1>5, <2>1, <3>1
    <3>4. sum(rest) \in Int /\ f[x] \in Int /\ f[c] \in Int
      BY <1>3, <3>1
    <3> HIDE DEF rest
    <3> QED
      BY <2>3, <3>2, <3>3, <3>4
  <2> QED
    BY <2>4, <2>5
<1> HIDE DEF N
<1>6. Nat \subseteq N
  BY <1>4, <1>5, NatInductionOnSet
<1> QED
  BY <1>1, <1>6 DEF N, sum

(* Functions with the same values have the same sum.                        *)
LEMMA SumSame ==
  ASSUME NEW S, IsFiniteSet(S), NEW f \in [S -> Int], NEW g \in [S -> Int],
         NEW B \in SUBSET S, \A x \in B : f[x] = g[x]
  PROVE  SumFunctionOnSet(f, B) = SumFunctionOnSet(g, B)
<1> DEFINE Q == {A \in SUBSET B : SumFunctionOnSet(f, A) = SumFunctionOnSet(g, A)}
<1>1. IsFiniteSet(B)
  BY FS_Subset
<1>2. {} \in Q
  BY SumUnfold, FS_EmptySet
<1>3. ASSUME NEW A \in SUBSET B, NEW x \in B, x \notin A, A \in Q PROVE A \cup {x} \in Q
  <2>1. (A \cup {x}) \ {x} = A /\ A \cup {x} \in SUBSET S
    BY <1>3
  <2>2. /\ SumFunctionOnSet(f, A \cup {x}) = f[x] + SumFunctionOnSet(f, A)
        /\ SumFunctionOnSet(g, A \cup {x}) = g[x] + SumFunctionOnSet(g, A)
    BY <2>1, SumStep
  <2> QED
    BY <1>3, <2>2
<1> HIDE DEF Q
<1>4. B \in Q
  <2>1. \A A \in SUBSET B, x \in B : x \notin A /\ A \in Q => A \cup {x} \in Q
    BY <1>3
  <2>2. \A A \in SUBSET B : A \in Q
    BY <1>1, <1>2, <2>1, SubsetInduction, Zenon
  <2> QED
    BY <2>2
<1> QED
  BY <1>4 DEF Q

(* The sum over everything is that over a part and that over the rest.      *)
LEMMA SumSplit ==
  ASSUME NEW S, IsFiniteSet(S), NEW f \in [S -> Int], NEW F \in SUBSET S
  PROVE  SumFunctionOnSet(f, S) = SumFunctionOnSet(f, F) + SumFunctionOnSet(f, S \ F)
<1> DEFINE sum(A) == SumFunctionOnSet(f, A)
           Q == {A \in SUBSET F : sum(A \cup (S \ F)) = sum(A) + sum(S \ F)}
<1>1. IsFiniteSet(F)
  BY FS_Subset
<1>2. sum({}) = 0 /\ \A A \in SUBSET S : sum(A) \in Int
  BY SumUnfold, SumType, FS_EmptySet
<1>3. \A A \in SUBSET S : \A x \in A : sum(A) = f[x] + sum(A \ {x})
  BY SumStep
<1> HIDE DEF sum
<1>4. {} \in Q
  BY <1>2
<1>5. ASSUME NEW A \in SUBSET F, NEW x \in F, x \notin A, A \in Q PROVE A \cup {x} \in Q
  <2> DEFINE B == A \cup {x}
  <2>1. /\ B \ {x} = A /\ (B \cup (S \ F)) \ {x} = A \cup (S \ F)
        /\ B \in SUBSET S /\ B \cup (S \ F) \in SUBSET S /\ A \in SUBSET S
        /\ x \in B /\ x \in B \cup (S \ F)
    BY <1>5
  <2> HIDE DEF B
  <2>2. sum(B) = f[x] + sum(A) /\ sum(B \cup (S \ F)) = f[x] + sum(A \cup (S \ F))
    BY <1>3, <2>1
  <2>3. sum(A) \in Int /\ sum(S \ F) \in Int /\ f[x] \in Int
    BY <1>2, <2>1
  <2>4. sum(A \cup (S \ F)) = sum(A) + sum(S \ F)
    BY <1>5
  <2>5. sum(B \cup (S \ F)) = sum(B) + sum(S \ F)
    BY <2>2, <2>3, <2>4
  <2> QED
    BY <2>1, <2>5 DEF B
<1> HIDE DEF Q
<1>6. F \in Q
  <2>1. \A A \in SUBSET F, x \in F : x \notin A /\ A \in Q => A \cup {x} \in Q
    BY <1>5
  <2>2. \A A \in SUBSET F : A \in Q
    BY <1>1, <1>4, <2>1, SubsetInduction, Zenon
  <2> QED
    BY <2>2
<1>7. F \cup (S \ F) = S
  OBVIOUS
<1> QED
  BY <1>6, <1>7 DEF Q, sum

(* A function that is 0 has the sum 0.                                      *)
LEMMA SumZero ==
  ASSUME NEW S, IsFiniteSet(S), NEW f \in [S -> Int],
         NEW B \in SUBSET S, \A x \in B : f[x] = 0
  PROVE  SumFunctionOnSet(f, B) = 0
<1> DEFINE Q == {A \in SUBSET B : SumFunctionOnSet(f, A) = 0}
<1>1. IsFiniteSet(B)
  BY FS_Subset
<1>2. {} \in Q
  BY SumUnfold, FS_EmptySet
<1>3. ASSUME NEW A \in SUBSET B, NEW x \in B, x \notin A, A \in Q PROVE A \cup {x} \in Q
  <2>1. (A \cup {x}) \ {x} = A /\ A \cup {x} \in SUBSET S
    BY <1>3
  <2>2. SumFunctionOnSet(f, A \cup {x}) = f[x] + SumFunctionOnSet(f, A)
    BY <2>1, SumStep
  <2> QED
    BY <1>3, <2>2
<1> HIDE DEF Q
<1>4. B \in Q
  <2>1. \A A \in SUBSET B, x \in B : x \notin A /\ A \in Q => A \cup {x} \in Q
    BY <1>3
  <2>2. \A A \in SUBSET B : A \in Q
    BY <1>1, <1>2, <2>1, SubsetInduction, Zenon
  <2> QED
    BY <2>2
<1> QED
  BY <1>4 DEF Q

-----------------------------------------------------------------------------
(* The usage counter.  It is the sum of the sizes of all blocks because     *)
(* those that are not live have the size 0.                                 *)
FreeHasNoSize == \A b \in Block : count[b] = 0 => size[b] = 0
UsageInv == UsageExact /\ FreeHasNoSize

(* memblock_unref subtracts what it frees.                                  *)
LEMMA FreedIsSubtracted ==
  ASSUME TypeOK, UsageExact, NEW freed \in SUBSET Block,
         NEW left \in [Block -> Int],
         left = [b \in Block |-> IF b \in freed THEN 0 ELSE size[b]]
  PROVE  /\ SumFunction(left) = usage - SumFunctionOnSet(size, freed)
         /\ SumFunction(left) \in Int
<1>1. IsFiniteSet(Block) /\ size \in [Block -> Int]
  BY FiniteAssumption DEF TypeOK
<1>2. SumFunction(left) = SumFunctionOnSet(left, Block) /\ usage = SumFunctionOnSet(size, Block)
  BY <1>1 DEF SumFunction, UsageExact
<1>3. SumFunctionOnSet(left, Block)
        = SumFunctionOnSet(left, freed) + SumFunctionOnSet(left, Block \ freed)
  BY <1>1, SumSplit
<1>4. SumFunctionOnSet(size, Block)
        = SumFunctionOnSet(size, freed) + SumFunctionOnSet(size, Block \ freed)
  BY <1>1, SumSplit
<1>5. SumFunctionOnSet(left, freed) = 0
  BY <1>1, SumZero
<1>6. SumFunctionOnSet(left, Block \ freed) = SumFunctionOnSet(size, Block \ freed)
  BY <1>1, SumSame
<1>7. /\ SumFunctionOnSet(size, freed) \in Int /\ SumFunctionOnSet(size, Block \ freed) \in Int
      /\ SumFunctionOnSet(left, Block) \in Int
  BY <1>1, SumType
<1> QED
  BY <1>2, <1>3, <1>4, <1>5, <1>6, <1>7

LEMMA SetCountsUsage ==
  ASSUME TypeOK, UsageInv, NEW new \in [Block -> Int], SetCounts(new)
  PROVE  UsageInv'
<1> DEFINE freed == {b \in Block : count[b] # 0 /\ new[b] = 0}
<1>1. /\ count' = new
      /\ size' = [b \in Block |-> IF b \in freed THEN 0 ELSE size[b]]
      /\ usage' = usage - SumFunctionOnSet(size, freed)
  BY DEF SetCounts
<1>2. FreeHasNoSize'
  BY <1>1 DEF FreeHasNoSize, UsageInv
<1>3. freed \in SUBSET Block /\ size' \in [Block -> Int]
  BY <1>1 DEF TypeOK
<1> HIDE DEF freed
<1>4. usage' = SumFunction(size')
  BY <1>1, <1>3, FreedIsSubtracted DEF UsageInv
<1> QED
  BY <1>2, <1>4 DEF UsageInv, UsageExact

(* memblock_alloc adds the size of the block, which had none.               *)
LEMMA NewBlockUsage ==
  ASSUME TypeOK, UsageInv, NEW S \in SUBSET Cell, NEW b \in Block, NEW n \in Nat,
         NewBlock(S, b, n)
  PROVE  UsageInv'
<1> DEFINE left  == UnRef(S)
           freed == {a \in Block : count[a] # 0 /\ left[a] = 0}
           mid   == [a \in Block |-> IF a \in freed THEN 0 ELSE size[a]]
<1>1. /\ left[b] = 0
      /\ count' = [left EXCEPT ![b] = 1]
      /\ size' = [a \in Block |-> IF a = b THEN n
                                  ELSE IF a \in freed THEN 0 ELSE size[a]]
      /\ usage' = usage - SumFunctionOnSet(size, freed) + n
  BY DEF NewBlock
<1>2. left = [a \in Block |-> left[a]]
  BY DEF UnRef
<1> HIDE DEF left
<1>3. FreeHasNoSize'
  BY <1>1, <1>2 DEF FreeHasNoSize, UsageInv
<1>4. /\ IsFiniteSet(Block) /\ freed \in SUBSET Block
      /\ mid \in [Block -> Int] /\ size' \in [Block -> Int]
  BY <1>1, FiniteAssumption DEF TypeOK
<1>5. mid[b] = 0 /\ size'[b] = n /\ \A a \in Block \ {b} : size'[a] = mid[a]
  BY <1>1 DEF UsageInv, FreeHasNoSize
<1>6. SumFunction(mid) = usage - SumFunctionOnSet(size, freed) /\ SumFunction(mid) \in Int
  BY <1>4, FreedIsSubtracted DEF UsageInv
<1>7. SumFunction(mid) = SumFunctionOnSet(mid, Block)
      /\ SumFunction(size') = SumFunctionOnSet(size', Block)
  BY <1>1 DEF SumFunction
<1> HIDE DEF freed, mid
<1>8. /\ SumFunctionOnSet(mid, Block) = mid[b] + SumFunctionOnSet(mid, Block \ {b})
      /\ SumFunctionOnSet(size', Block) = size'[b] + SumFunctionOnSet(size', Block \ {b})
  BY <1>4, SumStep
<1>9. SumFunctionOnSet(size', Block \ {b}) = SumFunctionOnSet(mid, Block \ {b})
  BY <1>4, <1>5, SumSame
<1>10. SumFunctionOnSet(mid, Block \ {b}) \in Int
  BY <1>4, SumType
<1>11. usage' = SumFunction(size')
  BY <1>1, <1>5, <1>6, <1>7, <1>8, <1>9, <1>10
<1> QED
  BY <1>3, <1>11 DEF UsageInv, UsageExact

(* The counts after some references are given up are integers.              *)
LEMMA UnRefType ==
  ASSUME TypeOK, NEW S \in SUBSET Cell
  PROVE  UnRef(S) \in [Block -> Int]
<1>1. \A b \in Block : References(S, b) \in Nat
  BY CellsFinite, FS_CardinalityType DEF References
<1> QED
  BY <1>1 DEF UnRef, TypeOK

LEMMA NextKeepsUsage == IInv /\ UsageInv /\ [Next]_vars => UsageInv'
<1> SUFFICES ASSUME IInv, UsageInv, [Next]_vars PROVE UsageInv'
  OBVIOUS
<1>1. TypeOK
  BY DEF IInv
<1>2. ASSUME UNCHANGED heap PROVE UsageInv'
  BY <1>2 DEF heap, UsageInv, UsageExact, FreeHasNoSize
<1>3. ASSUME NEW c \in Cell, FreeArray(c) \/ DeclareMem(c) PROVE UsageInv'
  BY <1>1, <1>2, <1>3, UnRefType, SetCountsUsage DEF FreeArray, DeclareMem
<1>4. ASSUME NEW c \in Cell, NEW n \in Sizes, NewArray(c, n) \/ Allocate(c, n)
      PROVE  UsageInv'
  <2>1. n \in Nat
    BY <1>4, SizesAssumption DEF NewArray, Allocate
  <2>2. PICK S \in SUBSET Cell, b \in Block : NewBlock(S, b, n)
    BY <1>4 DEF NewArray, Allocate
  <2> QED
    BY <1>1, <2>1, <2>2, NewBlockUsage
<1>5. ASSUME NEW n \in Sizes, Stop(n) PROVE UsageInv'
  BY <1>2, <1>5 DEF Stop
<1>6. ASSUME NEW P \in SUBSET Free, NEW args \in [P -> Arguments], Call(P, args)
      PROVE  UsageInv'
  BY <1>2, <1>6 DEF Call
<1>7. CASE OpenScope
  BY <1>2, <1>7 DEF OpenScope
<1>8. CASE CloseScope
  <2>1. InScope \in SUBSET Cell
    BY DEF InScope, Locals
  <2> QED
    BY <1>1, <1>8, <2>1, UnRefType, SetCountsUsage DEF CloseScope
<1>9. ASSUME NEW d \in Cell, NEW s \in Cell, SetMem(d, s) PROVE UsageInv'
  <2> DEFINE left == UnRef({d})
             new  == [left EXCEPT ![ref[s]] = @ + 1]
  <2>1. left \in [Block -> Int]
    BY <1>1, UnRefType
  <2>2. SetCounts(new) /\ ref[s] \in Block
    BY <1>1, <1>9 DEF SetMem, TypeOK
  <2> HIDE DEF left
  <2>3. new \in [Block -> Int]
    BY <2>1, <2>2
  <2> HIDE DEF new
  <2> QED
    BY <1>1, <2>2, <2>3, SetCountsUsage
<1>10. ASSUME NEW D \in SUBSET Results,
              NEW outs \in [D -> {c \in Locals : ref[c] # Null}], Return(D, outs)
       PROVE  UsageInv'
  <2> DEFINE G(b) == {d \in D : ref[outs[d]] = b}
             new == [b \in Block |-> count[b] + Cardinality(G(b)) - References(Locals, b)]
  <2>1. D \in SUBSET Cell /\ Locals \in SUBSET Cell
    BY DEF Results, Free, Locals
  <2>2. \A b \in Block : Cardinality(G(b)) \in Nat /\ References(Locals, b) \in Nat
    BY <2>1, CellsFinite, FS_CardinalityType DEF References
  <2>3. new \in [Block -> Int]
    BY <1>1, <2>2 DEF TypeOK
  <2>4. SetCounts(new)
    BY <1>10 DEF Return, Resulting
  <2> HIDE DEF new
  <2> QED
    BY <1>1, <2>3, <2>4, SetCountsUsage
<1>11. CASE UNCHANGED vars
  BY <1>2, <1>11 DEF vars, heap
<1> QED
  BY <1>3, <1>4, <1>5, <1>6, <1>7, <1>8, <1>9, <1>10, <1>11 DEF Next

LEMMA InitUsage == Init => UsageInv
<1> SUFFICES ASSUME Init PROVE UsageInv
  OBVIOUS
<1>1. IsFiniteSet(Block) /\ size \in [Block -> Int] /\ DOMAIN size = Block
  BY FiniteAssumption DEF Init
<1>2. \A b \in Block : size[b] = 0
  BY DEF Init
<1>3. SumFunctionOnSet(size, Block) = 0
  BY <1>1, <1>2, SumZero
<1> QED
  BY <1>1, <1>2, <1>3 DEF Init, UsageInv, UsageExact, FreeHasNoSize, SumFunction

(* ctx->cur_mem_usage is what is allocated, after any sequence of           *)
(* allocations, copies of references, and calls.                            *)
THEOREM UsageIsExact == Spec => []UsageExact
<1>1. Spec => []UsageInv
  BY Invariance, InitUsage, NextKeepsUsage, PTL DEF Spec
<1>2. UsageInv => UsageExact
  BY DEF UsageInv
<1> QED
  BY <1>1, <1>2, PTL

=============================================================================
