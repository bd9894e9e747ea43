--------------------------- MODULE FreeList_proofs ---------------------------
(***************************************************************************)
(* FreeList keeps its invariants for every set of handles and tags, every  *)
(* size and every initial capacity.  IInv, the conjunction of the safety   *)
(* invariants, is inductive: that a buffer is neither lost nor handed out  *)
(* twice needs the list to hold at most one block for a tag and "used" to  *)
(* be the number of its valid slots, which in turn need nothing else.      *)
(***************************************************************************)
EXTENDS FreeList, FiniteSetTheorems, TLAPS

IInv ==
  /\ TypeOK
  /\ UsedCountsValid
  /\ OneBlockPerTag
  /\ NoAliasing
  /\ NoDanglingBuffer
  /\ NoLostBuffer
  /\ FitsRequest

-----------------------------------------------------------------------------
(* A request is rounded up to a size that is positive.                      *)
LEMMA SizePositive == Size \subseteq Nat \ {0}
  BY SizesAssumption DEF Size, MinSize

LEMMA MinSizeType == \A n \in Request : MinSize(n) \in Size
  BY DEF Size

(* The sizes a buffer for a request of n bytes may have.                    *)
LEMMA SizesThatFit ==
  ASSUME NEW n \in Request
  PROVE  /\ MinSize(n) \in MinSize(n)..(2 * MinSize(n))
         /\ \A s \in Size : Fits(s, MinSize(n)) => s \in MinSize(n)..(2 * MinSize(n))
<1>1. MinSize(n) \in Nat \ {0}
  BY SizePositive, MinSizeType
<1>2. \A s \in Size : s \in Nat
  BY SizePositive
<1> QED
  BY <1>1, <1>2 DEF Fits

(* With one block for a tag, free_list_find can match only the slot it      *)
(* returns.                                                                 *)
LEMMA FoundSlotUnique ==
  ASSUME OneBlockPerTag, NEW t \in Tag, TaggedSlots(t) # {}, capacity \in Nat
  PROVE  /\ FoundSlot(t) \in ValidSlots
         /\ entries[FoundSlot(t)].tag = t
         /\ TaggedSlots(t) = {FoundSlot(t)}
<1>1. PICK i \in TaggedSlots(t) : TRUE
  OBVIOUS
<1>2. \A j \in TaggedSlots(t) : i = j
  BY <1>1 DEF TaggedSlots, OneBlockPerTag, ValidSlots
<1>3. \A j \in TaggedSlots(t) : i <= j
  BY <1>1, <1>2 DEF TaggedSlots
<1>4. FoundSlot(t) \in TaggedSlots(t)
  BY <1>1, <1>3 DEF FoundSlot
<1> QED
  BY <1>2, <1>4 DEF TaggedSlots, ValidSlots

(* The valid slots of a list es with the present number of slots.           *)
ValidIn(es) == {i \in 1..capacity : Valid(es, i)}

LEMMA ValidInFinite ==
  ASSUME capacity \in Nat, NEW es
  PROVE  IsFiniteSet(ValidIn(es))
<1>1. IsFiniteSet(1..capacity)
  BY FS_Interval
<1> QED
  BY <1>1, FS_Subset DEF ValidIn

LEMMA ValidSlotsFinite ==
  ASSUME capacity \in Nat
  PROVE  IsFiniteSet(ValidSlots)
BY ValidInFinite DEF ValidIn, ValidSlots

(* Every valid slot survives free_list_pack when "used" counts them.        *)
LEMMA PackedAllValid ==
  ASSUME capacity \in Nat, used = Cardinality(ValidSlots)
  PROVE  Packed = ValidSlots
<1>1. IsFiniteSet(ValidSlots)
  BY ValidSlotsFinite
<1>2. ASSUME NEW i \in ValidSlots
      PROVE  Cardinality({j \in 1..i : Valid(entries, j)}) <= used
  <2>1. {j \in 1..i : Valid(entries, j)} \subseteq ValidSlots
    BY DEF ValidSlots
  <2> QED
    BY <1>1, <2>1, FS_Subset
<1> QED
  BY <1>2 DEF Packed, ValidSlots

-----------------------------------------------------------------------------
LEMMA InitIInv == Init => IInv
<1> SUFFICES ASSUME Init PROVE IInv
  OBVIOUS
<1>1. TypeOK
  BY CapacityAssumption DEF Init, TypeOK
<1>2. ValidSlots = {}
  BY DEF Init, ValidSlots, Valid, NoEntry
<1>3. Owned = {}
  BY DEF Init, Owned
<1> QED
  BY <1>1, <1>2, <1>3, FS_EmptySet
     DEF IInv, UsedCountsValid, OneBlockPerTag, NoAliasing, NoDanglingBuffer,
         NoLostBuffer, FitsRequest, Init, Cached
-----------------------------------------------------------------------------
(* A valid slot holds a buffer of a positive size.                          *)
LEMMA ValidSlotTypes ==
  ASSUME TypeOK, NEW i \in ValidSlots
  PROVE  /\ entries[i] \in Entry
         /\ entries[i].mem \in Mem
         /\ entries[i].size \in Size
         /\ entries[i].size # 0
<1>1. entries[i] \in Entry
  BY DEF ValidSlots, TypeOK, NoEntry, Valid
<1> QED
  BY <1>1, SizePositive DEF Entry

(* free_list_find empties one valid slot and leaves the others alone.       *)
LEMMA WithoutEffect ==
  ASSUME TypeOK, NEW i \in ValidSlots
  PROVE  /\ Without(i) \in [1..capacity -> Entry \cup {NoEntry}]
         /\ ValidIn(Without(i)) = ValidSlots \ {i}
         /\ \A j \in ValidSlots \ {i} : Without(i)[j] = entries[j]
         /\ Cardinality(ValidIn(Without(i))) = Cardinality(ValidSlots) - 1
<1>1. Without(i) \in [1..capacity -> Entry \cup {NoEntry}]
  BY DEF TypeOK, Without, ValidSlots
<1>2. \A j \in 1..capacity : Without(i)[j] = IF j = i THEN NoEntry ELSE entries[j]
  BY DEF TypeOK, Without
<1>3. ValidIn(Without(i)) = ValidSlots \ {i}
  BY <1>2 DEF ValidIn, ValidSlots, Valid, NoEntry
<1>4. Cardinality(ValidSlots \ {i}) = Cardinality(ValidSlots) - 1
  BY ValidSlotsFinite, FS_RemoveElement DEF TypeOK
<1> QED
  BY <1>1, <1>2, <1>3, <1>4 DEF ValidSlots

(* free_list_insert puts the block into a slot that was not valid, in the   *)
(* list as it is or in the doubled one, unless the list has no slots.       *)
LEMMA InsertEffect ==
  ASSUME TypeOK, status = "running",
         NEW es \in [1..capacity -> Entry \cup {NoEntry}], NEW e \in Entry,
         Insert(es, e)
  PROVE  \/ /\ status' = "undefined"
            /\ UNCHANGED <<entries, capacity>>
         \/ /\ status' = "running"
            /\ capacity' \in Nat
            /\ entries' \in [1..capacity' -> Entry \cup {NoEntry}]
            /\ Cardinality(ValidSlots') = Cardinality(ValidIn(es)) + 1
            /\ \E i : /\ i \notin ValidIn(es)
                      /\ ValidSlots' = ValidIn(es) \cup {i}
                      /\ entries'[i] = e
                      /\ \A j \in ValidIn(es) : entries'[j] = es[j]
<1>1. e.valid = TRUE /\ NoEntry.valid = FALSE
  BY DEF Entry, NoEntry
<1>2. capacity \in Nat
  BY DEF TypeOK
<1>3. ASSUME NEW i, i \notin ValidIn(es), ValidSlots' = ValidIn(es) \cup {i}
      PROVE  Cardinality(ValidSlots') = Cardinality(ValidIn(es)) + 1
  BY <1>2, <1>3, ValidInFinite, FS_AddElement
<1>4. CASE \E i \in InvalidSlots(es) :
             /\ entries' = [es EXCEPT ![i] = e]
             /\ UNCHANGED <<capacity, status>>
  <2>1. PICK i \in InvalidSlots(es) :
             /\ entries' = [es EXCEPT ![i] = e]
             /\ UNCHANGED <<capacity, status>>
    BY <1>4
  <2>2. /\ i \in 1..capacity /\ i \notin ValidIn(es)
        /\ entries'[i] = e
        /\ \A j \in 1..capacity : j # i => entries'[j] = es[j]
    BY <2>1 DEF InvalidSlots, ValidIn
  <2>3. ValidSlots' = ValidIn(es) \cup {i}
    BY <2>1, <2>2, <1>1 DEF ValidSlots, ValidIn, Valid
  <2>4. entries' \in [1..capacity' -> Entry \cup {NoEntry}]
    BY <2>1
  <2> QED
    BY <2>1, <2>2, <2>3, <2>4, <1>2, <1>3 DEF ValidIn
<1>5. CASE /\ InvalidSlots(es) = {}
           /\ capacity # 0
           /\ entries' = [i \in 1..(2 * capacity) |->
                            CASE i <= capacity     -> es[i]
                              [] i = capacity + 1  -> e
                              [] OTHER             -> NoEntry]
           /\ capacity' = 2 * capacity
           /\ UNCHANGED status
  <2>1. ValidIn(es) = 1..capacity
    BY <1>5 DEF InvalidSlots, ValidIn
  <2>2. \A i \in 1..(2 * capacity) :
          /\ i \in 1..capacity => entries'[i] = es[i]
          /\ i = capacity + 1 => entries'[i] = e
          /\ i > capacity + 1 => entries'[i] = NoEntry
    BY <1>2, <1>5
  <2>3. capacity' \in Nat /\ 1..capacity \subseteq 1..capacity'
    BY <1>2, <1>5
  <2>4. entries' \in [1..capacity' -> Entry \cup {NoEntry}]
    <3>1. \A i \in 1..(2 * capacity) :
            i \in 1..capacity \/ i = capacity + 1 \/ i > capacity + 1
      BY <1>2
    <3>2. \A i \in 1..(2 * capacity) : entries'[i] \in Entry \cup {NoEntry}
      BY <2>2, <3>1
    <3> QED
      BY <1>5, <3>2
  <2>5. ValidSlots' = 1..capacity \cup {capacity + 1}
    <3>1. capacity + 1 \in 1..(2 * capacity)
      BY <1>2, <1>5
    <3>2. \A i \in 1..(2 * capacity) :
            Valid(entries', i) <=> (i \in 1..capacity \/ i = capacity + 1)
      BY <1>1, <1>2, <2>1, <2>2 DEF Valid, ValidIn
    <3> QED
      BY <1>2, <1>5, <2>3, <3>1, <3>2 DEF ValidSlots
  <2>6. capacity + 1 \in 1..(2 * capacity) /\ capacity + 1 \notin 1..capacity
    BY <1>2, <1>5
  <2> QED
    BY <1>3, <1>5, <2>1, <2>2, <2>3, <2>4, <2>5, <2>6
<1>6. CASE capacity = 0 /\ status' = "undefined" /\ UNCHANGED <<entries, capacity>>
  BY <1>6
<1> QED
  BY <1>4, <1>5, <1>6 DEF Insert

-----------------------------------------------------------------------------
(* What both forms of opencl_free do: a block of a tag that the list es no  *)
(* longer caches is inserted into es, and the buffers es lost are released. *)
LEMMA FreePreserves ==
  ASSUME IInv, status = "running", NEW m \in Owned,
         NEW es \in [1..capacity -> Entry \cup {NoEntry}],
         ValidIn(es) \subseteq ValidSlots,
         \A i \in ValidIn(es) : es[i] = entries[i] /\ es[i].tag # owner[m],
         NEW evicted, evicted \cap {es[i].mem : i \in ValidIn(es)} = {},
         Cached \subseteq evicted \cup {es[i].mem : i \in ValidIn(es)},
         evicted \subseteq Cached,
         Insert(es, Block(m)),
         used' = Cardinality(ValidIn(es)) + 1,
         owner' = [owner EXCEPT ![m] = NoTag],
         asked' = [asked EXCEPT ![m] = 0],
         driver' = [x \in Mem |-> IF x \in evicted THEN 0 ELSE driver[x]]
  PROVE  IInv'
<1> DEFINE b == Block(m)
<1>1. TypeOK /\ m \in Mem /\ owner[m] \in Tag /\ driver[m] \in Size /\ capacity \in Nat
  BY DEF IInv, TypeOK, Owned, NoDanglingBuffer
<1>2. /\ b \in Entry
      /\ b.mem = m /\ b.tag = owner[m] /\ b.size = driver[m]
  BY <1>1 DEF Block, Entry
<1>3. Cardinality(ValidIn(es)) \in Nat
  BY <1>1, ValidInFinite, FS_CardinalityType
<1>4. /\ driver' \in [Mem -> Size \cup {0}]
      /\ owner' \in [Mem -> Tag \cup {NoTag}]
      /\ asked' \in [Mem -> Request \cup {0}]
      /\ used' \in Nat
  BY <1>1, <1>3 DEF TypeOK
<1>5. Owned' = Owned \ {m}
  BY <1>1, TagAssumption DEF Owned, TypeOK
<1>6. CASE status' = "undefined" /\ UNCHANGED <<entries, capacity>>
  <2>1. TypeOK'
    BY <1>1, <1>4, <1>6 DEF TypeOK
  <2>2. ValidSlots' = ValidSlots /\ Cached' = Cached
    BY <1>6 DEF ValidSlots, Cached
  <2> QED
    BY <1>5, <1>6, <2>1, <2>2
       DEF IInv, UsedCountsValid, OneBlockPerTag, NoAliasing, NoDanglingBuffer,
           NoLostBuffer, FitsRequest
<1>7. CASE /\ status' = "running"
           /\ capacity' \in Nat
           /\ entries' \in [1..capacity' -> Entry \cup {NoEntry}]
           /\ Cardinality(ValidSlots') = Cardinality(ValidIn(es)) + 1
           /\ \E i : /\ i \notin ValidIn(es)
                     /\ ValidSlots' = ValidIn(es) \cup {i}
                     /\ entries'[i] = b
                     /\ \A j \in ValidIn(es) : entries'[j] = es[j]
  <2>1. PICK i : /\ i \notin ValidIn(es)
                 /\ ValidSlots' = ValidIn(es) \cup {i}
                 /\ entries'[i] = b
                 /\ \A j \in ValidIn(es) : entries'[j] = entries[j]
    BY <1>7
  <2>2. TypeOK'
    BY <1>4, <1>7 DEF TypeOK
  <2>3. UsedCountsValid'
    BY <1>7 DEF UsedCountsValid
  <2>4. OneBlockPerTag'
    BY <2>1, <1>2 DEF IInv, OneBlockPerTag
  <2>5. \A j \in ValidIn(es) : entries[j].mem \in Mem /\ entries[j].mem # m
    <3>1. \A j \in ValidSlots : entries[j] \in Entry
      BY <1>1 DEF ValidSlots, TypeOK, NoEntry, Valid
    <3>2. \A j \in ValidSlots : entries[j].mem \in Mem
      BY <3>1 DEF Entry
    <3>3. \A j \in ValidSlots : entries[j].mem # m
      BY DEF IInv, NoAliasing, Cached
    <3> QED
      BY <3>2, <3>3
  <2>6. Cached' = {entries[j].mem : j \in ValidIn(es)} \cup {m}
    BY <2>1, <1>2 DEF Cached
  <2>7. {entries[j].mem : j \in ValidIn(es)} \subseteq Cached
    BY DEF Cached
  <2>8. NoAliasing'
    <3>1. Cached' \cap Owned' = {}
      BY <2>6, <2>7, <1>5 DEF IInv, NoAliasing
    <3>2. \A j, k \in ValidSlots' : entries'[j].mem = entries'[k].mem => j = k
      BY <2>1, <1>2, <2>5 DEF IInv, NoAliasing
    <3> QED
      BY <3>1, <3>2 DEF NoAliasing
  <2>9. m \notin evicted /\ evicted \cap Owned = {}
    BY DEF IInv, NoAliasing
  <2>10. NoDanglingBuffer'
    <3>1. \A x \in Owned' : driver'[x] # 0
      BY <1>5, <2>9 DEF IInv, NoDanglingBuffer, Owned
    <3>2. driver'[m] = driver[m]
      BY <1>1, <2>9
    <3>3. \A j \in ValidIn(es) : driver'[entries[j].mem] = entries[j].size
      BY <2>5 DEF IInv, NoDanglingBuffer
    <3>4. \A j \in ValidSlots' : driver'[entries'[j].mem] = entries'[j].size
      BY <2>1, <1>2, <3>2, <3>3
    <3> QED
      BY <3>1, <3>4 DEF NoDanglingBuffer
  <2>11. NoLostBuffer'
    <3>1. \A x \in Mem : driver'[x] # 0 => driver[x] # 0 /\ x \notin evicted
      OBVIOUS
    <3>2. {es[j].mem : j \in ValidIn(es)} = {entries[j].mem : j \in ValidIn(es)}
      OBVIOUS
    <3>3. \A x \in Mem : driver'[x] # 0 => x \in Owned \cup Cached
      BY <3>1 DEF IInv, NoLostBuffer
    <3>4. \A x \in Mem : driver'[x] # 0 => x \in Owned' \cup Cached'
      BY <3>1, <3>2, <3>3, <2>6, <1>5
    <3> QED
      BY <3>4 DEF NoLostBuffer
  <2>12. FitsRequest'
    <3>1. \A x \in Owned' : driver'[x] = driver[x] /\ asked'[x] = asked[x] /\ x \in Owned
      BY <1>1, <1>5, <2>9 DEF Owned, TypeOK
    <3> QED
      BY <3>1 DEF IInv, FitsRequest
  <2> QED
    BY <2>2, <2>3, <2>4, <2>8, <2>10, <2>11, <2>12 DEF IInv
<1> QED
  BY <1>1, <1>2, <1>6, <1>7, InsertEffect

LEMMA FreeFirstPreserves ==
  ASSUME IInv, NEW m \in Mem, FreeFirst(m)
  PROVE  IInv'
<1>1. /\ status = "running" /\ m \in Owned /\ TaggedSlots(owner[m]) = {}
      /\ Insert(entries, Block(m))
      /\ used' = used + 1
      /\ owner' = [owner EXCEPT ![m] = NoTag]
      /\ asked' = [asked EXCEPT ![m] = 0]
      /\ driver' = driver
  BY DEF FreeFirst, Owned
<1>2. entries \in [1..capacity -> Entry \cup {NoEntry}]
  BY DEF IInv, TypeOK
<1>3. ValidIn(entries) = ValidSlots
  BY DEF ValidIn, ValidSlots
<1>4. \A i \in ValidIn(entries) : entries[i].tag # owner[m]
  BY <1>1 DEF ValidIn, TaggedSlots
<1>5. driver' = [x \in Mem |-> IF x \in {} THEN 0 ELSE driver[x]]
  BY <1>1 DEF IInv, TypeOK
<1>6. used' = Cardinality(ValidIn(entries)) + 1
  BY <1>1, <1>3 DEF IInv, UsedCountsValid
<1>7. Cached = {entries[i].mem : i \in ValidIn(entries)}
  BY <1>3 DEF Cached
<1> QED
  BY <1>1, <1>2, <1>3, <1>4, <1>5, <1>6, <1>7, FreePreserves

LEMMA FreeReplacePreserves ==
  ASSUME IInv, NEW m \in Mem, FreeReplace(m)
  PROVE  IInv'
<1> DEFINE i  == FoundSlot(owner[m])
           es == Without(i)
<1>1. /\ status = "running" /\ m \in Owned /\ TaggedSlots(owner[m]) # {}
      /\ Insert(es, Block(m))
      /\ driver' = [driver EXCEPT ![entries[i].mem] = 0]
      /\ used' = used
      /\ owner' = [owner EXCEPT ![m] = NoTag]
      /\ asked' = [asked EXCEPT ![m] = 0]
  BY DEF FreeReplace, Owned
<1>2. TypeOK /\ owner[m] \in Tag /\ capacity \in Nat
  BY <1>1 DEF IInv, TypeOK, Owned
<1>3. /\ i \in ValidSlots
      /\ TaggedSlots(owner[m]) = {i}
  BY <1>1, <1>2, FoundSlotUnique DEF IInv
<1>4. /\ es \in [1..capacity -> Entry \cup {NoEntry}]
      /\ ValidIn(es) = ValidSlots \ {i}
      /\ \A j \in ValidIn(es) : es[j] = entries[j]
      /\ Cardinality(ValidIn(es)) = Cardinality(ValidSlots) - 1
  BY <1>2, <1>3, WithoutEffect
<1>5. \A j \in ValidIn(es) : es[j].tag # owner[m]
  BY <1>3, <1>4 DEF TaggedSlots, ValidSlots
<1>6. driver' = [x \in Mem |-> IF x \in {entries[i].mem} THEN 0 ELSE driver[x]]
  BY <1>1, <1>2 DEF TypeOK
<1>7. /\ used = Cardinality(ValidSlots)
      /\ Cardinality(ValidSlots) \in Nat
  BY <1>1, <1>2 DEF IInv, UsedCountsValid, TypeOK
<1>8. used' = Cardinality(ValidIn(es)) + 1
  BY <1>1, <1>4, <1>7
<1>9. /\ {entries[i].mem} \cap {es[j].mem : j \in ValidIn(es)} = {}
      /\ {entries[i].mem} \subseteq Cached
      /\ Cached \subseteq {entries[i].mem} \cup {es[j].mem : j \in ValidIn(es)}
  BY <1>3, <1>4 DEF IInv, NoAliasing, Cached
<1> HIDE DEF i, es
<1> QED
  BY <1>1, <1>4, <1>5, <1>6, <1>8, <1>9, FreePreserves

-----------------------------------------------------------------------------
(* What all forms of opencl_alloc do: the program gets a buffer m for tag t *)
(* that it did not hold and that the list does not keep; what the list lost *)
(* without giving it to the program is released.                            *)
LEMMA AllocPreserves ==
  ASSUME IInv, status = "running",
         NEW t \in Tag, NEW n \in Request, NEW m \in Mem \ Owned,
         entries' \in [1..capacity -> Entry \cup {NoEntry}],
         ValidSlots' \subseteq ValidSlots,
         \A i \in ValidSlots' : entries'[i] = entries[i],
         m \notin Cached',
         driver' \in [Mem -> Size \cup {0}],
         driver'[m] # 0, driver'[m] \in MinSize(n)..(2 * MinSize(n)),
         \A x \in Mem \ {m} :
           driver'[x] = IF x \in Cached \ Cached' THEN 0 ELSE driver[x],
         owner' = [owner EXCEPT ![m] = t],
         asked' = [asked EXCEPT ![m] = n],
         used' = Cardinality(ValidSlots'),
         UNCHANGED <<capacity, status>>
  PROVE  IInv'
<1>1. TypeOK /\ capacity \in Nat
  BY DEF IInv, TypeOK
<1>2. Cardinality(ValidSlots') \in Nat
  <2>1. IsFiniteSet(ValidSlots')
    BY <1>1, ValidSlotsFinite, FS_Subset
  <2> QED
    BY <2>1, FS_CardinalityType
<1>3. TypeOK'
  BY <1>1, <1>2 DEF TypeOK
<1>4. Cached' \subseteq Cached
  BY DEF Cached
<1>5. Owned' = Owned \cup {m}
  BY <1>1, TagAssumption DEF Owned, TypeOK
<1>6. UsedCountsValid' /\ OneBlockPerTag' /\ NoAliasing'
  BY <1>4, <1>5 DEF IInv, UsedCountsValid, OneBlockPerTag, NoAliasing
<1>7. Cached \cap Owned = {}
  BY DEF IInv, NoAliasing
<1>8. NoDanglingBuffer'
  <2>1. \A x \in Owned' : driver'[x] # 0
    BY <1>1, <1>5, <1>7 DEF IInv, NoDanglingBuffer, Owned
  <2>2. \A i \in ValidSlots : entries[i].mem \in Mem
    BY ValidSlotTypes DEF IInv
  <2>3. \A i \in ValidSlots' : driver'[entries'[i].mem] = entries'[i].size
    <3>1. \A i \in ValidSlots' : entries'[i].mem \in Cached' /\ entries'[i].mem # m
      BY DEF Cached
    <3> QED
      BY <2>2, <3>1 DEF IInv, NoDanglingBuffer
  <2> QED
    BY <2>1, <2>3 DEF NoDanglingBuffer
<1>9. NoLostBuffer'
  <2>1. \A x \in Mem \ {m} : driver'[x] # 0 => driver[x] # 0 /\ x \notin Cached \ Cached'
    OBVIOUS
  <2>2. \A x \in Mem : driver'[x] # 0 => x \in Owned' \cup Cached'
    BY <2>1, <1>4, <1>5 DEF IInv, NoLostBuffer
  <2> QED
    BY <2>2 DEF NoLostBuffer
<1>10. FitsRequest'
  <2>1. \A x \in Owned : driver'[x] = driver[x] /\ asked'[x] = asked[x]
    BY <1>1, <1>7 DEF Owned, TypeOK
  <2>2. asked'[m] = n
    BY <1>1 DEF TypeOK
  <2> QED
    BY <1>5, <2>1, <2>2 DEF IInv, FitsRequest
<1> QED
  BY <1>3, <1>6, <1>8, <1>9, <1>10 DEF IInv

LEMMA AllocNewPreserves ==
  ASSUME IInv, NEW t \in Tag, NEW n \in Request, AllocNew(t, n)
  PROVE  IInv'
<1>1. PICK m \in Mem : /\ driver[m] = 0
                       /\ driver' = [driver EXCEPT ![m] = MinSize(n)]
                       /\ owner' = [owner EXCEPT ![m] = t]
                       /\ asked' = [asked EXCEPT ![m] = n]
  BY DEF AllocNew, Create
<1>2. status = "running" /\ UNCHANGED <<entries, capacity, used, status>>
  BY DEF AllocNew
<1>3. TypeOK /\ m \notin Owned
  BY <1>1, <1>2 DEF IInv, NoDanglingBuffer
<1>4. ValidSlots' = ValidSlots /\ Cached' = Cached
  BY <1>2 DEF ValidSlots, Cached
<1>5. m \notin Cached
  BY <1>1, <1>2, <1>3, ValidSlotTypes DEF IInv, NoDanglingBuffer, Cached
<1>6. MinSize(n) \in Size /\ MinSize(n) # 0
  BY MinSizeType, SizePositive
<1>7. /\ driver' \in [Mem -> Size \cup {0}] /\ driver'[m] # 0
      /\ driver'[m] \in MinSize(n)..(2 * MinSize(n))
      /\ \A x \in Mem \ {m} : driver'[x] = driver[x]
  BY <1>1, <1>3, <1>6, SizesThatFit DEF TypeOK
<1>8. used' = Cardinality(ValidSlots')
  BY <1>2, <1>4 DEF IInv, UsedCountsValid
<1>9. entries' \in [1..capacity -> Entry \cup {NoEntry}]
  BY <1>2, <1>3 DEF TypeOK
<1> QED
  BY <1>1, <1>2, <1>3, <1>4, <1>5, <1>7, <1>8, <1>9, AllocPreserves

(* The slot free_list_find takes for an allocation, and the list after it.  *)
LEMMA TakenSlot ==
  ASSUME IInv, status = "running", NEW t \in Tag, TaggedSlots(t) # {},
         entries' = Without(FoundSlot(t)), used' = used - 1,
         UNCHANGED <<capacity, status>>
  PROVE  LET i  == FoundSlot(t)
         IN /\ i \in ValidSlots
            /\ entries[i].mem \in Cached \ Owned
            /\ driver[entries[i].mem] = entries[i].size
            /\ entries' \in [1..capacity -> Entry \cup {NoEntry}]
            /\ ValidSlots' \subseteq ValidSlots
            /\ \A j \in ValidSlots' : entries'[j] = entries[j]
            /\ Cached' = Cached \ {entries[i].mem}
            /\ used' = Cardinality(ValidSlots')
<1> DEFINE i == FoundSlot(t)
<1>1. TypeOK /\ capacity \in Nat /\ i \in ValidSlots
  BY FoundSlotUnique DEF IInv, TypeOK
<1>2. /\ entries' \in [1..capacity -> Entry \cup {NoEntry}]
      /\ ValidIn(entries') = ValidSlots \ {i}
      /\ \A j \in ValidSlots \ {i} : entries'[j] = entries[j]
      /\ Cardinality(ValidIn(entries')) = Cardinality(ValidSlots) - 1
  BY <1>1, WithoutEffect
<1>3. ValidSlots' = ValidIn(entries')
  BY DEF ValidSlots, ValidIn
<1>4. entries[i].mem \in Cached \ Owned /\ driver[entries[i].mem] = entries[i].size
  BY <1>1 DEF IInv, NoAliasing, NoDanglingBuffer, Cached
<1>5. Cached' = Cached \ {entries[i].mem}
  BY <1>1, <1>2, <1>3 DEF IInv, NoAliasing, Cached
<1>6. used' = Cardinality(ValidSlots')
  BY <1>2, <1>3 DEF IInv, UsedCountsValid
<1> QED
  BY <1>1, <1>2, <1>3, <1>4, <1>5, <1>6

LEMMA AllocReusePreserves ==
  ASSUME IInv, NEW t \in Tag, NEW n \in Request, AllocReuse(t, n)
  PROVE  IInv'
<1> DEFINE i == FoundSlot(t)
           m == entries[i].mem
<1>1. /\ status = "running" /\ TaggedSlots(t) # {}
      /\ Fits(entries[i].size, MinSize(n))
      /\ owner' = [owner EXCEPT ![m] = t]
      /\ asked' = [asked EXCEPT ![m] = n]
      /\ entries' = Without(i) /\ used' = used - 1
      /\ UNCHANGED <<capacity, driver, status>>
  BY DEF AllocReuse
<1>2. /\ i \in ValidSlots
      /\ m \in Cached \ Owned
      /\ driver[m] = entries[i].size
      /\ entries' \in [1..capacity -> Entry \cup {NoEntry}]
      /\ ValidSlots' \subseteq ValidSlots
      /\ \A j \in ValidSlots' : entries'[j] = entries[j]
      /\ Cached' = Cached \ {m}
      /\ used' = Cardinality(ValidSlots')
  BY <1>1, TakenSlot
<1>3. m \in Mem \ Owned /\ driver'[m] # 0 /\ driver'[m] \in Size
  BY <1>1, <1>2, ValidSlotTypes DEF IInv
<1>4. driver' \in [Mem -> Size \cup {0}]
  BY <1>1 DEF IInv, TypeOK
<1>5. \A x \in Mem \ {m} :
        driver'[x] = IF x \in Cached \ Cached' THEN 0 ELSE driver[x]
  BY <1>1, <1>2
<1>6. driver'[m] \in MinSize(n)..(2 * MinSize(n))
  BY <1>1, <1>2, <1>3, SizesThatFit
<1> HIDE DEF i, m
<1> QED
  BY <1>1, <1>2, <1>3, <1>4, <1>5, <1>6, AllocPreserves

LEMMA AllocReplacePreserves ==
  ASSUME IInv, NEW t \in Tag, NEW n \in Request, AllocReplace(t, n)
  PROVE  IInv'
<1> DEFINE i   == FoundSlot(t)
           old == entries[i].mem
           released == [driver EXCEPT ![old] = 0]
<1>1. /\ status = "running" /\ TaggedSlots(t) # {}
      /\ Create(t, n, released)
      /\ entries' = Without(i) /\ used' = used - 1
      /\ UNCHANGED <<capacity, status>>
  BY DEF AllocReplace
<1>2. PICK m \in Mem : /\ released[m] = 0
                       /\ driver' = [released EXCEPT ![m] = MinSize(n)]
                       /\ owner' = [owner EXCEPT ![m] = t]
                       /\ asked' = [asked EXCEPT ![m] = n]
  BY <1>1 DEF Create
<1>3. /\ i \in ValidSlots
      /\ old \in Cached \ Owned
      /\ entries' \in [1..capacity -> Entry \cup {NoEntry}]
      /\ ValidSlots' \subseteq ValidSlots
      /\ \A j \in ValidSlots' : entries'[j] = entries[j]
      /\ Cached' = Cached \ {old}
      /\ used' = Cardinality(ValidSlots')
  BY <1>1, TakenSlot
<1>4. TypeOK /\ old \in Mem
  BY <1>3, ValidSlotTypes DEF IInv
<1>5. m = old \/ driver[m] = 0
  BY <1>2, <1>4 DEF TypeOK
<1>6. m \notin Owned
  BY <1>1, <1>3, <1>5 DEF IInv, NoDanglingBuffer
<1>7. m \notin Cached'
  <2>1. \A x \in Cached : driver[x] # 0
    BY <1>1, <1>4, ValidSlotTypes DEF IInv, NoDanglingBuffer, Cached
  <2> QED
    BY <1>3, <1>5, <2>1
<1>8. MinSize(n) \in Size /\ MinSize(n) # 0
  BY MinSizeType, SizePositive
<1>9. /\ driver' \in [Mem -> Size \cup {0}] /\ driver'[m] # 0
      /\ driver'[m] \in MinSize(n)..(2 * MinSize(n))
      /\ \A x \in Mem \ {m} :
           driver'[x] = IF x \in Cached \ Cached' THEN 0 ELSE driver[x]
  BY <1>2, <1>3, <1>4, <1>8, SizesThatFit DEF TypeOK
<1> HIDE DEF i, old, released
<1> QED
  BY <1>1, <1>2, <1>3, <1>6, <1>7, <1>9, AllocPreserves

-----------------------------------------------------------------------------
LEMMA FreeAllPreserves ==
  ASSUME IInv, FreeAll
  PROVE  IInv'
<1>1. /\ status = "running" /\ TypeOK
      /\ driver' = [m \in Mem |-> IF \E i \in Packed : entries[i].mem = m
                                  THEN 0 ELSE driver[m]]
      /\ entries' = [i \in 1..used |-> NoEntry]
      /\ capacity' = used
      /\ used' = 0
      /\ UNCHANGED <<owner, asked, status>>
  BY DEF FreeAll, IInv
<1>2. Packed = ValidSlots
  BY <1>1, PackedAllValid DEF IInv, UsedCountsValid, TypeOK
<1>3. driver' = [m \in Mem |-> IF m \in Cached THEN 0 ELSE driver[m]]
  BY <1>1, <1>2 DEF Cached
<1>4. TypeOK'
  BY <1>1, <1>3 DEF TypeOK
<1>5. ValidSlots' = {} /\ Cached' = {} /\ Owned' = Owned
  BY <1>1 DEF ValidSlots, Valid, NoEntry, Cached, Owned
<1>6. UsedCountsValid'
  BY <1>1, <1>5, FS_EmptySet DEF UsedCountsValid
<1>7. OneBlockPerTag' /\ NoAliasing'
  BY <1>5 DEF OneBlockPerTag, NoAliasing
<1>8. NoDanglingBuffer' /\ NoLostBuffer'
  BY <1>1, <1>3, <1>5
     DEF IInv, NoAliasing, NoDanglingBuffer, NoLostBuffer, Owned
<1>9. FitsRequest'
  BY <1>1, <1>3, <1>5 DEF IInv, NoAliasing, FitsRequest, Owned
<1> QED
  BY <1>4, <1>6, <1>7, <1>8, <1>9 DEF IInv

LEMMA DriverFailsPreserves ==
  ASSUME IInv, DriverFails
  PROVE  IInv'
  BY DEF DriverFails, IInv, TypeOK, UsedCountsValid, OneBlockPerTag, NoAliasing,
         NoDanglingBuffer, NoLostBuffer, FitsRequest, Cached, Owned, ValidSlots

LEMMA StutterPreserves ==
  ASSUME IInv, UNCHANGED vars
  PROVE  IInv'
  BY DEF vars, IInv, TypeOK, UsedCountsValid, OneBlockPerTag, NoAliasing,
         NoDanglingBuffer, NoLostBuffer, FitsRequest, Cached, Owned, ValidSlots

LEMMA NextPreserves == IInv /\ [Next]_vars => IInv'
  BY AllocNewPreserves, AllocReusePreserves, AllocReplacePreserves,
     FreeFirstPreserves, FreeReplacePreserves, FreeAllPreserves,
     DriverFailsPreserves, StutterPreserves DEF Next

-----------------------------------------------------------------------------
(* The free list keeps its inductive invariant in every behaviour.          *)
THEOREM Invariance == Spec => []IInv
  BY InitIInv, NextPreserves, PTL DEF Spec

(* The variables keep their shapes (struct opencl_free_list).               *)
THEOREM TypeCorrect == Spec => []TypeOK
  BY Invariance, PTL DEF IInv

(* "Now p == l->used": what free_list_pack relies on always holds.          *)
THEOREM UsedIsExact == Spec => []UsedCountsValid
  BY Invariance, PTL DEF IInv

(* opencl_alloc never hands out a buffer that is in use, for any number of  *)
(* handles and tags.                                                        *)
THEOREM NeverAliased == Spec => []NoAliasing
  BY Invariance, PTL DEF IInv

(* No tag is cached twice.                                                  *)
THEOREM OnePerTag == Spec => []OneBlockPerTag
  BY Invariance, PTL DEF IInv

(* Neither the program nor the list ever holds a released buffer.           *)
THEOREM NeverDangling == Spec => []NoDanglingBuffer
  BY Invariance, PTL DEF IInv

(* A buffer in use always has room for what it was asked for with.          *)
THEOREM AlwaysFits == Spec => []FitsRequest
  BY Invariance, PTL DEF IInv

(* No device buffer is lost: as long as the process runs, each is held by   *)
(* the program or by the list.                                              *)
THEOREM NeverLost == Spec => []NoLostBuffer
  BY Invariance, PTL DEF IInv

(* What a step releases was cached, and what is cached is not held.         *)
LEMMA StepReleasesCached ==
  ASSUME IInv, Next, NEW m \in Mem, driver[m] # 0, driver'[m] = 0
  PROVE  m \notin Owned
<1>1. TypeOK /\ driver \in [Mem -> Size \cup {0}]
  BY DEF IInv, TypeOK
<1>2. Cached \cap Owned = {}
  BY DEF IInv, NoAliasing
<1>3. CASE \E t \in Tag, n \in Request : AllocNew(t, n)
  <2>1. PICK n \in Request, x \in Mem : driver' = [driver EXCEPT ![x] = MinSize(n)]
    BY <1>3 DEF AllocNew, Create
  <2> QED
    BY <1>1, <2>1, MinSizeType, SizePositive
<1>4. CASE \E t \in Tag, n \in Request : AllocReuse(t, n)
  BY <1>4 DEF AllocReuse
<1>5. CASE \E t \in Tag, n \in Request : AllocReplace(t, n)
  <2>1. PICK t \in Tag, n \in Request : AllocReplace(t, n)
    BY <1>5
  <2>2. PICK x \in Mem :
          driver' = [[driver EXCEPT ![entries[FoundSlot(t)].mem] = 0]
                       EXCEPT ![x] = MinSize(n)]
    BY <2>1 DEF AllocReplace, Create
  <2>3. m = entries[FoundSlot(t)].mem
    BY <1>1, <2>2, MinSizeType, SizePositive
  <2>4. TaggedSlots(t) # {}
    BY <2>1 DEF AllocReplace
  <2>5. FoundSlot(t) \in ValidSlots
    BY <1>1, <2>4, FoundSlotUnique DEF IInv, TypeOK
  <2> QED
    BY <1>2, <2>3, <2>5 DEF Cached
<1>6. CASE \E x \in Mem : FreeFirst(x)
  BY <1>6 DEF FreeFirst
<1>7. CASE \E x \in Mem : FreeReplace(x)
  <2>1. PICK x \in Mem : FreeReplace(x)
    BY <1>7
  <2>2. driver' = [driver EXCEPT ![entries[FoundSlot(owner[x])].mem] = 0]
    BY <2>1 DEF FreeReplace
  <2>3. m = entries[FoundSlot(owner[x])].mem
    BY <1>1, <2>2
  <2>4. TaggedSlots(owner[x]) # {} /\ owner[x] \in Tag
    BY <1>1, <2>1 DEF FreeReplace, TypeOK
  <2>5. FoundSlot(owner[x]) \in ValidSlots
    BY <1>1, <2>4, FoundSlotUnique DEF IInv, TypeOK
  <2> QED
    BY <1>2, <2>3, <2>5 DEF Cached
<1>8. CASE FreeAll
  <2>1. \E i \in Packed : entries[i].mem = m
    BY <1>1, <1>8 DEF FreeAll
  <2> QED
    BY <1>2, <2>1 DEF Packed, Cached, ValidSlots
<1>9. CASE DriverFails
  BY <1>9 DEF DriverFails
<1> QED
  BY <1>3, <1>4, <1>5, <1>6, <1>7, <1>8, <1>9 DEF Next

(* No eviction, misfit or cache clearing releases memory the program holds. *)
THEOREM NeverReleasedInUse == Spec => ReleaseOnlyUnheld
<1>1. IInv /\ [Next]_vars
        => [\A m \in Mem : driver[m] # 0 /\ driver'[m] = 0 => m \notin Owned]_vars
  BY StepReleasesCached
<1> QED
  BY <1>1, Invariance, PTL DEF Spec, ReleaseOnlyUnheld

-----------------------------------------------------------------------------
(* The block free_list_find would return for a tag is that of the only      *)
(* valid slot with the tag, now and after a step.                           *)
LEMMA SpareNow ==
  ASSUME IInv, NEW t \in Tag
  PROVE  /\ \A i \in ValidSlots : entries[i].tag = t => Spare(t) = entries[i].mem
         /\ (\A i \in ValidSlots : entries[i].tag # t) => Spare(t) = NoMem
         /\ TaggedSlots(t) # {} => Spare(t) = entries[FoundSlot(t)].mem
         /\ TaggedSlots(t) = {} => Spare(t) = NoMem
<1>1. TaggedSlots(t) = {i \in ValidSlots : entries[i].tag = t}
  BY DEF TaggedSlots, ValidSlots
<1>2. TaggedSlots(t) # {} => TaggedSlots(t) = {FoundSlot(t)}
  BY FoundSlotUnique DEF IInv, TypeOK
<1> QED
  BY <1>1, <1>2 DEF Spare

LEMMA SpareNext ==
  ASSUME IInv', NEW t \in Tag
  PROVE  /\ \A i \in ValidSlots' : entries'[i].tag = t => Spare(t)' = entries'[i].mem
         /\ (\A i \in ValidSlots' : entries'[i].tag # t) => Spare(t)' = NoMem
<1>1. TaggedSlots(t)' = {i \in ValidSlots' : entries'[i].tag = t}
  BY DEF TaggedSlots, ValidSlots
<1>2. ASSUME NEW i \in ValidSlots', entries'[i].tag = t
      PROVE  Spare(t)' = entries'[i].mem
  <2>1. TaggedSlots(t)' = {i}
    BY <1>1, <1>2 DEF IInv, OneBlockPerTag
  <2>2. i <= i
    BY <1>2 DEF ValidSlots, IInv, TypeOK
  <2>3. FoundSlot(t)' = i
    BY <2>1, <2>2 DEF FoundSlot
  <2> QED
    BY <2>1, <2>3 DEF Spare
<1> QED
  BY <1>1, <1>2 DEF Spare

(* A tag whose slot a step leaves alone keeps its spare buffer.             *)
LEMMA SpareKept ==
  ASSUME IInv, IInv', NEW t \in Tag,
         \A i \in ValidSlots : entries[i].tag = t =>
           i \in ValidSlots' /\ entries'[i] = entries[i],
         \A i \in ValidSlots' : entries'[i].tag = t =>
           i \in ValidSlots /\ entries'[i] = entries[i]
  PROVE  Spare(t)' = Spare(t)
<1>1. CASE \E i \in ValidSlots : entries[i].tag = t
  BY <1>1, SpareNow, SpareNext
<1>2. CASE \A i \in ValidSlots : entries[i].tag # t
  <2>1. \A i \in ValidSlots' : entries'[i].tag # t
    BY <1>2
  <2> QED
    BY <1>2, <2>1, SpareNow, SpareNext
<1> QED
  BY <1>1, <1>2

(* What DeviceAlloc calls a size and a fit is what the runtime does.        *)
LEMMA FitsAbstract ==
  ASSUME NEW n \in Request, NEW s \in Size
  PROVE  /\ Abstract!Wanted(n) = MinSize(n)
         /\ s \in Abstract!Wanted(n)..(2 * Abstract!Wanted(n)) <=> Fits(s, MinSize(n))
<1>1. Abstract!Wanted(n) = MinSize(n)
  BY DEF Abstract!Wanted, MinSize
<1>2. MinSize(n) \in Nat /\ s \in Nat
  BY SizePositive, MinSizeType
<1> QED
  BY <1>1, <1>2 DEF Fits

(* The cached buffer of a tag, as the allocator and as the list see it.     *)
LEMMA FoundIsSpare ==
  ASSUME IInv, status = "running", NEW t \in Tag, TaggedSlots(t) # {}
  PROVE  /\ Spare(t) = entries[FoundSlot(t)].mem
         /\ Spare(t) \in Mem /\ Spare(t) # NoMem
         /\ driver[Spare(t)] = entries[FoundSlot(t)].size
         /\ entries[FoundSlot(t)].size \in Size
         /\ FoundSlot(t) \in ValidSlots
         /\ entries[FoundSlot(t)].tag = t
<1>1. FoundSlot(t) \in ValidSlots /\ entries[FoundSlot(t)].tag = t
  BY FoundSlotUnique DEF IInv, TypeOK
<1> QED
  BY <1>1, SpareNow, ValidSlotTypes, MemAssumption DEF IInv, NoDanglingBuffer

(* When the slot of t is emptied and nothing else happens to the list, only *)
(* t loses its spare buffer.                                                *)
LEMMA SpareTaken ==
  ASSUME IInv, IInv', NEW t \in Tag,
         \/ TaggedSlots(t) = {} /\ UNCHANGED <<entries, capacity>>
         \/ /\ TaggedSlots(t) # {} /\ entries' = Without(FoundSlot(t))
            /\ UNCHANGED capacity
  PROVE  [s \in Tag |-> Spare(s)'] = [[s \in Tag |-> Spare(s)] EXCEPT ![t] = NoMem]
<1>1. CASE TaggedSlots(t) = {} /\ UNCHANGED <<entries, capacity>>
  <2>1. \A s \in Tag : Spare(s)' = Spare(s)
    BY <1>1 DEF Spare, TaggedSlots, FoundSlot
  <2>2. Spare(t) = NoMem
    BY <1>1 DEF Spare
  <2> QED
    BY <2>1, <2>2
<1>2. CASE /\ TaggedSlots(t) # {} /\ entries' = Without(FoundSlot(t))
           /\ UNCHANGED capacity
  <2> DEFINE i == FoundSlot(t)
  <2>1. i \in ValidSlots /\ entries[i].tag = t /\ TaggedSlots(t) = {i}
    BY <1>2, FoundSlotUnique DEF IInv, TypeOK
  <2>2. /\ ValidIn(entries') = ValidSlots \ {i}
        /\ \A j \in ValidSlots \ {i} : entries'[j] = entries[j]
    BY <1>2, <2>1, WithoutEffect DEF IInv
  <2>3. ValidSlots' = ValidSlots \ {i}
    BY <1>2, <2>2 DEF ValidSlots, ValidIn
  <2> HIDE DEF i
  <2>4. Spare(t)' = NoMem
    <3>1. \A j \in ValidSlots' : entries'[j].tag # t
      BY <2>1, <2>2, <2>3 DEF IInv, OneBlockPerTag
    <3> QED
      BY <3>1, SpareNext
  <2>5. \A s \in Tag : s # t => Spare(s)' = Spare(s)
    BY <2>1, <2>2, <2>3, SpareKept
  <2> QED
    BY <2>4, <2>5
<1> QED
  BY <1>1, <1>2

LEMMA AllocReuseImplements ==
  ASSUME IInv, IInv', NEW t \in Tag, NEW n \in Request, AllocReuse(t, n)
  PROVE  Abstract!Reuse(t, n)
<1>1. /\ status = "running" /\ TaggedSlots(t) # {}
      /\ Fits(entries[FoundSlot(t)].size, MinSize(n))
      /\ owner' = [owner EXCEPT ![entries[FoundSlot(t)].mem] = t]
      /\ asked' = [asked EXCEPT ![entries[FoundSlot(t)].mem] = n]
      /\ entries' = Without(FoundSlot(t))
      /\ UNCHANGED <<capacity, driver, status>>
  BY DEF AllocReuse
<1>2. /\ Spare(t) = entries[FoundSlot(t)].mem /\ Spare(t) # NoMem
      /\ driver[Spare(t)] = entries[FoundSlot(t)].size
      /\ entries[FoundSlot(t)].size \in Size
  BY <1>1, FoundIsSpare
<1>3. driver[Spare(t)] \in Abstract!Wanted(n)..(2 * Abstract!Wanted(n))
  BY <1>1, <1>2, FitsAbstract
<1>4. [s \in Tag |-> Spare(s)'] = [[s \in Tag |-> Spare(s)] EXCEPT ![t] = NoMem]
  BY <1>1, SpareTaken
<1>5. [s \in Tag |-> Spare(s)][t] = Spare(t)
  OBVIOUS
<1> QED
  BY <1>1, <1>2, <1>3, <1>4, <1>5 DEF Abstract!Reuse

(* The two forms of opencl_alloc that ask the driver.                       *)
LEMMA CreateImplements ==
  ASSUME IInv, IInv', NEW t \in Tag, NEW n \in Request,
         AllocNew(t, n) \/ AllocReplace(t, n)
  PROVE  Abstract!Create(t, n)
<1> DEFINE dropped == [m \in Mem |-> IF m = Spare(t) THEN 0 ELSE driver[m]]
<1>1. Abstract!Dropped(t) = dropped
  BY DEF Abstract!Dropped
<1>2. driver \in [Mem -> Size \cup {0}] /\ Abstract!Wanted(n) = MinSize(n)
  BY MinSizeType, FitsAbstract DEF IInv, TypeOK
<1>3. /\ [s \in Tag |-> Spare(s)'] = [[s \in Tag |-> Spare(s)] EXCEPT ![t] = NoMem]
      /\ status = "running" /\ status' = status
  BY SpareTaken DEF AllocNew, AllocReplace
<1>4. /\ Spare(t) = NoMem \/ driver[Spare(t)] \notin Abstract!Wanted(n)..(2 * Abstract!Wanted(n))
      /\ Create(t, n, dropped)
  <2>1. CASE AllocNew(t, n)
    <3>1. Spare(t) = NoMem
      BY <2>1 DEF AllocNew, Spare
    <3>2. dropped = driver
      BY <1>2, <3>1, MemAssumption
    <3> QED
      BY <2>1, <3>1, <3>2 DEF AllocNew
  <2>2. CASE AllocReplace(t, n)
    <3>1. /\ status = "running" /\ TaggedSlots(t) # {}
          /\ ~Fits(entries[FoundSlot(t)].size, MinSize(n))
          /\ Create(t, n, [driver EXCEPT ![entries[FoundSlot(t)].mem] = 0])
      BY <2>2 DEF AllocReplace
    <3>2. /\ Spare(t) = entries[FoundSlot(t)].mem
          /\ driver[Spare(t)] = entries[FoundSlot(t)].size
          /\ entries[FoundSlot(t)].size \in Size
      BY <3>1, FoundIsSpare
    <3>3. dropped = [driver EXCEPT ![entries[FoundSlot(t)].mem] = 0]
      BY <1>2, <3>2
    <3> QED
      BY <3>1, <3>2, <3>3, FitsAbstract
  <2> QED
    BY <2>1, <2>2
<1>5. [s \in Tag |-> Spare(s)][t] = Spare(t)
  OBVIOUS
<1> HIDE DEF dropped
<1> QED
  BY <1>1, <1>2, <1>3, <1>4, <1>5 DEF Abstract!Create, Create

(* Both forms of opencl_free: the list es without the evicted block, if     *)
(* there was one, gets the block of m, in a slot of its own.                *)
LEMMA FreeImplements ==
  ASSUME IInv, IInv', NEW m \in Mem, FreeFirst(m) \/ FreeReplace(m)
  PROVE  Abstract!GiveUp(m) \/ Abstract!GoDown
<1>0. PICK t \in Tag : t = owner[m]
  BY TagAssumption DEF FreeFirst, FreeReplace, IInv, TypeOK
<1> DEFINE i  == FoundSlot(t)
           es == IF TaggedSlots(t) = {} THEN entries ELSE Without(i)
<1>1. /\ status = "running" /\ owner[m] # NoTag
      /\ Insert(es, Block(m))
      /\ owner' = [owner EXCEPT ![m] = NoTag]
      /\ asked' = [asked EXCEPT ![m] = 0]
      /\ driver' = IF TaggedSlots(t) = {} THEN driver
                   ELSE [driver EXCEPT ![entries[i].mem] = 0]
  BY <1>0 DEF FreeFirst, FreeReplace
<1>2. /\ TypeOK /\ t \in Tag /\ capacity \in Nat
      /\ Block(m) \in Entry /\ Block(m).mem = m /\ Block(m).tag = t
  <2>1. TypeOK /\ t \in Tag /\ capacity \in Nat /\ driver[m] \in Size
    BY <1>1 DEF IInv, TypeOK, NoDanglingBuffer, Owned
  <2> QED
    BY <1>0, <2>1 DEF Block, Entry
<1>3. /\ es \in [1..capacity -> Entry \cup {NoEntry}]
      /\ ValidIn(es) \subseteq ValidSlots
      /\ \A j \in ValidIn(es) : es[j] = entries[j] /\ entries[j].tag # t
      /\ \A j \in ValidSlots : entries[j].tag # t => j \in ValidIn(es)
  <2>1. CASE TaggedSlots(t) = {}
    BY <1>2, <2>1 DEF ValidIn, ValidSlots, TaggedSlots, TypeOK
  <2>2. CASE TaggedSlots(t) # {}
    <3>1. i \in ValidSlots /\ entries[i].tag = t /\ TaggedSlots(t) = {i}
      BY <1>2, <2>2, FoundSlotUnique DEF IInv
    <3>2. /\ es \in [1..capacity -> Entry \cup {NoEntry}]
          /\ ValidIn(es) = ValidSlots \ {i}
          /\ \A j \in ValidIn(es) : es[j] = entries[j]
      BY <1>2, <2>2, <3>1, WithoutEffect
    <3>3. \A j \in ValidSlots \ {i} : entries[j].tag # t
      BY <3>1 DEF IInv, OneBlockPerTag
    <3> QED
      BY <3>1, <3>2, <3>3
  <2> QED
    BY <2>1, <2>2
<1>4. CASE status' = "undefined"
  BY <1>1, <1>4 DEF Abstract!GoDown
<1>5. CASE /\ status' = "running"
           /\ \E k : /\ k \notin ValidIn(es)
                     /\ ValidSlots' = ValidIn(es) \cup {k}
                     /\ entries'[k] = Block(m)
                     /\ \A j \in ValidIn(es) : entries'[j] = es[j]
  <2>1. PICK k : /\ k \notin ValidIn(es)
                 /\ ValidSlots' = ValidIn(es) \cup {k}
                 /\ entries'[k] = Block(m)
                 /\ \A j \in ValidIn(es) : entries'[j] = entries[j]
    BY <1>3, <1>5
  <2> HIDE DEF es
  <2>2. Spare(t)' = m
    BY <1>2, <2>1, SpareNext
  <2>3. \A s \in Tag : s # t => Spare(s)' = Spare(s)
    <3>1. TAKE s \in Tag
    <3>2. HAVE s # t
    <3>3. \A j \in ValidSlots : entries[j].tag = s =>
            j \in ValidSlots' /\ entries'[j] = entries[j]
      BY <1>3, <2>1, <3>2
    <3>4. \A j \in ValidSlots' : entries'[j].tag = s =>
            j \in ValidSlots /\ entries'[j] = entries[j]
      BY <1>2, <1>3, <2>1, <3>2
    <3> QED
      BY <3>3, <3>4, SpareKept
  <2>4. [s \in Tag |-> Spare(s)'] = [[s \in Tag |-> Spare(s)] EXCEPT ![t] = m]
    BY <2>2, <2>3
  <2>5. driver' = [x \in Mem |-> IF x = Spare(t) THEN 0 ELSE driver[x]]
    <3>1. CASE TaggedSlots(t) = {}
      BY <1>1, <1>2, <3>1, MemAssumption DEF Spare, TypeOK
    <3>2. CASE TaggedSlots(t) # {}
      BY <1>1, <1>2, <3>2, FoundIsSpare DEF TypeOK
    <3> QED
      BY <3>1, <3>2
  <2>6. driver' = Abstract!Dropped(t)
    BY <1>2, <2>5 DEF Abstract!Dropped
  <2> QED
    BY <1>0, <1>1, <1>5, <2>4, <2>6 DEF Abstract!GiveUp
<1> QED
  BY <1>1, <1>2, <1>3, <1>4, <1>5, InsertEffect

LEMMA FreeAllImplements ==
  ASSUME IInv, IInv', FreeAll
  PROVE  Abstract!Clear
<1>1. /\ status = "running"
      /\ driver' = [m \in Mem |-> IF \E i \in Packed : entries[i].mem = m
                                  THEN 0 ELSE driver[m]]
      /\ entries' = [i \in 1..used |-> NoEntry]
      /\ capacity' = used
      /\ UNCHANGED <<owner, asked, status>>
  BY DEF FreeAll
<1>2. Packed = ValidSlots
  BY <1>1, PackedAllValid DEF IInv, UsedCountsValid, TypeOK
<1>3. \A m \in Mem : (\E i \in Packed : entries[i].mem = m) <=> (\E t \in Tag : Spare(t) = m)
  <2> TAKE m \in Mem
  <2>1. ASSUME NEW i \in ValidSlots, entries[i].mem = m PROVE \E t \in Tag : Spare(t) = m
    <3>1. entries[i].tag \in Tag
      BY ValidSlotTypes DEF IInv, Entry
    <3> QED
      BY <2>1, <3>1, SpareNow
  <2>2. ASSUME NEW t \in Tag, Spare(t) = m PROVE \E i \in ValidSlots : entries[i].mem = m
    BY <1>1, <2>2, MemAssumption, SpareNow, FoundIsSpare
  <2> QED
    BY <1>2, <2>1, <2>2
<1>4. ValidSlots' = {}
  BY <1>1 DEF ValidSlots, Valid, NoEntry
<1>5. [t \in Tag |-> Spare(t)'] = [t \in Tag |-> NoMem]
  BY <1>4, SpareNext
<1>6. \A t \in Tag : [s \in Tag |-> Spare(s)][t] = Spare(t)
  OBVIOUS
<1>7. driver' = [m \in Mem |-> IF \E t \in Tag : [s \in Tag |-> Spare(s)][t] = m
                               THEN 0 ELSE driver[m]]
  BY <1>1, <1>3, <1>6
<1> QED
  BY <1>1, <1>5, <1>7 DEF Abstract!Clear

LEMMA StepImplements == IInv /\ IInv' /\ [Next]_vars => [Abstract!Next]_Abstract!vars
<1> SUFFICES ASSUME IInv, IInv', [Next]_vars PROVE [Abstract!Next]_Abstract!vars
  OBVIOUS
<1>1. ASSUME NEW t \in Tag, NEW n \in Request, AllocReuse(t, n) PROVE Abstract!Next
  BY <1>1, AllocReuseImplements DEF Abstract!Next
<1>2. ASSUME NEW t \in Tag, NEW n \in Request, AllocNew(t, n) \/ AllocReplace(t, n)
      PROVE  Abstract!Next
  BY <1>2, CreateImplements DEF Abstract!Next
<1>3. ASSUME NEW m \in Mem, FreeFirst(m) \/ FreeReplace(m) PROVE Abstract!Next
  BY <1>3, FreeImplements DEF Abstract!Next
<1>4. CASE FreeAll
  BY <1>4, FreeAllImplements DEF Abstract!Next
<1>5. CASE DriverFails
  BY <1>5 DEF DriverFails, Abstract!GoDown, Abstract!Next
<1>6. CASE UNCHANGED vars
  <2>1. \A t \in Tag : Spare(t)' = Spare(t)
    BY <1>6 DEF vars, Spare, FoundSlot, TaggedSlots, Valid
  <2> QED
    BY <1>6, <2>1 DEF vars, Abstract!vars
<1> QED
  BY <1>1, <1>2, <1>3, <1>4, <1>5, <1>6 DEF Next

LEMMA InitImplements == Init => Abstract!Init
<1> SUFFICES ASSUME Init PROVE Abstract!Init
  OBVIOUS
<1>1. \A t \in Tag : TaggedSlots(t) = {}
  BY DEF Init, TaggedSlots, Valid, NoEntry
<1>2. [t \in Tag |-> Spare(t)] = [t \in Tag |-> NoMem]
  BY <1>1 DEF Spare
<1> QED
  BY <1>2 DEF Init, Abstract!Init

(* opencl_alloc, opencl_free and opencl_free_all, with any list, are the    *)
(* allocator their callers are promised: a tag has at most one spare        *)
(* buffer, and an allocation takes it or a new one of the right size.       *)
THEOREM ListImplementsAlloc == Spec => ImplementsDeviceAlloc
<1>1. Spec => []IInv
  BY Invariance
<1> QED
  BY <1>1, InitImplements, StepImplements, PTL DEF Spec, ImplementsDeviceAlloc, Abstract!Spec

-----------------------------------------------------------------------------
(* What the counterexample to InsertInBounds needs: the caches are cleared  *)
(* while nothing is cached.                                                 *)
ClearsSomething == [][FreeAll => used # 0]_vars

(* The list has a slot, which doubling it needs.                            *)
HasSlots == status # "undefined" /\ capacity # 0

LEMMA KeepsSlots ==
  ASSUME IInv, HasSlots, [Next]_vars, [FreeAll => used # 0]_vars
  PROVE  HasSlots'
<1>1. capacity \in Nat /\ used \in Nat
  BY DEF IInv, TypeOK
<1>2. ASSUME NEW es, NEW e, Insert(es, e) PROVE HasSlots'
  BY <1>1, <1>2 DEF Insert, HasSlots
<1>3. CASE \E t \in Tag, n \in Request :
             AllocNew(t, n) \/ AllocReuse(t, n) \/ AllocReplace(t, n)
  BY <1>3 DEF AllocNew, AllocReuse, AllocReplace, HasSlots
<1>4. CASE \E m \in Mem : FreeFirst(m) \/ FreeReplace(m)
  BY <1>4, <1>2 DEF FreeFirst, FreeReplace
<1>5. CASE FreeAll
  <2>1. used # 0
    BY <1>5 DEF FreeAll, vars, HasSlots
  <2> QED
    BY <1>5, <2>1 DEF FreeAll, HasSlots
<1>6. CASE DriverFails
  BY <1>6 DEF DriverFails, HasSlots
<1>7. CASE UNCHANGED vars
  BY <1>7 DEF vars, HasSlots
<1> QED
  BY <1>3, <1>4, <1>5, <1>6, <1>7 DEF Next

(* InsertInBounds: a program that never clears an empty cache never writes  *)
(* outside the list, for all sizes of it and all orders of the calls; so    *)
(* that call is the only way to the undefined behaviour of opencl.h:125.    *)
THEOREM InBoundsUnlessEmptyCleared == Spec /\ ClearsSomething => []InsertInBounds
<1>1. Init => HasSlots
  BY CapacityAssumption DEF Init, HasSlots
<1>2. IInv /\ HasSlots /\ [Next]_vars /\ [FreeAll => used # 0]_vars => HasSlots'
  BY KeepsSlots
<1>3. HasSlots => InsertInBounds
  BY DEF HasSlots, InsertInBounds
<1> QED
  BY <1>1, <1>2, <1>3, Invariance, PTL DEF Spec, ClearsSomething
=============================================================================
