------------------------------ MODULE FreeList ------------------------------
(***************************************************************************)
(* The free list of the OpenCL runtime (rts/c/opencl.h): device buffers    *)
(* that the program has released are kept, at most one for every tag, and  *)
(* handed out again by a later allocation with the same tag when their     *)
(* size fits.                                                              *)
(*                                                                         *)
(* The runtime clears the "valid" byte of a slot it empties and never      *)
(* looks at the rest of that slot again, so here an invalid slot is the    *)
(* one value NoEntry.                                                      *)
(*                                                                         *)
(* The driver (clCreateBuffer, clReleaseMemObject, clGetMemObjectInfo) is  *)
(* external: a buffer exists or it does not, and has the size it was       *)
(* created with.  A driver call may fail; the generated code wraps every   *)
(* call in OPENCL_SUCCEED, which ends the process.                         *)
(***************************************************************************)
EXTENDS Integers, FiniteSets

CONSTANTS
  Mem,          (* the cl_mem handles the driver can hand out               *)
  Tag,          (* the tags: one string constant per allocation site        *)
  NoTag,        (* stands for "not held by the program"                     *)
  NoMem,        (* stands for "no block is cached"                          *)
  Request,      (* the sizes in bytes that programs ask for                 *)
  IntSize,      (* sizeof(int): no buffer is smaller than this              *)
  InitCapacity  (* slots of a new list (30 in the source)                   *)

ASSUME TagAssumption == NoTag \notin Tag
ASSUME MemAssumption == NoMem \notin Mem
ASSUME SizesAssumption == Request \subseteq Nat /\ IntSize \in Nat \ {0}
ASSUME CapacityAssumption == InitCapacity \in Nat \ {0}

VARIABLES
  entries,   (* l->entries, slots 1..capacity                               *)
  capacity,  (* l->capacity                                                 *)
  used,      (* l->used                                                     *)
  driver,    (* the size of every existing buffer, 0 for the others         *)
  owner,     (* the tag of every buffer the program holds, NoTag if it does *)
             (* not hold it                                                 *)
  asked,     (* the size every held buffer was asked for with (block->size) *)
  status     (* "running"; "panicked" once OPENCL_SUCCEED has ended the     *)
             (* process; "undefined" once a slot outside the list has been  *)
             (* written, after which C promises nothing                     *)

vars == <<entries, capacity, used, driver, owner, asked, status>>

(* Mutant of MinSize: small requests are not rounded up.                    *)
NoMinSize(n) == n

(* Requests smaller than an int are rounded up to one.                     *)
MinSize(n) == IF n < IntSize THEN IntSize ELSE n
Size       == {MinSize(n) : n \in Request}

NoEntry == [valid |-> FALSE]
Entry   == [valid : {TRUE}, mem : Mem, tag : Tag, size : Size]

Valid(es, i) == es[i].valid

(* Mutant of Fits: only the lower bound is checked.                         *)
FitsWithoutUpperBound(size, min) == size >= min

(* "Is it big enough, but not too big?"                                    *)
Fits(size, min) == size >= min /\ size <= min * 2

-----------------------------------------------------------------------------
(* The slots free_list_find can match for a tag, and the one it stops at.   *)
TaggedSlots(t) == {i \in 1..capacity : Valid(entries, i) /\ entries[i].tag = t}
FoundSlot(t)   == CHOOSE i \in TaggedSlots(t) :
                    \A j \in TaggedSlots(t) : i <= j

(* Mutant of Without: the slot taken stays valid.                           *)
WithoutNothing(i) == entries

(* free_list_find clears the slot it returns; the list without slot i.      *)
Without(i) == [entries EXCEPT ![i] = NoEntry]

(* The slots of es that free_list_find_invalid can stop at.                 *)
InvalidSlots(es) == {i \in 1..capacity : ~Valid(es, i)}

(* free_list_insert into the list es: the first invalid slot is taken, and  *)
(* a full list is doubled first.  Doubling a list without any slots leaves  *)
(* it without slots, and the write that follows is out of bounds.           *)
Insert(es, e) ==
  \/ \E i \in InvalidSlots(es) :
       /\ \A j \in InvalidSlots(es) : i <= j
       /\ entries' = [es EXCEPT ![i] = e]
       /\ UNCHANGED <<capacity, status>>
  \/ /\ InvalidSlots(es) = {}
     /\ capacity # 0
     /\ entries' = [i \in 1..(2 * capacity) |->
                      CASE i <= capacity     -> es[i]
                        [] i = capacity + 1  -> e
                        [] OTHER             -> NoEntry]
     /\ capacity' = 2 * capacity
     /\ UNCHANGED status
  \/ /\ capacity = 0
     /\ status' = "undefined"
     /\ UNCHANGED <<entries, capacity>>

(* Mutant of Packed: the array is cut one slot too short.                   *)
PackedTooShort == {i \in 1..capacity :
  /\ Valid(entries, i)
  /\ Cardinality({j \in 1..i : Valid(entries, j)}) < used}

(* The slots free_list_first returns, one after the other, once             *)
(* free_list_pack has moved the valid slots to the front and cut the array  *)
(* to "used" slots.                                                         *)
Packed == {i \in 1..capacity :
             /\ Valid(entries, i)
             /\ Cardinality({j \in 1..i : Valid(entries, j)}) <= used}

-----------------------------------------------------------------------------
(* clCreateBuffer hands the program a buffer for a request of n bytes with  *)
(* tag t; released is the state of the driver before it.                    *)
Create(t, n, released) ==
  \E m \in Mem :
    /\ released[m] = 0
    /\ driver' = [released EXCEPT ![m] = MinSize(n)]
    /\ owner' = [owner EXCEPT ![m] = t]
    /\ asked' = [asked EXCEPT ![m] = n]

Init ==
  /\ capacity = InitCapacity
  /\ entries = [i \in 1..InitCapacity |-> NoEntry]
  /\ used = 0
  /\ driver = [m \in Mem |-> 0]
  /\ owner = [m \in Mem |-> NoTag]
  /\ asked = [m \in Mem |-> 0]
  /\ status = "running"

(* opencl_alloc when no block with the tag is cached: a new buffer.         *)
AllocNew(t, n) ==
  /\ status = "running"
  /\ TaggedSlots(t) = {}
  /\ Create(t, n, driver)
  /\ UNCHANGED <<entries, capacity, used, status>>

(* opencl_alloc when the cached block with the tag fits: it is reused.      *)
AllocReuse(t, n) ==
  /\ status = "running"
  /\ TaggedSlots(t) # {}
  /\ LET e == entries[FoundSlot(t)]
     IN /\ Fits(e.size, MinSize(n))
        /\ owner' = [owner EXCEPT ![e.mem] = t]
        /\ asked' = [asked EXCEPT ![e.mem] = n]
  /\ entries' = Without(FoundSlot(t))
  /\ used' = used - 1
  /\ UNCHANGED <<capacity, driver, status>>

(* Mutant of AllocReplace: the block released stays in the list.            *)
AllocReplaceKeepsSlot(t, n) ==
  /\ status = "running"
  /\ TaggedSlots(t) # {}
  /\ LET e == entries[FoundSlot(t)]
     IN /\ ~Fits(e.size, MinSize(n))
        /\ Create(t, n, [driver EXCEPT ![e.mem] = 0])
  /\ UNCHANGED <<entries, used, capacity, status>>

(* opencl_alloc when the cached block with the tag does not fit: it is      *)
(* released and a new buffer created, which may get the same handle.        *)
AllocReplace(t, n) ==
  /\ status = "running"
  /\ TaggedSlots(t) # {}
  /\ LET e == entries[FoundSlot(t)]
     IN /\ ~Fits(e.size, MinSize(n))
        /\ Create(t, n, [driver EXCEPT ![e.mem] = 0])
  /\ entries' = Without(FoundSlot(t))
  /\ used' = used - 1
  /\ UNCHANGED <<capacity, status>>

(* The slot contents opencl_free inserts for the buffer m.                  *)
Block(m) == [valid |-> TRUE, mem |-> m, tag |-> owner[m], size |-> driver[m]]

(* Mutant of FreeFirst: opencl_free inserts without looking for a block     *)
(* with the same tag.                                                       *)
FreeWithoutEviction(m) ==
  /\ status = "running"
  /\ owner[m] # NoTag
  /\ Insert(entries, Block(m))
  /\ used' = used + 1
  /\ owner' = [owner EXCEPT ![m] = NoTag]
  /\ asked' = [asked EXCEPT ![m] = 0]
  /\ UNCHANGED driver

(* opencl_free when no block with the tag is cached.                        *)
FreeFirst(m) ==
  /\ status = "running"
  /\ owner[m] # NoTag
  /\ TaggedSlots(owner[m]) = {}
  /\ Insert(entries, Block(m))
  /\ used' = used + 1
  /\ owner' = [owner EXCEPT ![m] = NoTag]
  /\ asked' = [asked EXCEPT ![m] = 0]
  /\ UNCHANGED driver

(* opencl_free when a block with the tag is cached: that one is released    *)
(* and this one inserted, in the first invalid slot.                        *)
FreeReplace(m) ==
  /\ status = "running"
  /\ owner[m] # NoTag
  /\ TaggedSlots(owner[m]) # {}
  /\ LET i == FoundSlot(owner[m])
     IN /\ Insert(Without(i), Block(m))
        /\ driver' = [driver EXCEPT ![entries[i].mem] = 0]
  /\ owner' = [owner EXCEPT ![m] = NoTag]
  /\ asked' = [asked EXCEPT ![m] = 0]
  /\ UNCHANGED used

(* opencl_free_all: the list is packed, which leaves it as many slots as    *)
(* it had blocks, and every block is released.                              *)
FreeAll ==
  /\ status = "running"
  /\ driver' = [m \in Mem |-> IF \E i \in Packed : entries[i].mem = m
                              THEN 0 ELSE driver[m]]
  /\ entries' = [i \in 1..used |-> NoEntry]
  /\ capacity' = used
  /\ used' = 0
  /\ UNCHANGED <<owner, asked, status>>

(* A driver call fails and OPENCL_SUCCEED ends the process: what the list   *)
(* held at that moment is never looked at again.                            *)
DriverFails ==
  /\ status = "running"
  /\ status' = "panicked"
  /\ UNCHANGED <<entries, capacity, used, driver, owner, asked>>

Next ==
  \/ \E t \in Tag, n \in Request :
       AllocNew(t, n) \/ AllocReuse(t, n) \/ AllocReplace(t, n)
  \/ \E m \in Mem : FreeFirst(m) \/ FreeReplace(m)
  \/ FreeAll
  \/ DriverFails

Spec == Init /\ [][Next]_vars

-----------------------------------------------------------------------------
ValidSlots == {i \in 1..capacity : Valid(entries, i)}
Cached     == {entries[i].mem : i \in ValidSlots}
Owned      == {m \in Mem : owner[m] # NoTag}

(* The shapes of the variables.                                             *)
TypeOK ==
  /\ capacity \in Nat
  /\ entries \in [1..capacity -> Entry \cup {NoEntry}]
  /\ used \in Nat
  /\ driver \in [Mem -> Size \cup {0}]
  /\ owner \in [Mem -> Tag \cup {NoTag}]
  /\ asked \in [Mem -> Request \cup {0}]
  /\ status \in {"running", "panicked", "undefined"}

(* "used" is the number of valid slots: free_list_pack cuts the array to    *)
(* "used" slots ("Now p == l->used") and would otherwise lose blocks or     *)
(* keep emptied slots.                                                      *)
UsedCountsValid == status = "running" => used = Cardinality(ValidSlots)

(* No tag is cached twice, whatever the order of allocations and frees:     *)
(* opencl_free evicts, opencl_alloc takes out.                              *)
OneBlockPerTag ==
  \A i, j \in ValidSlots : entries[i].tag = entries[j].tag => i = j

(* A buffer the program holds is never also in the free list, and no buffer *)
(* is in the list twice, so that no allocation hands out memory in use.     *)
NoAliasing ==
  /\ Cached \cap Owned = {}
  /\ \A i, j \in ValidSlots : entries[i].mem = entries[j].mem => i = j

(* Every buffer the program holds or the list keeps exists in the driver,   *)
(* and the list knows its size: nothing is used after its release.          *)
NoDanglingBuffer ==
  status = "running" =>
    /\ \A m \in Owned : driver[m] # 0
    /\ \A i \in ValidSlots : driver[entries[i].mem] = entries[i].size

(* A buffer that exists is held by the program or kept in the list: the     *)
(* runtime never loses the last handle to device memory.                    *)
NoLostBuffer ==
  status = "running" =>
    {m \in Mem : driver[m] # 0} \subseteq Owned \cup Cached

(* A buffer in use has room for what was asked for, and a reused one is at  *)
(* most twice as large; evictions and reuse of other buffers do not matter. *)
FitsRequest ==
  status = "running" =>
    \A m \in Owned : driver[m] \in MinSize(asked[m])..(2 * MinSize(asked[m]))

(* The slot free_list_insert writes is inside the list: "Now 'i' points to  *)
(* the first invalid entry" (opencl.h:132).                                 *)
InsertInBounds == status # "undefined"

(* What DeviceAlloc calls the spare buffer of a tag is the block that       *)
(* free_list_find would return for it.                                      *)
Spare(t) == IF TaggedSlots(t) = {} THEN NoMem ELSE entries[FoundSlot(t)].mem

Abstract == INSTANCE DeviceAlloc WITH
  spare  <- [t \in Tag |-> Spare(t)],
  holder <- owner,
  size   <- driver,
  mode   <- IF status = "running" THEN "up" ELSE "down"

(* opencl_alloc, opencl_free and opencl_free_all over the free list behave  *)
(* as the allocator DeviceAlloc promises.                                   *)
ImplementsDeviceAlloc == Abstract!Spec

(* The driver releases a buffer only when the program does not hold it: no  *)
(* eviction, misfit or cache clearing takes memory away from its user.      *)
ReleaseOnlyUnheld ==
  [][\A m \in Mem : driver[m] # 0 /\ driver'[m] = 0 => m \notin Owned]_vars

=============================================================================
