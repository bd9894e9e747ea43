----------------------------- MODULE DeviceAlloc -----------------------------
(***************************************************************************)
(* What the device memory allocator of the OpenCL runtime promises its     *)
(* caller, without the list that implements it (rts/c/opencl.h,            *)
(* opencl_alloc, opencl_free and opencl_free_all): every tag has at most   *)
(* one spare buffer; an allocation either takes the spare one of its tag,  *)
(* which is then at least as large as asked for and at most twice that,    *)
(* or a new buffer of exactly the size asked for.                          *)
(***************************************************************************)
EXTENDS Integers

CONSTANTS Mem, Tag, NoTag, NoMem, Request, IntSize

VARIABLES
  spare,   (* the spare buffer of every tag, or NoMem                       *)
  holder,  (* the tag every buffer in use was allocated for, or NoTag       *)
  asked,   (* the size every buffer in use was asked for with, or 0         *)
  size,    (* the size of every existing buffer, 0 for the others           *)
  mode     (* "up" as long as the process runs and its behaviour is defined *)

vars == <<spare, holder, asked, size, mode>>

Wanted(n) == IF n < IntSize THEN IntSize ELSE n

Init ==
  /\ spare = [t \in Tag |-> NoMem]
  /\ holder = [m \in Mem |-> NoTag]
  /\ asked = [m \in Mem |-> 0]
  /\ size = [m \in Mem |-> 0]
  /\ mode = "up"

(* The sizes that remain once the spare buffer of t is given back.          *)
Dropped(t) == [m \in Mem |-> IF m = spare[t] THEN 0 ELSE size[m]]

(* An allocation served by the spare buffer of the tag.                     *)
Reuse(t, n) ==
  /\ mode = "up"
  /\ spare[t] # NoMem
  /\ size[spare[t]] \in Wanted(n)..(2 * Wanted(n))
  /\ holder' = [holder EXCEPT ![spare[t]] = t]
  /\ asked' = [asked EXCEPT ![spare[t]] = n]
  /\ spare' = [spare EXCEPT ![t] = NoMem]
  /\ UNCHANGED <<size, mode>>

(* An allocation served by the driver; a spare buffer that does not fit is  *)
(* given back first.                                                        *)
Create(t, n) ==
  /\ mode = "up"
  /\ spare[t] = NoMem \/ size[spare[t]] \notin Wanted(n)..(2 * Wanted(n))
  /\ \E m \in Mem :
       /\ Dropped(t)[m] = 0
       /\ size' = [Dropped(t) EXCEPT ![m] = Wanted(n)]
       /\ holder' = [holder EXCEPT ![m] = t]
       /\ asked' = [asked EXCEPT ![m] = n]
  /\ spare' = [spare EXCEPT ![t] = NoMem]
  /\ UNCHANGED mode

(* A buffer is given up: it becomes the spare buffer of its tag, and the    *)
(* one that was, if any, is released.                                       *)
GiveUp(m) ==
  /\ mode = "up"
  /\ holder[m] # NoTag
  /\ spare' = [spare EXCEPT ![holder[m]] = m]
  /\ size' = Dropped(holder[m])
  /\ holder' = [holder EXCEPT ![m] = NoTag]
  /\ asked' = [asked EXCEPT ![m] = 0]
  /\ UNCHANGED mode

(* All spare buffers are released.                                          *)
Clear ==
  /\ mode = "up"
  /\ size' = [m \in Mem |-> IF \E t \in Tag : spare[t] = m THEN 0 ELSE size[m]]
  /\ spare' = [t \in Tag |-> NoMem]
  /\ UNCHANGED <<holder, asked, mode>>

(* The process ends, or its behaviour is no longer defined: nothing is      *)
(* promised about the rest of the state from then on.                       *)
GoDown == mode = "up" /\ mode' = "down"

Stopped == mode = "down" /\ mode' = "down"

Next ==
  \/ \E t \in Tag, n \in Request : Reuse(t, n) \/ Create(t, n)
  \/ \E m \in Mem : GiveUp(m)
  \/ Clear
  \/ GoDown
  \/ Stopped

Spec == Init /\ [][Next]_vars
=============================================================================
