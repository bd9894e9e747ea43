------------------------------- MODULE ScanMC -------------------------------
(***************************************************************************)
(* A scan on the device, either all of it, as three kernels whose steps    *)
(* are iterations of groups (BlockedScan), or one group of the first       *)
(* kernel, whose steps are those of its waves (ScanKernel).  Both do what  *)
(* BlockedScan says.                                                       *)
(***************************************************************************)
EXTENDS ScanKernel

CONSTANTS GroupSizes, MaxNumGroups, ScanLengths  (* for all of a scan       *)

VARIABLES
  whole,                 (* whether it is all of a scan                     *)
  groupSize, maxGroups, w, stage, rounds, carry, seqScanned, carryScanned, result

scan == <<groupSize, maxGroups, w, stage, rounds, carry, seqScanned, carryScanned, result>>
everything == <<whole, allVars, scan>>

Blocked == INSTANCE BlockedScan WITH iter <- rounds, ElementCounts <- ScanLengths

ASSUME LaunchesAssumption == Blocked!LaunchesOK

(* Threads alone, waves of one block, the group in one wave.                *)
SomeLockstep == {1, 2, 4}
FullWidth == {GroupSize}

(* One or all elements for the second group, and two iterations, in which   *)
(* it gets a part of a round or two rounds.                                 *)
SomeCounts == {5, 8, 12, 14, 16}

(* Groups of up to three threads, up to four of them; no elements, fewer    *)
(* than threads, and several iterations with every remainder.               *)
UpToThree == 1..3
UpToFour == 1..4
SomeLengths == 0..16

ScanInit ==
  \/ /\ whole /\ Blocked!Init
     /\ lockstep = 1 /\ width = 1 /\ group = 0 /\ elements = 1
     /\ acc = <<>> /\ pc = <<>> /\ pass = <<>> /\ skip = <<>> /\ own = <<>>
     /\ iter = <<>> /\ accumulator = <<>> /\ scanout = <<>>
  \/ /\ ~whole /\ KernelInit
     /\ groupSize = GroupSize /\ maxGroups = NumGroups /\ w = elements /\ stage = "scan1"
     /\ rounds = <<>> /\ carry = <<>> /\ seqScanned = <<>> /\ carryScanned = <<>> /\ result = <<>>

Begin == whole \in BOOLEAN /\ ScanInit

Step ==
  \/ whole /\ Blocked!Next /\ UNCHANGED <<whole, allVars>>
  \/ ~whole /\ KernelNext /\ UNCHANGED <<whole, scan>>

Scans == Begin /\ [][Step]_everything

(* The group of ScanKernel as one of BlockedScan's, the others of which do  *)
(* nothing.  An iteration ends where the first thread takes its result:     *)
(* then some waves may not have stored, or restored, their elements, which  *)
(* are still in their registers; and until then none counts as stored.      *)
Done == iter[0] + (IF pc[0] = "carryOutBarrier" THEN 1 ELSE 0)

StoredBy(j) ==
  IF Start <= j /\ j < Start + Done * GroupSize
  THEN IF j \in DOMAIN scanout THEN scanout[j] ELSE own[1][(j - Start) % GroupSize]
  ELSE IF j \in DOMAIN scanout /\ ~(Start <= j /\ j < Start + (Done + 1) * GroupSize)
       THEN scanout[j] ELSE Garbage

OfGroup(value, others) ==
  [g \in 0..NumGroups - 1 |-> IF g = group THEN value ELSE others]

FirstKernel == INSTANCE BlockedScan WITH
  GroupSizes <- GroupSizes \cup {GroupSize},
  MaxNumGroups <- MaxNumGroups \cup {NumGroups},
  ElementCounts <- ScanLengths \cup ElementCounts,
  iter <- IF whole THEN rounds ELSE OfGroup(Done, 0),
  carry <- IF whole THEN carry ELSE OfGroup(accumulator[0], <<>>),
  seqScanned <- IF whole THEN seqScanned ELSE [j \in 0..elements - 1 |-> StoredBy(j)],
  carryScanned <- IF whole THEN carryScanned ELSE OfGroup(Garbage, Garbage),
  result <- IF whole THEN result ELSE [j \in 0..elements - 1 |-> Garbage]

(* ScanKernel: what a thread stores is the scan up to that element.         *)
StoredExact == ~whole => ScanoutExact

(* ScanKernel: the first thread alone carries what was scanned so far.      *)
CarriedExact == ~whole => CarryExact

(* ScanKernel: no two waves access one index of local memory at a time.     *)
NoKernelRaces == ~whole => KernelRaceFree

(* BlockedScan: the result is the scan, for every element.                  *)
ScanExact == whole => Blocked!ResultExact

(* BlockedScan: the carry of the last group is that of the whole array.     *)
ScanCarry == whole => Blocked!CarryReturned

(* BlockedScan: an element that a group has written is not written again.   *)
NeverRewritten == [][whole => \A j \in Blocked!Index :
                       seqScanned[j] # Garbage => seqScanned'[j] = seqScanned[j]]_everything

(* The waves of a group, in any order, do what BlockedScan takes a group to *)
(* do in one step: in an iteration its part of the input is scanned,        *)
(* stored, and added to the carry.                                          *)
ImplementsIterations == FirstKernel!Spec
=============================================================================
