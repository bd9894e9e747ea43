----------------------------- MODULE GroupScan -----------------------------
(***************************************************************************)
(* The scan of an array in local memory by the threads of a work group     *)
(* (compileKernelExp for GroupScan and inBlockScan, in                      *)
(* Futhark/CodeGen/ImpGen/Kernels.hs).                                     *)
(*                                                                         *)
(* The group is split in blocks of BlockSize threads.  Each block is       *)
(* scanned, its last thread packs the total at the index of the block, the *)
(* first block scans those totals, every other block adds the carry-in it  *)
(* finds there, and the first block restores what the totals overwrote.    *)
(*                                                                         *)
(* Threads run in waves of "lockstep" threads.  The threads of a wave      *)
(* execute each statement together; waves interleave freely between        *)
(* barriers, and within a block no barrier is emitted while the distance   *)
(* between the threads that communicate is below the lockstep width.       *)
(*                                                                         *)
(* The operator of the scan is concatenation: it is associative, has the   *)
(* empty sequence as its neutral element and no other law, so what is      *)
(* right for it is right for the operator of every program.                *)
(***************************************************************************)
EXTENDS Integers, Sequences

CONSTANTS
  GroupSize,  (* threads in the group                                       *)
  BlockSize,  (* threads in a block; 32 in the code                         *)
  Lockstep,   (* the lockstep widths of the devices                         *)
  Widths      (* the lengths of the arrays that are scanned                 *)

ASSUME GroupAssumption == GroupSize \in Nat \ {0} /\ BlockSize \in Nat \ {0}

(* "it should not be less than the square root of the group size"           *)
ASSUME BlockAssumption == GroupSize <= BlockSize * BlockSize

(* The widths of sizeHeuristicsTable: threads are alone or whole blocks run *)
(* in lockstep.                                                             *)
ASSUME LockstepAssumption ==
  \A l \in Lockstep : l = 1 \/ (l \in Nat /\ l >= BlockSize /\ l % BlockSize = 0)

(* "w can never be larger than the group size"                              *)
ASSUME WidthAssumption == Widths \subseteq 1..GroupSize

Thread == 0..GroupSize - 1

VARIABLES
  lockstep,  (* the lockstep width of this device                           *)
  width,     (* the length of the array                                     *)
  acc,       (* local memory: the array, and what lies behind it            *)
  pc,        (* of every thread: the statement it executes next             *)
  pass,      (* 1 in the scan of all blocks, 2 in that of the first block   *)
  skip,      (* skip_threads                                                *)
  own        (* y_params of the operator in each pass                       *)

device == <<lockstep, width>>
vars == <<lockstep, width, acc, pc, pass, skip, own>>

(* The threads that run in lockstep with t.                                 *)
Wave(t) == {s \in Thread : s \div lockstep = t \div lockstep}
Waves == {Wave(t) : t \in Thread}

BlockId(t) == t \div BlockSize
InBlockId(t) == t % BlockSize
IsFirstBlock(t) == BlockId(t) = 0
InBounds(t) == t < width

(* A register nothing has been assigned to, and memory of another array.    *)
Garbage == <<-1>>
Other == <<-2>>

(* Mutant: every thread of the group is taken to have an element.           *)
ActiveBeyondBounds(t) == pass[t] = 1 \/ IsFirstBlock(t)

(* The threads doInBlockScan is told about, and those of them that combine  *)
(* in this iteration.                                                       *)
Active(t) == InBounds(t) /\ (pass[t] = 1 \/ IsFirstBlock(t))
TakesPart(t) == Active(t) /\ skip[t] <= InBlockId(t)

(* Mutant: the barriers that are needed for lockstep widths below the       *)
(* distance are left out.                                                   *)
NoBarrier(t) == FALSE

(* maybeBarrier                                                             *)
NeedsBarrier(t) == lockstep <= skip[t]

(* The statement after an iteration, with the next distance.                *)
AfterIteration(distance) == IF distance < BlockSize THEN "read" ELSE "blockBarrier"

-----------------------------------------------------------------------------
Init ==
  /\ lockstep \in Lockstep
  /\ width \in Widths
  /\ acc = [t \in Thread |-> IF InBounds(t) THEN <<t>> ELSE Other]
  /\ pc = [t \in Thread |-> "mine"]
  /\ pass = [t \in Thread |-> 1]
  /\ skip = [t \in Thread |-> 1]
  /\ own = [p \in 1..2 |-> [t \in Thread |-> Garbage]]

(* The wave T, whose threads are all at the statement "from".               *)
At(T, from) == \A t \in T : pc[t] = from

(* The threads of T go on to next(t), all others stay.                      *)
Goto(T, next(_)) == pc' = [t \in Thread |-> IF t \in T THEN next(t) ELSE pc[t]]

(* The threads of T for which if(t) store value(t) at index(t).             *)
Store(T, if(_), index(_), value(_)) ==
  acc' = [i \in Thread |->
            IF \E t \in T : if(t) /\ index(t) = i
            THEN value(CHOOSE t \in T : if(t) /\ index(t) = i)
            ELSE acc[i]]

(* The threads of T for which if(t) assign value(t) to their register.      *)
Assign(T, p(_), if(_), value(_)) ==
  own' = [q \in 1..2 |-> [t \in Thread |->
            IF t \in T /\ if(t) /\ p(t) = q THEN value(t) ELSE own[q][t]]]

Mine(t) == own[pass[t]][t]
First(t) == 1
Pass(t) == pass[t]
Self(t) == t

(* inBlockScan sets the initial y values and the distance 1.                *)
ReadMine(T) ==
  /\ At(T, "mine")
  /\ Assign(T, Pass, Active, LAMBDA t : acc[t])
  /\ skip' = [t \in Thread |-> IF t \in T THEN 1 ELSE skip[t]]
  /\ Goto(T, LAMBDA t : AfterIteration(1))
  /\ UNCHANGED <<device, acc, pass>>

(* Mutant: the operands are swapped.                                        *)
ReadOtherSwapped(T) ==
  /\ At(T, "read")
  /\ Assign(T, Pass, TakesPart, LAMBDA t : Mine(t) \o acc[t - skip[t]])
  /\ Goto(T, LAMBDA t : IF NeedsBarrier(t) THEN "readBarrier" ELSE "write")
  /\ UNCHANGED <<device, acc, pass, skip>>

(* "read operands", "perform operation"                                     *)
ReadOther(T) ==
  /\ At(T, "read")
  /\ Assign(T, Pass, TakesPart, LAMBDA t : acc[t - skip[t]] \o Mine(t))
  /\ Goto(T, LAMBDA t : IF NeedsBarrier(t) THEN "readBarrier" ELSE "write")
  /\ UNCHANGED <<device, acc, pass, skip>>

(* "write result", and the distance is doubled.                             *)
Write(T) ==
  /\ At(T, "write")
  /\ Store(T, TakesPart, Self, Mine)
  /\ Goto(T, LAMBDA t : IF NeedsBarrier(t) THEN "writeBarrier"
                        ELSE AfterIteration(2 * skip[t]))
  /\ skip' = [t \in Thread |-> IF t \in T /\ ~NeedsBarrier(t) THEN 2 * skip[t] ELSE skip[t]]
  /\ UNCHANGED <<device, pass, own>>

(* "last thread of block 'i' writes its result to offset 'i'"               *)
Packs(t) == InBounds(t) /\ InBlockId(t) = BlockSize - 1
Pack(T) ==
  /\ At(T, "pack")
  /\ Store(T, Packs, BlockId, Mine)
  /\ Goto(T, LAMBDA t : "packBarrier")
  /\ UNCHANGED <<device, pass, skip, own>>

(* "carry-in for every block except the first": read and combine, ...       *)
Carries(t) == InBounds(t) /\ ~IsFirstBlock(t)
ReadCarry(T) ==
  /\ At(T, "carryRead")
  /\ Assign(T, First, Carries, LAMBDA t : acc[BlockId(t) - 1] \o own[1][t])
  /\ Goto(T, LAMBDA t : "carryWrite")
  /\ UNCHANGED <<device, acc, pass, skip>>

(* ... "write final result".                                                *)
WriteCarry(T) ==
  /\ At(T, "carryWrite")
  /\ Store(T, Carries, Self, LAMBDA t : own[1][t])
  /\ Goto(T, LAMBDA t : "carryBarrier")
  /\ UNCHANGED <<device, pass, skip, own>>

(* Mutant: the first block keeps the totals.                                *)
NoRestore(T) ==
  /\ At(T, "restore")
  /\ Goto(T, LAMBDA t : "scanned")
  /\ UNCHANGED <<device, acc, pass, skip, own>>

(* "restore correct values for first block": every thread of that block     *)
(* writes, whether it has an element or not.                                *)
Restore(T) ==
  /\ At(T, "restore")
  /\ Store(T, IsFirstBlock, Self, LAMBDA t : own[1][t])
  /\ Goto(T, LAMBDA t : "scanned")
  /\ UNCHANGED <<device, pass, skip, own>>

WaveStep(T) == \/ ReadMine(T) \/ ReadOther(T) \/ Write(T) \/ Pack(T)
               \/ ReadCarry(T) \/ WriteCarry(T) \/ Restore(T)

(* All threads are at the barrier b.                                        *)
Barrier(b) == At(Thread, b)
GotoAll(next) == pc' = [t \in Thread |-> next]

ReadBarrier ==
  /\ Barrier("readBarrier")
  /\ GotoAll("write")
  /\ UNCHANGED <<device, acc, pass, skip, own>>

WriteBarrier ==
  /\ Barrier("writeBarrier")
  /\ skip' = [t \in Thread |-> 2 * skip[t]]
  /\ Goto(Thread, LAMBDA t : AfterIteration(2 * skip[t]))
  /\ UNCHANGED <<device, acc, pass, own>>

(* Mutant: the barrier after the carries is inside their conditional.       *)
BlockBarrierDiverging ==
  /\ Barrier("blockBarrier")
  /\ Goto(Thread, LAMBDA t : IF pass[t] = 1 THEN "pack"
                             ELSE IF IsFirstBlock(t) THEN "restore" ELSE "carryRead")
  /\ UNCHANGED <<device, acc, pass, skip, own>>

(* After the scan of all blocks, and after that of the first one.           *)
BlockBarrier ==
  /\ Barrier("blockBarrier")
  /\ Goto(Thread, LAMBDA t : IF pass[t] = 1 THEN "pack" ELSE "carryRead")
  /\ UNCHANGED <<device, acc, pass, skip, own>>

PackBarrier ==
  /\ Barrier("packBarrier")
  /\ pass' = [t \in Thread |-> 2]
  /\ GotoAll("mine")
  /\ UNCHANGED <<device, acc, skip, own>>

CarryBarrier ==
  /\ Barrier("carryBarrier")
  /\ GotoAll("restore")
  /\ UNCHANGED <<device, acc, pass, skip, own>>

Sync == ReadBarrier \/ WriteBarrier \/ BlockBarrier \/ PackBarrier \/ CarryBarrier

Next == (\E T \in Waves : WaveStep(T)) \/ Sync

(* Work-items that reach a barrier wait for the others, so every one of     *)
(* them keeps running: each wave is scheduled, and barriers let go.         *)
Fairness == /\ \A t \in Thread : WF_vars(WaveStep(Wave(t)))
            /\ WF_vars(Sync)

Spec == Init /\ [][Next]_vars /\ Fairness

-----------------------------------------------------------------------------
(* What is scanned: the elements from a to b.                               *)
Elements(a, b) == [i \in 1..b - a + 1 |-> a + i - 1]

(* When a thread is through, it finds the scan of its element and all those *)
(* before it at its own index, whatever the threads it has overtaken do.    *)
OwnResult ==
  \A t \in Thread : pc[t] = "scanned" /\ InBounds(t) => acc[t] = Elements(0, t)

(* The indices the next statement of a thread reads and writes.             *)
Reads(t) ==
  CASE pc[t] = "mine" /\ Active(t) -> {t}
    [] pc[t] = "read" /\ TakesPart(t) -> {t - skip[t]}
    [] pc[t] = "carryRead" /\ Carries(t) -> {BlockId(t) - 1}
    [] OTHER -> {}
Writes(t) ==
  CASE pc[t] = "write" /\ TakesPart(t) -> {t}
    [] pc[t] = "pack" /\ Packs(t) -> {BlockId(t)}
    [] pc[t] = "carryWrite" /\ Carries(t) -> {t}
    [] pc[t] = "restore" /\ IsFirstBlock(t) -> {t}
    [] OTHER -> {}

(* No two waves can access one index at the same time when one of them      *)
(* writes: the barriers that are emitted are enough for each width.         *)
RaceFree ==
  \A s, t \in Thread : s \div lockstep # t \div lockstep =>
    Writes(s) \cap (Reads(t) \cup Writes(t)) = {}

(* The memory behind the array is never written.                            *)
InsideArray == \A i \in Thread : ~InBounds(i) => acc[i] = Other

(* Every thread gets through: no barrier is waited at by some threads only. *)
Termination == <>At(Thread, "scanned")

=============================================================================
