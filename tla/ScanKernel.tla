----------------------------- MODULE ScanKernel -----------------------------
(***************************************************************************)
(* The first kernel of a scan (scanKernel1 in                               *)
(* Futhark/Pass/ExtractKernels/BlockedKernel.hs), as one of its groups      *)
(* runs it.  In every iteration the threads fold one element each into      *)
(* their accumulators, scan the results with GroupScan, store them, and     *)
(* the first thread takes the last of them as its accumulator while the     *)
(* others reset theirs.                                                     *)
(***************************************************************************)
EXTENDS GroupScan

CONSTANTS
  NumGroups,    (* groups the kernel is launched with                       *)
  ElementCounts (* numbers of elements that are scanned                     *)

ASSUME LaunchAssumption == NumGroups \in Nat \ {0} /\ ElementCounts \subseteq Nat \ {0}

VARIABLES
  group,        (* the number of this group                                 *)
  elements,     (* num_elements                                             *)
  iter,         (* the loop variable of every thread                        *)
  accumulator,  (* the accumulator of every thread                          *)
  scanout       (* the elements of the result this group has stored         *)

launch == <<group, elements>>
kernel == <<group, elements, iter, accumulator, scanout>>
allVars == <<vars, kernel>>

(* Mutant: the remainder is forgotten.                                      *)
RoundingDown(a, b) == a \div b

RoundingUp(a, b) == (a + b - 1) \div b
NumThreads == NumGroups * GroupSize
NumIterations == RoundingUp(elements, NumThreads)

(* The first element of the group, and the element thread t folds next.     *)
Start == group * NumIterations * GroupSize
Index(t) == Start + iter[t] * GroupSize + t
LastThread == GroupSize - 1

KernelInit ==
  /\ lockstep \in Lockstep
  /\ width = GroupSize
  /\ group \in 0..NumGroups - 1
  /\ elements \in ElementCounts
  /\ acc = [t \in Thread |-> Garbage]
  /\ pc = [t \in Thread |-> "fold"]
  /\ pass = [t \in Thread |-> 1]
  /\ skip = [t \in Thread |-> 1]
  /\ own = [p \in 1..2 |-> [t \in Thread |-> Garbage]]
  /\ iter = [t \in Thread |-> 0]
  /\ accumulator = [t \in Thread |-> <<>>]
  /\ scanout = <<>>

(* The element j = Index(t) is folded into the accumulator if there is one, *)
(* and the result combined in the array to scan.                            *)
Folded(t) == IF Index(t) < elements THEN accumulator[t] \o <<Index(t)>>
             ELSE accumulator[t]

(* Mutant: the scan starts without waiting for the other threads.           *)
FoldNoBarrier(T) ==
  /\ At(T, "fold")
  /\ Store(T, LAMBDA t : TRUE, Self, Folded)
  /\ pass' = [t \in Thread |-> IF t \in T THEN 1 ELSE pass[t]]
  /\ Goto(T, LAMBDA t : "mine")
  /\ UNCHANGED <<device, skip, own, kernel>>

Fold(T) ==
  /\ At(T, "fold")
  /\ Store(T, LAMBDA t : TRUE, Self, Folded)
  /\ Goto(T, LAMBDA t : "combineBarrier")
  /\ UNCHANGED <<device, pass, skip, own, kernel>>

(* The barrier of Combine; the scan starts.                                 *)
CombineBarrier ==
  /\ Barrier("combineBarrier")
  /\ pass' = [t \in Thread |-> 1]
  /\ GotoAll("mine")
  /\ UNCHANGED <<device, acc, skip, own, kernel>>

(* Every thread with an element stores its entry of the scanned array.      *)
StoreScanned(T) ==
  /\ At(T, "scanned")
  /\ LET stored == {t \in T : Index(t) < elements}
     IN scanout' = [j \in DOMAIN scanout \cup {Index(t) : t \in stored} |->
                      IF \E t \in stored : Index(t) = j
                      THEN acc[CHOOSE t \in stored : Index(t) = j]
                      ELSE scanout[j]]
  /\ Goto(T, LAMBDA t : "carryOut")
  /\ UNCHANGED <<device, acc, pass, skip, own, launch, iter, accumulator>>

(* Mutant: the first thread takes its own entry.                            *)
CarryOutOfFirst(T) ==
  /\ At(T, "carryOut")
  /\ accumulator' = [t \in Thread |-> IF t \notin T THEN accumulator[t]
                                      ELSE IF t = 0 THEN acc[0] ELSE <<>>]
  /\ Goto(T, LAMBDA t : "carryOutBarrier")
  /\ UNCHANGED <<device, acc, pass, skip, own, launch, iter, scanout>>

(* "The first resets it to the carry-out of the scan", the others to the    *)
(* neutral element.                                                         *)
CarryOut(T) ==
  /\ At(T, "carryOut")
  /\ accumulator' = [t \in Thread |-> IF t \notin T THEN accumulator[t]
                                      ELSE IF t = 0 THEN acc[LastThread] ELSE <<>>]
  /\ Goto(T, LAMBDA t : "carryOutBarrier")
  /\ UNCHANGED <<device, acc, pass, skip, own, launch, iter, scanout>>

(* new_carry_sync, and the next iteration.                                  *)
CarryOutBarrier ==
  /\ Barrier("carryOutBarrier")
  /\ iter' = [t \in Thread |-> iter[t] + 1]
  /\ Goto(Thread, LAMBDA t : IF iter[t] + 1 < NumIterations THEN "fold" ELSE "end")
  /\ UNCHANGED <<device, acc, pass, skip, own, launch, accumulator, scanout>>

(* One iteration of a wave.                                                 *)
KernelStep(T) ==
  \/ Fold(T) \/ StoreScanned(T) \/ CarryOut(T)
  \/ WaveStep(T) /\ UNCHANGED kernel

KernelSync ==
  \/ CombineBarrier \/ CarryOutBarrier
  \/ Sync /\ UNCHANGED kernel

KernelNext == (\E T \in Waves : KernelStep(T)) \/ KernelSync

KernelSpec == KernelInit /\ [][KernelNext]_allVars

-----------------------------------------------------------------------------
(* The elements of the group before those of iteration k end here.          *)
Before(k) == LET last == Start + k * GroupSize
             IN IF last < elements THEN last ELSE elements

(* Whatever is stored at an index is the scan from the first element of the *)
(* group on, through all iterations: scanned_arrs[lid] goes to scanout[j].  *)
ScanoutExact ==
  \A j \in DOMAIN scanout : scanout[j] = Elements(Start, j)

(* Between iterations the first thread alone holds what was scanned so far. *)
CarryExact ==
  \A t \in Thread : pc[t] \in {"fold", "carryOutBarrier", "end"} =>
    accumulator[t] =
      IF t # 0 THEN <<>>
      ELSE Elements(Start, Before(iter[t] + (IF pc[t] = "carryOutBarrier" THEN 1 ELSE 0)) - 1)

(* The indices the next statement of a thread reads and writes.             *)
KernelReads(t) ==
  CASE pc[t] = "scanned" /\ Index(t) < elements -> {t}
    [] pc[t] = "carryOut" /\ t = 0 -> {LastThread}
    [] OTHER -> Reads(t)
KernelWrites(t) == IF pc[t] = "fold" THEN {t} ELSE Writes(t)

(* No two waves access one index of local memory at the same time with one  *)
(* of them writing, inside the scan and around it.                          *)
KernelRaceFree ==
  \A s, t \in Thread : s \div lockstep # t \div lockstep =>
    KernelWrites(s) \cap (KernelReads(t) \cup KernelWrites(t)) = {}
=============================================================================
