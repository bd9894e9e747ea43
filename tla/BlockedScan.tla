---------------------------- MODULE BlockedScan -----------------------------
(***************************************************************************)
(* A scan on the device (blockedScan in                                    *)
(* Futhark/Pass/ExtractKernels/BlockedKernel.hs), as three kernels that    *)
(* run one after the other.  The first scans a part of the input in each   *)
(* group and leaves what the part comes to in group_carry_out; the second, *)
(* a single group with one thread for each group of the first, scans those *)
(* results; the third completes every element with that of the groups      *)
(* before its own.                                                         *)
(*                                                                         *)
(* An iteration of a group is one step here; ScanKernel has its threads.   *)
(* The operator is concatenation: associative, with the empty sequence as  *)
(* its neutral element, and no other law.                                  *)
(***************************************************************************)
EXTENDS Integers, Sequences

CONSTANTS
  GroupSizes,    (* sizes of the groups                                     *)
  MaxNumGroups,  (* the num_groups sizes                                    *)
  ElementCounts  (* the numbers of elements to scan                         *)

(* Assumed of the constants.                                                *)
LaunchesOK ==
  GroupSizes \subseteq Nat \ {0} /\ MaxNumGroups \subseteq Nat \ {0} /\ ElementCounts \subseteq Nat

VARIABLES
  groupSize, maxGroups, w,  (* of this scan                                 *)
  stage,    (* the kernel that runs                                         *)
  iter,     (* iterations each group has finished                           *)
  carry,    (* the carry-out of each group                                  *)
  seqScanned,  (* sequentially_scanned, the elements the groups write       *)
  carryScanned,(* group_carry_out_scanned                                   *)
  result    (* the array that is returned                                   *)

launch == <<groupSize, maxGroups, w>>
vars == <<launch, stage, iter, carry, seqScanned, carryScanned, result>>

(* The quotient, rounded up.                                                *)
DivRoundingUp(x, y) == (x + y - 1) \div y

AtMost(x, limit) == IF limit < x THEN limit ELSE x
AtLeast(x, limit) == IF x < limit THEN limit ELSE x

(* numberOfGroups                                                           *)
NumberOfGroups(n, size, max) == AtLeast(AtMost(DivRoundingUp(n, size), max), 1)

Launched == NumberOfGroups(w, groupSize, maxGroups)
NumThreads == Launched * groupSize
Group == 0..Launched - 1

(* num_iterations of the first kernel, chunks_per_group of the third.       *)
NumIterations == DivRoundingUp(w, NumThreads)

ElemsPerGroup == NumIterations * groupSize

Index == 0..w - 1
Scratch == <<-1>>

(* The elements with the indices from a to b.                               *)
Elements(a, b) == [i \in 1..AtLeast(b - a + 1, 0) |-> a + i - 1]

(* Mutant: parts of a group's size, whatever the number of iterations.      *)
FirstOverlapping(g) == g * groupSize + iter[g] * groupSize

(* The elements group g folds in the iteration it is at: they start at      *)
(* First(g), and end before the end of the input.                           *)
First(g) == g * NumIterations * groupSize + iter[g] * groupSize
Chunk(g) == {j \in Index : First(g) <= j /\ j < First(g) + groupSize}
LastOf(g) == AtMost(First(g) + groupSize, w) - 1

Init ==
  /\ groupSize \in GroupSizes /\ maxGroups \in MaxNumGroups /\ w \in ElementCounts
  /\ stage = "scan1"
  /\ iter = [g \in Group |-> 0]
  /\ carry = [g \in Group |-> <<>>]
  /\ seqScanned = [j \in Index |-> Scratch]
  /\ carryScanned = [g \in Group |-> Scratch]
  /\ result = [j \in Index |-> Scratch]

(* Mutant: the carry is what the last iteration alone comes to.             *)
IterateWithoutCarry(g) ==
  /\ stage = "scan1" /\ iter[g] < NumIterations
  /\ seqScanned' = [j \in Index |-> IF j \in Chunk(g) THEN carry[g] \o Elements(First(g), j)
                                    ELSE seqScanned[j]]
  /\ carry' = [carry EXCEPT ![g] = Elements(First(g), LastOf(g))]
  /\ iter' = [iter EXCEPT ![g] = @ + 1]
  /\ UNCHANGED <<launch, stage, carryScanned, result>>

(* scanKernel1: an iteration of group g.                                    *)
Iterate(g) ==
  /\ stage = "scan1" /\ iter[g] < NumIterations
  /\ seqScanned' = [j \in Index |-> IF j \in Chunk(g) THEN carry[g] \o Elements(First(g), j)
                                    ELSE seqScanned[j]]
  /\ carry' = [carry EXCEPT ![g] = @ \o Elements(First(g), LastOf(g))]
  /\ iter' = [iter EXCEPT ![g] = @ + 1]
  /\ UNCHANGED <<launch, stage, carryScanned, result>>

(* scanKernel2, which starts when all groups of the first have ended: the   *)
(* scan of their results.                                                   *)
ScanCarries ==
  /\ stage = "scan1" /\ \A g \in Group : iter[g] = NumIterations
  /\ LET upTo[g \in Group] == IF g = 0 THEN carry[0] ELSE upTo[g - 1] \o carry[g]
     IN carryScanned' = upTo
  /\ stage' = "map"
  /\ UNCHANGED <<launch, iter, carry, seqScanned, result>>

(* Mutant: the carry of its own group is added to an element.               *)
MapOwnCarry ==
  /\ stage = "map"
  /\ result' = [j \in Index |->
       LET group == j \div ElemsPerGroup
       IN IF group = 0 THEN seqScanned[j] ELSE carryScanned[group] \o seqScanned[j]]
  /\ stage' = "end"
  /\ UNCHANGED <<launch, iter, carry, seqScanned, carryScanned>>

(* The third kernel has a thread for each element, which writes that        *)
(* element of a new array and nothing else: they are one step.              *)
Map ==
  /\ stage = "map"
  /\ result' = [j \in Index |->
       LET group == j \div ElemsPerGroup
       IN IF group = 0 THEN seqScanned[j] ELSE carryScanned[group - 1] \o seqScanned[j]]
  /\ stage' = "end"
  /\ UNCHANGED <<launch, iter, carry, seqScanned, carryScanned>>

Next == (\E g \in Group : Iterate(g)) \/ ScanCarries \/ Map

Spec == Init /\ [][Next]_vars

-----------------------------------------------------------------------------
(* In the end every element is the scan of all elements up to it, whatever  *)
(* the groups, their order, and where the input ends.                       *)
ResultExact == stage = "end" => \A j \in Index : result[j] = Elements(0, j)

(* The carry of the last group, which blockedScan returns as well, is all   *)
(* there is, if there are groups without elements too.                      *)
CarryReturned == stage \in {"map", "end"} => carryScanned[Launched - 1] = Elements(0, w - 1)
=============================================================================
