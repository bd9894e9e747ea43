-------------------------- MODULE GroupOperationsMC --------------------------
(***************************************************************************)
(* A device whose groups scan an array in local memory (GroupScan) or      *)
(* reduce one (GroupReduce).  The two share the device, the array and the  *)
(* places of the threads in the code; each has its own registers.          *)
(***************************************************************************)
EXTENDS GroupScan

CONSTANTS
  ReduceGroupSize,  (* threads, lockstep widths and lengths of the arrays   *)
  WaveSizes,        (* for the reduction                                    *)
  ReduceWidths

VARIABLES
  operation,        (* "scan" or "reduce"                                   *)
  reduceAcc, offset, skipWaves  (* the registers of the reduction           *)

Reduce == INSTANCE GroupReduce WITH
  GroupSize <- ReduceGroupSize, Widths <- ReduceWidths, waveSize <- lockstep, arr <- acc

ASSUME ReduceAssumption == Reduce!LaunchOK

registers == <<reduceAcc, offset, skipWaves>>
allVars == <<vars, operation, registers>>

(* Waves of one thread, several, all, and more threads than the group has:  *)
(* six threads leave the last wave of four, and the last level of both      *)
(* trees, incomplete.                                                       *)
SomeWaveSizes == {1, 2, 4, 8}
NonEmpty == 1..ReduceGroupSize

(* Threads alone, waves of one block, the group in one wave.                *)
SomeLockstep == {1, 4, 8}

(* Arrays that fill the first block, and none, part or all of the second.   *)
FromBlockUp == {4, 6, 8}

Scanning == operation = "scan"
Reducing == operation = "reduce"

Start ==
  \/ operation = "scan" /\ Init /\ reduceAcc = 0 /\ offset = 0 /\ skipWaves = 0
  \/ operation = "reduce" /\ Reduce!Init /\ pass = 0 /\ skip = 0 /\ own = 0

Step ==
  \/ Scanning /\ Next /\ UNCHANGED <<operation, registers>>
  \/ Reducing /\ Reduce!Next /\ UNCHANGED <<operation, pass, skip, own>>

(* A wave, or the barrier, of the operation that runs.                      *)
Turn(t) ==
  \/ Scanning /\ t \in Thread /\ WaveStep(Wave(t)) /\ UNCHANGED <<operation, registers>>
  \/ /\ Reducing /\ t \in Reduce!Thread /\ Reduce!WaveStep(Reduce!Wave(Reduce!WaveId(t)))
     /\ UNCHANGED <<operation, pass, skip, own>>
Release ==
  \/ Scanning /\ Sync /\ UNCHANGED <<operation, registers>>
  \/ Reducing /\ Reduce!Barrier /\ UNCHANGED <<operation, pass, skip, own>>

(* The fairness of the two modules.                                         *)
Runs ==
  /\ \A t \in Thread \cup Reduce!Thread : WF_allVars(Turn(t))
  /\ WF_allVars(Release)

Groups == Start /\ [][Step]_allVars /\ Runs

(* GroupScan: whoever is through finds the scan at its own index.           *)
ScanResult == Scanning => OwnResult

(* GroupScan: the memory behind the array is never written.                 *)
ScanInsideArray == Scanning => InsideArray

(* GroupReduce: the first thread ends with the total, in order.             *)
ReduceResult == Reducing => Reduce!FirstHasTotal

(* No two waves access one index at the same time with one of them writing: *)
(* the barriers that are emitted are enough for every lockstep width.       *)
NoRaces == (Scanning => RaceFree) /\ (Reducing => Reduce!RaceFree)

(* Every thread gets through: all agree on the barriers they wait at.       *)
AllFinish ==
  <>IF Scanning THEN At(Thread, "scanned") ELSE Reduce!At(Reduce!Thread, "end")
=============================================================================
