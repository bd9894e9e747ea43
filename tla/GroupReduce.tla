---------------------------- MODULE GroupReduce ----------------------------
(***************************************************************************)
(* The reduction of an array in local memory by the threads of a work      *)
(* group (compileKernelExp for GroupReduce in                              *)
(* Futhark/CodeGen/ImpGen/Kernels.hs).                                     *)
(*                                                                         *)
(* A tree within each wave, which needs no barriers as the threads of a    *)
(* wave run in lockstep, then a tree over the first threads of the waves,  *)
(* with a barrier before each of its levels.  A thread at index i adds the *)
(* element "offset" behind it to its own and stores the result at i.       *)
(*                                                                         *)
(* The operator is concatenation, which is associative, has the empty      *)
(* sequence as its neutral element, and no other law.                      *)
(***************************************************************************)
EXTENDS Integers, Sequences

CONSTANTS
  GroupSize,  (* threads in the group                                       *)
  WaveSizes,  (* the lockstep widths of the devices                         *)
  Widths      (* the lengths of the arrays that are reduced                 *)

(* Assumed of the constants; sizeHeuristicsTable has powers of two only.    *)
LaunchOK ==
  /\ GroupSize \in Nat \ {0} /\ Widths \subseteq 0..GroupSize
  /\ \A s \in WaveSizes : \E k \in 0..10 : s = 2^k

Thread == 0..GroupSize - 1

VARIABLES
  waveSize,  (* the lockstep width of this device                           *)
  width,     (* the length of the array                                     *)
  arr,       (* local memory: the array, and what lies behind it            *)
  pc,        (* of every thread: the statement it executes next             *)
  reduceAcc, (* reduce_acc_params of every thread, which become its result  *)
  offset,    (* the distance to the element each thread reads               *)
  skipWaves  (* skip_waves of every thread                                  *)

device == <<waveSize, width>>
vars == <<waveSize, width, arr, pc, reduceAcc, offset, skipWaves>>

(* The numbers of the waves, and the threads of each.                       *)
WaveId(t) == t \div waveSize
InWaveId(t) == t - WaveId(t) * waveSize
NumWaves == (GroupSize + waveSize - 1) \div waveSize
Wave(w) == {t \in Thread : WaveId(t) = w}

(* A register nothing has been assigned to, and memory of another array.    *)
Garbage == <<-1>>
Other == <<-2>>

(* arg_in_bounds                                                            *)
ArgInBounds(t) == t + offset[t] < width

(* "x & (2 * d - 1) == 0", for a power of two d.                            *)
MultipleOfTwice(x, d) == x % (2 * d) = 0

InWaveActive(t) == ArgInBounds(t) /\ MultipleOfTwice(InWaveId(t), offset[t])

CrossWaveActive(t) ==
  ArgInBounds(t) /\ InWaveId(t) = 0 /\ MultipleOfTwice(WaveId(t), skipWaves[t])

Init ==
  /\ waveSize \in WaveSizes
  /\ width \in Widths
  /\ arr = [t \in Thread |-> IF t < width THEN <<t>> ELSE Other]
  /\ pc = [t \in Thread |-> "init"]
  /\ reduceAcc = [t \in Thread |-> Garbage]
  /\ offset = [t \in Thread |-> 0]
  /\ skipWaves = [t \in Thread |-> 1]

-----------------------------------------------------------------------------
At(T, from) == \A t \in T : pc[t] = from
Goto(T, label) == pc' = [t \in Thread |-> IF t \in T THEN label ELSE pc[t]]

(* Mutant: a wave that is not full is left out.                             *)
AfterLevelFullWaves(skip) == IF skip < GroupSize \div waveSize THEN "barrier" ELSE "end"

(* The conditions of the two loops: where a thread goes after a level.      *)
AfterLevel(skip) == IF skip < NumWaves THEN "barrier" ELSE "end"

AfterInWave(distance) == IF distance < waveSize THEN "waveRead" ELSE AfterLevel(1)

(* The active threads of T add the element at their offset to their own.    *)
ReadAndReduce(T, active(_)) ==
  reduceAcc' = [t \in Thread |-> IF t \in T /\ active(t)
                                 THEN reduceAcc[t] \o arr[t + offset[t]]
                                 ELSE reduceAcc[t]]

(* The active threads of T store their results at their own indices.        *)
WriteResult(T, active(_)) ==
  arr' = [t \in Thread |-> IF t \in T /\ active(t) THEN reduceAcc[t] ELSE arr[t]]

(* Every thread with an element starts from it; offset and skip_waves 1.    *)
SetInitParams(T) ==
  /\ At(T, "init")
  /\ reduceAcc' = [t \in Thread |-> IF t \in T /\ t < width THEN arr[t] ELSE reduceAcc[t]]
  /\ offset' = [t \in Thread |-> IF t \in T THEN 1 ELSE offset[t]]
  /\ Goto(T, AfterInWave(1))
  /\ UNCHANGED <<device, arr, skipWaves>>

(* in_wave_reductions: one level reads, and all have read when it writes.   *)
InWaveRead(T) ==
  /\ At(T, "waveRead")
  /\ ReadAndReduce(T, InWaveActive)
  /\ Goto(T, "waveWrite")
  /\ UNCHANGED <<device, arr, offset, skipWaves>>

InWaveWrite(T) ==
  /\ At(T, "waveWrite")
  /\ WriteResult(T, InWaveActive)
  /\ offset' = [t \in Thread |-> IF t \in T THEN 2 * offset[t] ELSE offset[t]]
  /\ \E d \in {offset[t] : t \in T} : Goto(T, AfterInWave(2 * d))
  /\ UNCHANGED <<device, reduceAcc, skipWaves>>

(* The barrier before each level of cross_wave_reductions.                  *)
Barrier ==
  /\ At(Thread, "barrier")
  /\ offset' = [t \in Thread |-> skipWaves[t] * waveSize]
  /\ Goto(Thread, "crossRead")
  /\ UNCHANGED <<device, arr, reduceAcc, skipWaves>>

CrossWaveRead(T) ==
  /\ At(T, "crossRead")
  /\ ReadAndReduce(T, CrossWaveActive)
  /\ Goto(T, "crossWrite")
  /\ UNCHANGED <<device, arr, offset, skipWaves>>

CrossWaveWrite(T) ==
  /\ At(T, "crossWrite")
  /\ WriteResult(T, CrossWaveActive)
  /\ skipWaves' = [t \in Thread |-> IF t \in T THEN 2 * skipWaves[t] ELSE skipWaves[t]]
  /\ \E d \in {skipWaves[t] : t \in T} : Goto(T, AfterLevel(2 * d))
  /\ UNCHANGED <<device, reduceAcc, offset>>

WaveStep(T) == \/ SetInitParams(T) \/ InWaveRead(T) \/ InWaveWrite(T)
               \/ CrossWaveRead(T) \/ CrossWaveWrite(T)

Next == (\E w \in 0..NumWaves - 1 : WaveStep(Wave(w))) \/ Barrier

(* Each wave is scheduled, and the barrier lets go.                         *)
Fairness == /\ \A t \in Thread : WF_vars(WaveStep(Wave(WaveId(t))))
            /\ WF_vars(Barrier)

Spec == Init /\ [][Next]_vars /\ Fairness

-----------------------------------------------------------------------------
(* What is reduced: the elements from a up to but without b.                *)
Elements(a, b) == [i \in 1..b - a |-> a + i - 1]

(* The first thread ends with all elements, each once and in order: the     *)
(* result that ThreadsReturn OneResultPerGroup and the kernels that reduce  *)
(* rely on.                                                                 *)
FirstHasTotal == pc[0] = "end" => reduceAcc[0] = Elements(0, width)

(* The index a thread reads, or writes, in its next statement.              *)
Reads(t) ==
  CASE pc[t] = "init" /\ t < width -> {t}
    [] pc[t] = "waveRead" /\ InWaveActive(t) -> {t + offset[t]}
    [] pc[t] = "crossRead" /\ CrossWaveActive(t) -> {t + offset[t]}
    [] OTHER -> {}
Writes(t) ==
  IF \/ pc[t] = "waveWrite" /\ InWaveActive(t)
     \/ pc[t] = "crossWrite" /\ CrossWaveActive(t)
  THEN {t} ELSE {}

(* No wave writes what another one reads or writes at the same time, though *)
(* there is no barrier within the waves and one per level between them.     *)
RaceFree ==
  \A s, t \in Thread : WaveId(s) # WaveId(t) =>
    Writes(s) \cap (Reads(t) \cup Writes(t)) = {}

(* Every thread comes to the end: all agree on the number of barriers.      *)
Termination == <>At(Thread, "end")

=============================================================================
