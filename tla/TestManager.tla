---------------------------- MODULE TestManager ----------------------------
(***************************************************************************)
(* The test manager of futhark-test (src/src/futhark-test.hs): a feeder    *)
(* thread hands the test programs to worker threads through one MVar, the  *)
(* workers check them and hand the results to the main thread through      *)
(* another one, and the main thread counts them until none remains.        *)
(*                                                                         *)
(* A worker calls the type checker, the compiler, the interpreter and the  *)
(* compiled program, in that order and as the mode tells; the first error  *)
(* is the result of the test.  What those programs do is not known here:   *)
(* any call may fail.  An error text is decoded when it is printed, so one *)
(* that cannot be decoded ends the main thread, not the worker.            *)
(***************************************************************************)
EXTENDS Integers, Sequences, FiniteSets

CONSTANTS
  Worker,   (* the worker threads, one for each capability                  *)
  Test,     (* the test programs                                            *)
  Fails,    (* the tests that describe a compile time failure               *)
  Runs,     (* of the others, the runs in order: TRUE for a "compiled" one  *)
  Modes,    (* the modes futhark-test is started in                         *)
  Nothing   (* what an empty MVar holds                                     *)

AllModes == {"TypeCheck", "Compile", "Compiled", "Interpreted", "Everything"}

(* A failure with a text that cannot be decoded is "garbled".               *)
Result == {"Success", "Failure", "garbled"}

ASSUME TestAssumption ==
  /\ IsFiniteSet(Test) /\ IsFiniteSet(Worker) /\ Worker # {}
  /\ Fails \subseteq Test
  /\ Nothing \notin Test /\ Nothing \notin Test \X Result
  /\ Modes \subseteq AllModes
  /\ Runs \in [Test \ Fails -> Seq(BOOLEAN)]

VARIABLES
  mode,       (* configTestMode                                             *)
  included,   (* included_set                                               *)
  toFeed,     (* the tests the feeder has not put into testmvar yet         *)
  testmvar, resmvar,  (* the MVars                                          *)
  test,       (* of every worker: the test it is busy with                  *)
  stage,      (* of every worker: the call it makes next                    *)
  run,        (* of every worker: the number of the run                     *)
  result,     (* of every worker: what it hands over                        *)
  binary,     (* of every test: where the compiled program comes from       *)
  remaining, failed, passed,  (* the arguments of getResults                *)
  main,       (* the state of the main thread, or its exit code             *)
  broken      (* history, for properties: the tests some call failed for    *)

mvars == <<toFeed, testmvar, resmvar>>
workers == <<test, stage, run, result>>
counts == <<remaining, failed, passed>>
vars == <<mode, included, mvars, workers, binary, counts, main, broken>>

Init ==
  /\ mode \in Modes
  /\ included \in SUBSET Test
  /\ toFeed = included
  /\ testmvar = Nothing /\ resmvar = Nothing
  /\ test = [w \in Worker |-> Nothing]
  /\ stage = [w \in Worker |-> "idle"]
  /\ run = [w \in Worker |-> 1]
  /\ result = [w \in Worker |-> "Success"]
  /\ binary \in [Test -> {"none", "old"}]
  /\ remaining = included /\ failed = 0 /\ passed = 0
  /\ main = "waits"
  /\ broken = {}

-----------------------------------------------------------------------------
(* mapM_ (putMVar testmvar): in the order of the names, which nothing below *)
(* depends on.                                                              *)
Feed ==
  /\ testmvar = Nothing
  /\ \E t \in toFeed : testmvar' = t /\ toFeed' = toFeed \ {t}
  /\ UNCHANGED <<mode, included, resmvar, workers, binary, counts, main, broken>>

(* The call for run r of t, if it is to be interpreted, and if there is one.*)
StageOfRun(t, r) ==
  IF r \notin DOMAIN Runs[t] THEN "done"
  ELSE IF mode = "Compiled" \/ Runs[t][r] THEN "execute"
  ELSE "interpret"

AfterCompile(t) == IF mode = "Compile" THEN "done" ELSE StageOfRun(t, 1)

AfterMetrics(t) ==
  IF t \in Fails \/ mode = "TypeCheck" THEN "typecheck"
  ELSE IF mode = "Interpreted" THEN StageOfRun(t, 1)
  ELSE "compile"

FirstStage(t) == IF mode = "TypeCheck" THEN "typecheck" ELSE "metrics"

(* Mutant: the test is read and stays in the MVar.                          *)
TakeTestRead(w) ==
  /\ stage[w] = "idle" /\ testmvar # Nothing
  /\ test' = [test EXCEPT ![w] = testmvar]
  /\ stage' = [stage EXCEPT ![w] = FirstStage(testmvar)]
  /\ run' = [run EXCEPT ![w] = 1]
  /\ UNCHANGED <<mode, included, mvars, result, binary, counts, main, broken>>

(* takeMVar testmvar                                                        *)
TakeTest(w) ==
  /\ stage[w] = "idle" /\ testmvar # Nothing
  /\ test' = [test EXCEPT ![w] = testmvar]
  /\ testmvar' = Nothing
  /\ stage' = [stage EXCEPT ![w] = FirstStage(testmvar)]
  /\ run' = [run EXCEPT ![w] = 1]
  /\ UNCHANGED <<mode, included, toFeed, resmvar, result, binary, counts, main, broken>>

(* The call succeeds and the worker goes on, the last one with Success.     *)
GoOn(w, next) ==
  /\ stage' = [stage EXCEPT ![w] = next]
  /\ result' = [result EXCEPT ![w] = IF next = "done" THEN "Success" ELSE @]

(* The call fails, or an exception is caught.                               *)
GiveUp(w) ==
  /\ \E res \in Result \ {"Success"} : result' = [result EXCEPT ![w] = res]
  /\ stage' = [stage EXCEPT ![w] = "done"]
  /\ broken' = broken \cup {test[w]}
  /\ UNCHANGED <<test, run>>

shared == <<mode, included, mvars, counts, main>>

(* testMetrics: the errors are texts of the test manager itself.            *)
Metrics(w) ==
  /\ stage[w] = "metrics"
  /\ \/ GoOn(w, AfterMetrics(test[w])) /\ UNCHANGED broken
     \/ /\ result' = [result EXCEPT ![w] = "Failure"]
        /\ stage' = [stage EXCEPT ![w] = "done"]
        /\ broken' = broken \cup {test[w]}
  /\ UNCHANGED <<shared, test, run, binary>>

TypeCheck(w) ==
  /\ stage[w] = "typecheck"
  /\ \/ GoOn(w, "done") /\ UNCHANGED <<test, run, broken>>
     \/ GiveUp(w)
  /\ UNCHANGED <<shared, binary>>

(* Mutant: a failing compiler is not an error.                              *)
CompileIgnoringErrors(w) ==
  /\ stage[w] = "compile"
  /\ GoOn(w, AfterCompile(test[w]))
  /\ UNCHANGED <<test, run, broken>>
  /\ binary' \in {binary, [binary EXCEPT ![test[w]] = "new"]}
  /\ UNCHANGED shared

(* compileTestProgram: a compiler that fails leaves the old program.        *)
Compile(w) ==
  /\ stage[w] = "compile"
  /\ \/ /\ GoOn(w, AfterCompile(test[w]))
        /\ binary' = [binary EXCEPT ![test[w]] = "new"]
        /\ UNCHANGED <<test, run, broken>>
     \/ GiveUp(w) /\ UNCHANGED binary
  /\ UNCHANGED shared

Interpret(w) ==
  /\ stage[w] = "interpret"
  /\ \/ GoOn(w, "execute") /\ UNCHANGED <<test, run, broken>>
     \/ GiveUp(w)
  /\ UNCHANGED <<shared, binary>>

(* runCompiledTestProgram, and the next run.                                *)
Execute(w) ==
  /\ stage[w] = "execute"
  /\ \/ /\ binary[test[w]] # "none"
        /\ GoOn(w, StageOfRun(test[w], run[w] + 1))
        /\ run' = [run EXCEPT ![w] = @ + 1]
        /\ UNCHANGED <<test, broken>>
     \/ GiveUp(w)
  /\ UNCHANGED <<shared, binary>>

(* Mutant: a worker that fails ends with its test.                          *)
PutResultOrDie(w) ==
  /\ stage[w] = "done" /\ resmvar = Nothing
  /\ resmvar' = IF result[w] = "Success" THEN <<test[w], result[w]>> ELSE Nothing
  /\ stage' = [stage EXCEPT ![w] = IF result[w] = "Success" THEN "idle" ELSE "died"]
  /\ test' = [test EXCEPT ![w] = Nothing]
  /\ UNCHANGED <<mode, included, toFeed, testmvar, run, result, binary, counts, main, broken>>

(* putMVar resmvar                                                          *)
PutResult(w) ==
  /\ stage[w] = "done" /\ resmvar = Nothing
  /\ resmvar' = <<test[w], result[w]>>
  /\ stage' = [stage EXCEPT ![w] = "idle"]
  /\ test' = [test EXCEPT ![w] = Nothing]
  /\ UNCHANGED <<mode, included, toFeed, testmvar, run, result, binary, counts, main, broken>>

(* Mutant: failures are printed and counted as passed.                      *)
TakeResultAsPassed ==
  /\ remaining # {} /\ resmvar # Nothing
  /\ resmvar' = Nothing
  /\ IF resmvar[2] = "garbled"
     THEN main' = "died" /\ UNCHANGED <<remaining, passed>>
     ELSE /\ remaining' = remaining \ {resmvar[1]}
          /\ passed' = passed + 1
          /\ UNCHANGED main
  /\ UNCHANGED <<mode, included, toFeed, testmvar, workers, binary, failed, broken>>

(* getResults, with a result; the text of a failure is printed.             *)
TakeResult ==
  /\ remaining # {} /\ resmvar # Nothing
  /\ resmvar' = Nothing
  /\ IF resmvar[2] = "garbled"
     THEN main' = "died" /\ UNCHANGED counts
     ELSE /\ remaining' = remaining \ {resmvar[1]}
          /\ IF resmvar[2] = "Success" THEN passed' = passed + 1 /\ UNCHANGED failed
             ELSE failed' = failed + 1 /\ UNCHANGED passed
          /\ UNCHANGED main
  /\ UNCHANGED <<mode, included, toFeed, testmvar, workers, binary, broken>>

(* getResults, with nothing remaining: the end of the process.              *)
Exit ==
  /\ remaining = {}
  /\ main' = IF failed = 0 THEN "exit0" ELSE "exit1"
  /\ UNCHANGED <<mode, included, mvars, workers, binary, counts, broken>>

WorkerStep(w) ==
  \/ TakeTest(w) \/ Metrics(w) \/ TypeCheck(w) \/ Compile(w)
  \/ Interpret(w) \/ Execute(w) \/ PutResult(w)

MainStep == TakeResult \/ Exit

(* All threads end with the main thread.                                    *)
Next == main = "waits" /\ (Feed \/ MainStep \/ \E w \in Worker : WorkerStep(w))

(* The threads of the run-time system are scheduled fairly, and the         *)
(* programs that are called come to an end.                                 *)
Fairness ==
  /\ WF_vars(main = "waits" /\ Feed)
  /\ WF_vars(main = "waits" /\ MainStep)
  /\ \A w \in Worker : WF_vars(main = "waits" /\ WorkerStep(w))

Spec == Init /\ [][Next]_vars /\ Fairness

-----------------------------------------------------------------------------
(* The variables keep their types.                                          *)
TypeOK ==
  /\ mode \in Modes /\ included \subseteq Test
  /\ toFeed \subseteq included /\ remaining \subseteq included
  /\ testmvar \in included \cup {Nothing}
  /\ resmvar \in {Nothing} \cup included \X Result
  /\ test \in [Worker -> included \cup {Nothing}]
  /\ stage \in [Worker -> {"idle", "metrics", "typecheck", "compile",
                           "interpret", "execute", "done"}]
  /\ run \in [Worker -> Nat \ {0}]
  /\ result \in [Worker -> Result]
  /\ binary \in [Test -> {"none", "old", "new"}]
  /\ failed \in Nat /\ passed \in Nat
  /\ main \in {"waits", "exit0", "exit1", "died"}
  /\ broken \subseteq included

(* The tests on their way, and where they are.                              *)
OfWorkers == {test[w] : w \in Worker} \ {Nothing}
InTestMVar == {testmvar} \ {Nothing}
InResMVar == IF resmvar = Nothing THEN {} ELSE {resmvar[1]}

(* Every test that is to be counted is in one place: not yet fed, in one of *)
(* the MVars, or with one worker.  None is lost or checked twice.           *)
OnePlace ==
  /\ main # "died" => remaining = toFeed \cup InTestMVar \cup OfWorkers \cup InResMVar
  /\ toFeed \cap (InTestMVar \cup OfWorkers \cup InResMVar) = {}
  /\ InTestMVar \cap (OfWorkers \cup InResMVar) = {}
  /\ OfWorkers \cap InResMVar = {}
  /\ \A v, w \in Worker : v # w /\ test[v] = test[w] => test[v] = Nothing
  /\ failed + passed + Cardinality(remaining) = Cardinality(included)

(* The exit code tells whether every call for every included test succeeded.*)
ExitTells ==
  /\ main = "exit0" => broken = {} /\ passed = Cardinality(included)
  /\ main = "exit1" => broken # {}

(* Apart from the mode without a compiler, what is executed was compiled by *)
(* this test, and is no program left from before.                           *)
FreshBinary ==
  \A w \in Worker : stage[w] = "execute" /\ mode # "Interpreted" =>
    binary[test[w]] = "new"

(* The main thread comes to an end: no result is lost, and no thread waits  *)
(* for a hand-over that never comes.                                        *)
Termination == <>(main # "waits")
=============================================================================
