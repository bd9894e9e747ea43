------------------------- MODULE TestManager_proofs -------------------------
(***************************************************************************)
(* That the test manager loses no test, counts none twice, executes only   *)
(* what it has compiled, and ends with the right exit code, for any number *)
(* of workers and tests.                                                   *)
(***************************************************************************)
EXTENDS TestManager, FiniteSetTheorems, TLAPS

(* A worker has a test exactly if it is not idle.                           *)
Busy == \A w \in Worker : stage[w] = "idle" <=> test[w] = Nothing

(* What is known of a test on its way: only a worker that is done with it,  *)
(* or a result, can be one of a broken test, and then is no success.        *)
Verdicts ==
  /\ broken \cap (toFeed \cup InTestMVar) = {}
  /\ \A w \in Worker : test[w] \in broken <=> stage[w] = "done" /\ result[w] # "Success"
  /\ resmvar # Nothing => (resmvar[1] \in broken <=> resmvar[2] # "Success")
  /\ failed = 0 <=> broken \cap (included \ remaining) = {}

(* Whatever is interpreted or executed has been compiled before.            *)
Compiled ==
  \A w \in Worker : stage[w] \in {"interpret", "execute"} /\ mode # "Interpreted" =>
    binary[test[w]] = "new"

IInv == TypeOK /\ OnePlace /\ Busy /\ Verdicts /\ Compiled /\ ExitTells

-----------------------------------------------------------------------------
(* The parts of the invariant that say where tests are.                     *)
LEMMA InitInv == Init => IInv
<1> SUFFICES ASSUME Init PROVE IInv
  OBVIOUS
<1> USE DEF Init
<1>1. IsFiniteSet(included)
  BY TestAssumption, FS_Subset
<1>2. Cardinality(included) \in Nat
  BY <1>1, FS_CardinalityType
<1>3. TypeOK
  BY DEF TypeOK, Result
<1>4. OfWorkers = {} /\ InTestMVar = {} /\ InResMVar = {}
  BY DEF OfWorkers, InTestMVar, InResMVar
<1>5. OnePlace
  BY <1>2, <1>4 DEF OnePlace
<1>6. Busy
  BY DEF Busy
<1>7. Verdicts
  BY <1>4 DEF Verdicts
<1>8. Compiled
  BY DEF Compiled
<1>9. ExitTells
  BY DEF ExitTells
<1> QED
  BY <1>3, <1>5, <1>6, <1>7, <1>8, <1>9 DEF IInv

(* Numbers of tests change by one with the test that is counted.            *)
LEMMA OneLess ==
  ASSUME NEW S \in SUBSET Test, NEW t \in S
  PROVE  /\ Cardinality(S) \in Nat
         /\ Cardinality(S \ {t}) \in Nat
         /\ Cardinality(S \ {t}) = Cardinality(S) - 1
<1>1. IsFiniteSet(S)
  BY TestAssumption, FS_Subset
<1>2. IsFiniteSet(S \ {t}) /\ Cardinality(S \ {t}) = Cardinality(S) - 1
  BY <1>1, FS_RemoveElement
<1> QED
  BY <1>1, <1>2, FS_CardinalityType

LEMMA FeedInv == IInv /\ main = "waits" /\ Feed => IInv'
<1> SUFFICES ASSUME IInv, main = "waits", Feed PROVE IInv'
  OBVIOUS
<1> USE DEF vars, mvars, workers, counts
<1>1. PICK t \in toFeed : testmvar' = t /\ toFeed' = toFeed \ {t}
  BY DEF Feed
<1>2. TypeOK /\ OnePlace /\ Busy /\ Verdicts /\ Compiled /\ ExitTells
  BY DEF IInv
<1>3. /\ testmvar = Nothing
      /\ UNCHANGED <<mode, included, resmvar, test, stage, run, result, binary,
                     remaining, failed, passed, main, broken>>
  BY DEF Feed
<1>4. t \in included /\ t # Nothing
  BY <1>2, TestAssumption DEF TypeOK
<1>5. OfWorkers' = OfWorkers /\ InResMVar' = InResMVar /\ InTestMVar = {} /\ InTestMVar' = {t}
  BY <1>1, <1>3, <1>4 DEF OfWorkers, InResMVar, InTestMVar
<1>6. TypeOK'
  BY <1>1, <1>2, <1>3, <1>4 DEF TypeOK
<1>7. OnePlace'
  BY <1>1, <1>2, <1>3, <1>5 DEF OnePlace
<1>8. Busy' /\ Compiled' /\ ExitTells'
  BY <1>2, <1>3 DEF Busy, Compiled, ExitTells
<1>9. Verdicts'
  BY <1>1, <1>2, <1>3, <1>5 DEF Verdicts
<1> QED
  BY <1>6, <1>7, <1>8, <1>9 DEF IInv

LEMMA TakeTestInv ==
  ASSUME IInv, main = "waits", NEW w \in Worker, TakeTest(w)
  PROVE  IInv'
<1> DEFINE t == testmvar
<1>1. TypeOK /\ OnePlace /\ Busy /\ Verdicts /\ Compiled /\ ExitTells
  BY DEF IInv
<1>2. /\ stage[w] = "idle" /\ t # Nothing /\ testmvar' = Nothing
      /\ test' = [test EXCEPT ![w] = t]
      /\ stage' = [stage EXCEPT ![w] = FirstStage(t)]
      /\ run' = [run EXCEPT ![w] = 1]
      /\ UNCHANGED <<mode, included, toFeed, resmvar, result, binary,
                     remaining, failed, passed, main, broken>>
  BY DEF TakeTest, counts
<1>3. FirstStage(t) \in {"typecheck", "metrics"}
  BY DEF FirstStage
<1>4. t \in included /\ test[w] = Nothing
  BY <1>1, <1>2 DEF TypeOK, Busy
<1>5. /\ OfWorkers' = OfWorkers \cup {t}
      /\ InResMVar' = InResMVar /\ InTestMVar = {t} /\ InTestMVar' = {}
  <2>1. \A v \in Worker : test'[v] = IF v = w THEN t ELSE test[v]
    BY <1>1, <1>2 DEF TypeOK
  <2>2. OfWorkers' = OfWorkers \cup {t}
    BY <2>1, <1>2, <1>4 DEF OfWorkers
  <2> QED
    BY <2>2, <1>2 DEF InResMVar, InTestMVar
<1>6. t \notin broken /\ t \notin OfWorkers
  BY <1>1, <1>5 DEF Verdicts, OnePlace
<1>7. TypeOK'
  BY <1>1, <1>2, <1>3, <1>4 DEF TypeOK
<1>8. OnePlace'
  <2>1. \A u, v \in Worker : u # v /\ test'[u] = test'[v] => test'[u] = Nothing
    BY <1>1, <1>2, <1>6 DEF OnePlace, TypeOK, OfWorkers
  <2> QED
    BY <2>1, <1>1, <1>2, <1>5, <1>6 DEF OnePlace
<1>9. Busy'
  BY <1>1, <1>2, <1>3 DEF Busy, TypeOK
<1>10. Verdicts'
  <2>1. \A v \in Worker : test'[v] \in broken <=> stage'[v] = "done" /\ result[v] # "Success"
    BY <1>1, <1>2, <1>3, <1>6 DEF Verdicts, TypeOK
  <2> QED
    BY <2>1, <1>1, <1>2, <1>5 DEF Verdicts
<1>11. Compiled'
  BY <1>1, <1>2, <1>3 DEF Compiled, TypeOK
<1>12. ExitTells'
  BY <1>1, <1>2 DEF ExitTells
<1> QED
  BY <1>7, <1>8, <1>9, <1>10, <1>11, <1>12 DEF IInv

(* A worker calls a program: it goes on with its test, or is done with it,  *)
(* and the test becomes broken exactly if the result is no success.         *)
LEMMA CallInv ==
  ASSUME IInv, main = "waits", NEW w \in Worker, stage[w] \notin {"idle", "done"},
         NEW next \in {"metrics", "typecheck", "compile", "interpret", "execute", "done"},
         NEW res \in Result,
         UNCHANGED <<shared, test>>,
         stage' = [stage EXCEPT ![w] = next],
         result' = [result EXCEPT ![w] = res],
         run' \in [Worker -> Nat \ {0}],
         binary' \in [Test -> {"none", "old", "new"}],
         \A t \in Test : binary[t] = "new" => binary'[t] = "new",
         IF next = "done" /\ res # "Success" THEN broken' = broken \cup {test[w]}
         ELSE broken' = broken,
         next \in {"interpret", "execute"} /\ mode # "Interpreted" => binary'[test[w]] = "new"
  PROVE  IInv'
<1> USE DEF shared, mvars, counts
<1>1. TypeOK /\ OnePlace /\ Busy /\ Verdicts /\ Compiled /\ ExitTells
  BY DEF IInv
<1>2. test[w] \in included /\ test[w] # Nothing /\ included \subseteq Test
  BY <1>1 DEF TypeOK, Busy
<1>3. OfWorkers' = OfWorkers /\ InTestMVar' = InTestMVar /\ InResMVar' = InResMVar
  BY DEF OfWorkers, InTestMVar, InResMVar
<1>4. test[w] \in OfWorkers /\ test[w] \notin broken
  BY <1>1, <1>2 DEF OfWorkers, Verdicts
<1>5. TypeOK'
  BY <1>1, <1>2 DEF TypeOK
<1>6. OnePlace'
  BY <1>1, <1>3 DEF OnePlace
<1>7. Busy'
  BY <1>1, <1>2 DEF Busy, TypeOK
<1>8. Verdicts'
  <2>1. test[w] \in remaining /\ test[w] \notin toFeed \cup InTestMVar \cup InResMVar
    BY <1>1, <1>4 DEF OnePlace
  <2>2. broken' \cap (toFeed' \cup InTestMVar') = {}
    BY <1>1, <1>3, <2>1 DEF Verdicts
  <2>3. ASSUME NEW v \in Worker
        PROVE  test'[v] \in broken' <=> stage'[v] = "done" /\ result'[v] # "Success"
    <3>1. CASE v = w
      BY <3>1, <1>1, <1>4 DEF TypeOK
    <3>2. CASE v # w
      <4>1. test[v] # test[w]
        BY <3>2, <1>1, <1>2 DEF OnePlace
      <4>2. stage'[v] = stage[v] /\ result'[v] = result[v]
        BY <3>2, <1>1 DEF TypeOK
      <4> QED
        BY <4>1, <4>2, <1>1 DEF Verdicts
    <3> QED
      BY <3>1, <3>2
  <2>4. resmvar' # Nothing => (resmvar'[1] \in broken' <=> resmvar'[2] # "Success")
    BY <1>1, <2>1 DEF Verdicts, InResMVar
  <2>5. broken' \cap (included' \ remaining') = broken \cap (included \ remaining)
    BY <2>1
  <2> QED
    BY <2>2, <2>3, <2>4, <2>5, <1>1 DEF Verdicts
<1>9. Compiled'
  <2>1. ASSUME NEW v \in Worker, stage'[v] \in {"interpret", "execute"}, mode' # "Interpreted"
        PROVE  binary'[test'[v]] = "new"
    <3>1. CASE v = w
      BY <2>1, <3>1, <1>1 DEF TypeOK
    <3>2. CASE v # w
      <4>1. stage[v] \in {"interpret", "execute"}
        BY <2>1, <3>2, <1>1 DEF TypeOK
      <4>2. binary[test[v]] = "new" /\ test[v] \in Test
        BY <2>1, <4>1, <1>1 DEF Compiled, Busy, TypeOK
      <4> QED
        BY <4>2
    <3> QED
      BY <3>1, <3>2
  <2> QED
    BY <2>1 DEF Compiled
<1>10. ExitTells'
  BY <1>1 DEF ExitTells
<1> QED
  BY <1>5, <1>6, <1>7, <1>8, <1>9, <1>10 DEF IInv

(* Where a worker goes after a call.                                        *)
LEMMA NextStages ==
  ASSUME NEW t, NEW r
  PROVE  /\ StageOfRun(t, r) \in {"interpret", "execute", "done"}
         /\ AfterCompile(t) \in {"interpret", "execute", "done"}
         /\ AfterMetrics(t) \in {"typecheck", "compile", "interpret", "execute", "done"}
         /\ mode # "Interpreted" => AfterMetrics(t) \in {"typecheck", "compile"}
<1>1. \A s : StageOfRun(t, s) \in {"interpret", "execute", "done"}
  BY DEF StageOfRun
<1> QED
  BY <1>1 DEF AfterCompile, AfterMetrics

(* A call that fails.                                                       *)
LEMMA GiveUpInv ==
  ASSUME IInv, main = "waits", NEW w \in Worker, stage[w] \notin {"idle", "done"},
         GiveUp(w), UNCHANGED <<shared, binary>>
  PROVE  IInv'
<1>1. PICK res \in Result \ {"Success"} :
        /\ result' = [result EXCEPT ![w] = res]
        /\ stage' = [stage EXCEPT ![w] = "done"]
        /\ broken' = broken \cup {test[w]}
        /\ UNCHANGED <<test, run>>
  BY DEF GiveUp
<1>2. /\ run' \in [Worker -> Nat \ {0}]
      /\ binary' \in [Test -> {"none", "old", "new"}]
  BY <1>1 DEF IInv, TypeOK
<1> QED
  BY <1>1, <1>2, CallInv

(* A call that succeeds, with the binary and the run it leaves.             *)
LEMMA GoOnInv ==
  ASSUME IInv, main = "waits", NEW w \in Worker, stage[w] \notin {"idle", "done"},
         NEW next \in {"metrics", "typecheck", "compile", "interpret", "execute", "done"},
         GoOn(w, next), UNCHANGED <<shared, test, broken>>,
         run' \in [Worker -> Nat \ {0}],
         binary' \in [Test -> {"none", "old", "new"}],
         \A t \in Test : binary[t] = "new" => binary'[t] = "new",
         next \in {"interpret", "execute"} /\ mode # "Interpreted" => binary'[test[w]] = "new"
  PROVE  IInv'
<1> DEFINE res == IF next = "done" THEN "Success" ELSE result[w]
<1>1. res \in Result /\ (next = "done" => res = "Success")
  BY DEF IInv, TypeOK, Result
<1>2. /\ result' = [result EXCEPT ![w] = res]
      /\ stage' = [stage EXCEPT ![w] = next]
  BY DEF GoOn
<1> HIDE DEF res
<1> QED
  BY <1>1, <1>2, CallInv

LEMMA CallsInv ==
  ASSUME IInv, main = "waits", NEW w \in Worker,
         Metrics(w) \/ TypeCheck(w) \/ Compile(w) \/ Interpret(w) \/ Execute(w)
  PROVE  IInv'
<1>1. /\ run \in [Worker -> Nat \ {0}] /\ result \in [Worker -> Result]
      /\ binary \in [Test -> {"none", "old", "new"}]
      /\ test[w] \in included \cup {Nothing} /\ included \subseteq Test
  BY DEF IInv, TypeOK
<1>2. CASE Metrics(w)
  <2>1. CASE GoOn(w, AfterMetrics(test[w])) /\ UNCHANGED broken
    BY <1>1, <1>2, <2>1, NextStages, GoOnInv DEF Metrics
  <2>2. CASE /\ result' = [result EXCEPT ![w] = "Failure"]
             /\ stage' = [stage EXCEPT ![w] = "done"]
             /\ broken' = broken \cup {test[w]}
    <3>1. "Failure" \in Result \ {"Success"}
      BY DEF Result
    <3>2. GiveUp(w)
      BY <1>2, <2>2, <3>1 DEF Metrics, GiveUp
    <3> QED
      BY <1>2, <3>2, GiveUpInv DEF Metrics
  <2> QED
    BY <1>2, <2>1, <2>2 DEF Metrics
<1>3. CASE TypeCheck(w)
  <2>1. CASE GoOn(w, "done") /\ UNCHANGED <<test, run, broken>>
    BY <1>1, <1>3, <2>1, GoOnInv DEF TypeCheck
  <2> QED
    BY <1>3, <2>1, GiveUpInv DEF TypeCheck
<1>4. CASE Compile(w)
  <2>1. CASE /\ GoOn(w, AfterCompile(test[w]))
             /\ binary' = [binary EXCEPT ![test[w]] = "new"]
             /\ UNCHANGED <<test, run, broken>>
    <3>1. stage[w] = "compile" /\ UNCHANGED shared
      BY <1>4 DEF Compile
    <3>2. test[w] \in Test
      BY <1>1, <3>1 DEF IInv, Busy
    <3>3. /\ binary' \in [Test -> {"none", "old", "new"}]
          /\ \A t \in Test : binary[t] = "new" => binary'[t] = "new"
          /\ binary'[test[w]] = "new"
      BY <1>1, <2>1, <3>2
    <3> QED
      BY <1>1, <2>1, <3>1, <3>3, NextStages, GoOnInv
  <2> QED
    BY <1>4, <2>1, GiveUpInv DEF Compile
<1>5. CASE Interpret(w)
  <2>1. CASE GoOn(w, "execute") /\ UNCHANGED <<test, run, broken>>
    <3>1. stage[w] = "interpret" /\ UNCHANGED <<shared, binary>>
      BY <1>5 DEF Interpret
    <3>2. mode # "Interpreted" => binary[test[w]] = "new"
      BY <3>1 DEF IInv, Compiled
    <3> QED
      BY <1>1, <2>1, <3>1, <3>2, GoOnInv
  <2> QED
    BY <1>5, <2>1, GiveUpInv DEF Interpret
<1>6. CASE Execute(w)
  <2>1. CASE /\ GoOn(w, StageOfRun(test[w], run[w] + 1))
             /\ run' = [run EXCEPT ![w] = @ + 1]
             /\ UNCHANGED <<test, broken>>
    <3>1. stage[w] = "execute" /\ UNCHANGED <<shared, binary>>
      BY <1>6 DEF Execute
    <3>2. mode # "Interpreted" => binary[test[w]] = "new"
      BY <3>1 DEF IInv, Compiled
    <3>3. run' \in [Worker -> Nat \ {0}]
      BY <1>1, <2>1
    <3> QED
      BY <1>1, <2>1, <3>1, <3>2, <3>3, NextStages, GoOnInv
  <2> QED
    BY <1>6, <2>1, GiveUpInv DEF Execute
<1> QED
  BY <1>2, <1>3, <1>4, <1>5, <1>6

(* A pair is not Nothing.                                                   *)
LEMMA ResultsAreSomething ==
  ASSUME TypeOK, NEW t \in included, NEW res \in Result
  PROVE  <<t, res>> # Nothing
BY TestAssumption DEF TypeOK

LEMMA PutResultInv ==
  ASSUME IInv, main = "waits", NEW w \in Worker, PutResult(w)
  PROVE  IInv'
<1> DEFINE t == test[w]
<1>1. TypeOK /\ OnePlace /\ Busy /\ Verdicts /\ Compiled /\ ExitTells
  BY DEF IInv
<1>2. /\ stage[w] = "done" /\ resmvar = Nothing
      /\ resmvar' = <<t, result[w]>>
      /\ stage' = [stage EXCEPT ![w] = "idle"]
      /\ test' = [test EXCEPT ![w] = Nothing]
      /\ UNCHANGED <<mode, included, toFeed, testmvar, run, result, binary,
                     remaining, failed, passed, main, broken>>
  BY DEF PutResult, counts
<1>3. t \in included /\ t # Nothing /\ result[w] \in Result
  BY <1>1, <1>2 DEF TypeOK, Busy
<1>4. \A v \in Worker : test'[v] = IF v = w THEN Nothing ELSE test[v]
  BY <1>1, <1>2 DEF TypeOK
<1>5. \A v \in Worker : v # w => test[v] # t
  BY <1>1, <1>3 DEF OnePlace
<1>6. resmvar' # Nothing
  BY <1>1, <1>2, <1>3, ResultsAreSomething
<1>7. /\ OfWorkers = OfWorkers' \cup {t} /\ t \notin OfWorkers'
      /\ InTestMVar' = InTestMVar /\ InResMVar = {} /\ InResMVar' = {t}
  <2>1. OfWorkers = OfWorkers' \cup {t} /\ t \notin OfWorkers'
    BY <1>3, <1>4, <1>5 DEF OfWorkers
  <2> QED
    BY <1>2, <1>6, <2>1 DEF InTestMVar, InResMVar
<1>8. TypeOK'
  BY <1>1, <1>2, <1>3 DEF TypeOK
<1>9. OnePlace'
  <2>1. \A u, v \in Worker : u # v /\ test'[u] = test'[v] => test'[u] = Nothing
    BY <1>1, <1>4 DEF OnePlace
  <2> QED
    BY <2>1, <1>1, <1>2, <1>7 DEF OnePlace
<1>10. Busy'
  BY <1>1, <1>2, <1>4 DEF Busy, TypeOK
<1>11. Verdicts'
  <2>1. t \in broken <=> result[w] # "Success"
    BY <1>1, <1>2 DEF Verdicts
  <2>2. ASSUME NEW v \in Worker
        PROVE  test'[v] \in broken <=> stage'[v] = "done" /\ result[v] # "Success"
    BY <1>1, <1>2, <1>4, TestAssumption DEF Verdicts, TypeOK
  <2> QED
    BY <2>1, <2>2, <1>1, <1>2, <1>7 DEF Verdicts
<1>12. Compiled'
  BY <1>1, <1>2, <1>4 DEF Compiled, TypeOK
<1>13. ExitTells'
  BY <1>1, <1>2 DEF ExitTells
<1> QED
  BY <1>8, <1>9, <1>10, <1>11, <1>12, <1>13 DEF IInv

LEMMA TakeResultInv == IInv /\ main = "waits" /\ TakeResult => IInv'
<1> SUFFICES ASSUME IInv, main = "waits", TakeResult PROVE IInv'
  OBVIOUS
<1> DEFINE t == resmvar[1]
<1>1. TypeOK /\ OnePlace /\ Busy /\ Verdicts /\ Compiled /\ ExitTells
  BY DEF IInv
<1>2. /\ resmvar # Nothing /\ resmvar' = Nothing
      /\ UNCHANGED <<mode, included, toFeed, testmvar, test, stage, run, result,
                     binary, broken>>
  BY DEF TakeResult, workers
<1>3. t \in included /\ resmvar[2] \in Result
  BY <1>1, <1>2 DEF TypeOK
<1>4. /\ OfWorkers' = OfWorkers /\ InTestMVar' = InTestMVar
      /\ InResMVar = {t} /\ InResMVar' = {}
  BY <1>2 DEF OfWorkers, InTestMVar, InResMVar
<1>5. Busy' /\ Compiled'
  BY <1>1, <1>2 DEF Busy, Compiled
<1>6. CASE resmvar[2] = "garbled"
  <2>1. main' = "died" /\ UNCHANGED <<remaining, failed, passed>>
    BY <1>6 DEF TakeResult, counts
  <2>2. TypeOK'
    BY <1>1, <1>2, <2>1 DEF TypeOK
  <2>3. OnePlace'
    BY <1>1, <1>2, <1>4, <2>1 DEF OnePlace
  <2>4. Verdicts'
    BY <1>1, <1>2, <1>4, <2>1 DEF Verdicts
  <2>5. ExitTells'
    BY <2>1 DEF ExitTells
  <2> QED
    BY <1>5, <2>2, <2>3, <2>4, <2>5 DEF IInv
<1>7. CASE resmvar[2] # "garbled"
  <2>1. /\ remaining' = remaining \ {t} /\ main' = main
        /\ IF resmvar[2] = "Success" THEN passed' = passed + 1 /\ failed' = failed
           ELSE failed' = failed + 1 /\ passed' = passed
    BY <1>7 DEF TakeResult
  <2>2. t \in remaining /\ remaining \in SUBSET Test
    BY <1>1, <1>4 DEF OnePlace, TypeOK
  <2>3. TypeOK'
    BY <1>1, <1>2, <2>1 DEF TypeOK
  <2>4. failed' + passed' + Cardinality(remaining') = Cardinality(included')
    <3>1. /\ Cardinality(remaining \ {t}) = Cardinality(remaining) - 1
          /\ Cardinality(remaining) \in Nat
      BY <2>2, OneLess
    <3> QED
      BY <3>1, <2>1, <1>1, <1>2 DEF OnePlace, TypeOK
  <2>5. OnePlace'
    BY <1>1, <1>2, <1>4, <2>1, <2>4 DEF OnePlace
  <2>6. failed' = 0 <=> broken' \cap (included' \ remaining') = {}
    <3>1. t \in broken <=> resmvar[2] # "Success"
      BY <1>1, <1>2 DEF Verdicts
    <3>2. included' \ remaining' = (included \ remaining) \cup {t}
      BY <1>2, <1>3, <2>1
    <3>3. CASE resmvar[2] = "Success"
      BY <3>1, <3>2, <3>3, <2>1, <1>1, <1>2 DEF Verdicts
    <3>4. CASE resmvar[2] # "Success"
      <4>1. failed' # 0
        BY <3>4, <2>1, <1>1 DEF TypeOK
      <4> QED
        BY <4>1, <3>1, <3>2, <3>4, <1>2
    <3> QED
      BY <3>3, <3>4
  <2>7. Verdicts'
    BY <1>1, <1>2, <1>4, <2>6 DEF Verdicts
  <2>8. ExitTells'
    BY <2>1 DEF ExitTells
  <2> QED
    BY <1>5, <2>3, <2>5, <2>7, <2>8 DEF IInv
<1> QED
  BY <1>6, <1>7

LEMMA ExitInv == IInv /\ main = "waits" /\ Exit => IInv'
<1> SUFFICES ASSUME IInv, main = "waits", Exit PROVE IInv'
  OBVIOUS
<1>1. TypeOK /\ OnePlace /\ Busy /\ Verdicts /\ Compiled /\ ExitTells
  BY DEF IInv
<1>2. /\ remaining = {} /\ main' = IF failed = 0 THEN "exit0" ELSE "exit1"
      /\ UNCHANGED <<mode, included, toFeed, testmvar, resmvar, test, stage, run,
                     result, binary, remaining, failed, passed, broken>>
  BY DEF Exit, mvars, workers, counts
<1>3. UNCHANGED <<OfWorkers, InTestMVar, InResMVar>>
  BY <1>2 DEF OfWorkers, InTestMVar, InResMVar
<1>4. TypeOK' /\ Busy' /\ Compiled'
  BY <1>1, <1>2 DEF TypeOK, Busy, Compiled
<1>5. OnePlace' /\ Verdicts'
  BY <1>1, <1>2, <1>3 DEF OnePlace, Verdicts
<1>6. ExitTells'
  <2>1. failed = 0 <=> broken = {}
    BY <1>1, <1>2 DEF Verdicts, TypeOK
  <2>2. failed = 0 => passed = Cardinality(included)
    BY <1>1, <1>2, FS_EmptySet DEF OnePlace, TypeOK
  <2> QED
    BY <1>2, <2>1, <2>2 DEF ExitTells
<1> QED
  BY <1>4, <1>5, <1>6 DEF IInv

LEMMA NextInv == IInv /\ [Next]_vars => IInv'
<1> SUFFICES ASSUME IInv, [Next]_vars PROVE IInv'
  OBVIOUS
<1>1. CASE main = "waits" /\ Feed
  BY <1>1, FeedInv
<1>2. CASE main = "waits" /\ MainStep
  BY <1>2, TakeResultInv, ExitInv DEF MainStep
<1>3. ASSUME main = "waits", NEW w \in Worker, WorkerStep(w) PROVE IInv'
  BY <1>3, TakeTestInv, CallsInv, PutResultInv DEF WorkerStep
<1>4. CASE UNCHANGED vars
  BY <1>4 DEF vars, mvars, workers, counts, IInv, TypeOK, OnePlace, Busy, Verdicts,
     Compiled, ExitTells, OfWorkers, InTestMVar, InResMVar
<1> QED
  BY <1>1, <1>2, <1>3, <1>4 DEF Next

-----------------------------------------------------------------------------
(* The inductive invariant holds in every state.                            *)
THEOREM Invariance == Spec => []IInv
<1> QED
  BY InitInv, NextInv, PTL DEF Spec

(* TypeOK: the variables keep their types.                                  *)
THEOREM TypeCorrect == Spec => []TypeOK
<1>1. IInv => TypeOK
  BY DEF IInv
<1> QED
  BY <1>1, Invariance, PTL

(* OnePlace: no test is lost, checked twice, or counted twice.              *)
THEOREM NoTestLost == Spec => []OnePlace
<1>1. IInv => OnePlace
  BY DEF IInv
<1> QED
  BY <1>1, Invariance, PTL

(* ExitTells: the exit code tells whether all calls succeeded.              *)
THEOREM ExitCodeCorrect == Spec => []ExitTells
<1>1. IInv => ExitTells
  BY DEF IInv
<1> QED
  BY <1>1, Invariance, PTL

(* FreshBinary: except without a compiler, only programs this session has   *)
(* compiled are executed.                                                   *)
THEOREM NothingStale == Spec => []FreshBinary
<1>1. IInv => FreshBinary
  BY DEF IInv, Compiled, FreshBinary
<1> QED
  BY <1>1, Invariance, PTL

-----------------------------------------------------------------------------
(* The way of a test: from the feeder (0) through testmvar (1) to a worker  *)
(* (2), through resmvar (3) to the main thread, which counts it (4).        *)
Where(t) ==
  IF t \in toFeed THEN 0 ELSE IF t \in InTestMVar THEN 1
  ELSE IF t \in OfWorkers THEN 2 ELSE IF t \in InResMVar THEN 3 ELSE 4

RunsOf(t) == IF t \in Fails THEN 0 ELSE Len(Runs[t])

(* How many calls worker w may still make for its test.                     *)
CallsLeft(w) ==
  LET n == RunsOf(test[w])
  IN CASE stage[w] = "metrics"   -> 2 * n + 2
       [] stage[w] = "compile"   -> 2 * n + 1
       [] stage[w] = "interpret" -> 2 * (n - run[w]) + 2
       [] stage[w] = "execute"   -> 2 * (n - run[w]) + 1
       [] stage[w] = "typecheck" -> 1
       [] OTHER                  -> 0

(* The runs of a test are made in their order, and only its own.            *)
Planned ==
  \A w \in Worker :
    /\ stage[w] \in {"metrics", "compile"} => run[w] = 1
    /\ stage[w] \in {"compile", "interpret", "execute"} => test[w] \notin Fails
    /\ stage[w] \in {"interpret", "execute"} => run[w] \in DOMAIN Runs[test[w]]

(* Test t moves on by one place, and nothing else does.                     *)
Moves(t) ==
  /\ Where(t)' = Where(t) + 1
  /\ \A u \in included : u # t => Where(u)' = Where(u)

(* Worker w has made a call, and all tests stay where they are.             *)
Calls(w) ==
  /\ CallsLeft(w)' < CallsLeft(w)
  /\ \A v \in Worker : v # w => CallsLeft(v)' = CallsLeft(v)
  /\ \A t \in included : Where(t)' = Where(t)
  /\ test' = test

(* What any step is: nothing goes back, and nothing goes on for ever.       *)
GetsOn ==
  \/ \E t \in included : Moves(t)
  \/ \E w \in Worker : Calls(w)
  \/ main' \in {"exit0", "exit1"} /\ \A t \in included : Where(t)' = Where(t)

LEMMA RunsType ==
  ASSUME NEW t \in Test
  PROVE  /\ RunsOf(t) \in Nat
         /\ t \notin Fails => /\ DOMAIN Runs[t] = 1..RunsOf(t)
                              /\ Runs[t] \in Seq(BOOLEAN)
<1>1. t \notin Fails => Runs[t] \in Seq(BOOLEAN)
  BY TestAssumption
<1>2. t \notin Fails => Len(Runs[t]) \in Nat /\ DOMAIN Runs[t] = 1..Len(Runs[t])
  BY <1>1
<1> QED
  BY <1>1, <1>2 DEF RunsOf

(* A worker's call in terms of the stages and the number of the run.        *)
LEMMA CallSteps ==
  ASSUME IInv, NEW w \in Worker,
         Metrics(w) \/ TypeCheck(w) \/ Compile(w) \/ Interpret(w) \/ Execute(w)
  PROVE  /\ UNCHANGED <<included, toFeed, testmvar, resmvar, test>>
         /\ stage[w] \notin {"idle", "done"}
         /\ \E next : stage' = [stage EXCEPT ![w] = next]
         /\ \A v \in Worker : v # w => stage'[v] = stage[v] /\ run'[v] = run[v]
         /\ \/ stage'[w] = "done"
            \/ /\ stage[w] = "metrics" /\ stage'[w] = AfterMetrics(test[w])
               /\ run'[w] = run[w]
            \/ /\ stage[w] = "compile" /\ stage'[w] = AfterCompile(test[w])
               /\ run'[w] = run[w]
            \/ stage[w] = "interpret" /\ stage'[w] = "execute" /\ run'[w] = run[w]
            \/ /\ stage[w] = "execute" /\ run'[w] = run[w] + 1
               /\ stage'[w] = StageOfRun(test[w], run[w] + 1)
<1>1. stage \in [Worker -> {"idle", "metrics", "typecheck", "compile",
                            "interpret", "execute", "done"}]
      /\ run \in [Worker -> Nat \ {0}]
  BY DEF IInv, TypeOK
<1> USE <1>1 DEF shared, mvars, counts, GoOn, GiveUp
<1>2. CASE Metrics(w)
  BY <1>2 DEF Metrics
<1>3. CASE TypeCheck(w)
  BY <1>3 DEF TypeCheck
<1>4. CASE Compile(w)
  BY <1>4 DEF Compile
<1>5. CASE Interpret(w)
  BY <1>5 DEF Interpret
<1>6. CASE Execute(w)
  BY <1>6 DEF Execute
<1> QED
  BY <1>2, <1>3, <1>4, <1>5, <1>6

(* A call keeps to the plan, and leaves fewer calls.                        *)
LEMMA CallPlanned ==
  ASSUME IInv, Planned, NEW w \in Worker,
         Metrics(w) \/ TypeCheck(w) \/ Compile(w) \/ Interpret(w) \/ Execute(w)
  PROVE  Planned' /\ Calls(w)
<1>1. /\ UNCHANGED <<included, toFeed, testmvar, resmvar, test>>
      /\ stage[w] \notin {"idle", "done"}
      /\ \A v \in Worker : v # w => stage'[v] = stage[v] /\ run'[v] = run[v]
  BY CallSteps
<1> DEFINE t == test[w]
           n == RunsOf(t)
<1>2. /\ t \in Test /\ run[w] \in Nat \ {0}
      /\ stage[w] \in {"metrics", "typecheck", "compile", "interpret", "execute"}
  BY <1>1 DEF IInv, TypeOK, Busy
<1>3. /\ n \in Nat /\ (t \notin Fails => DOMAIN Runs[t] = 1..n)
      /\ t \in Fails => n = 0
  BY <1>2, RunsType DEF RunsOf
<1>4. /\ stage[w] \in {"metrics", "compile"} => run[w] = 1
      /\ stage[w] \in {"compile", "interpret", "execute"} => t \notin Fails
      /\ stage[w] \in {"interpret", "execute"} => run[w] \in 1..n
  BY <1>3 DEF Planned
<1>5. ASSUME NEW r \in Nat \ {0}, t \notin Fails
      PROVE  /\ StageOfRun(t, r) \in {"interpret", "execute"} => r <= n
             /\ StageOfRun(t, r) \in {"interpret", "execute", "done"}
  BY <1>3, <1>5 DEF StageOfRun
<1>6. Planned'
  <2> SUFFICES ASSUME NEW v \in Worker
               PROVE  /\ stage'[v] \in {"metrics", "compile"} => run'[v] = 1
                      /\ stage'[v] \in {"compile", "interpret", "execute"} => test[v] \notin Fails
                      /\ stage'[v] \in {"interpret", "execute"} => run'[v] \in DOMAIN Runs[test[v]]
    BY <1>1 DEF Planned
  <2>1. CASE v # w
    BY <2>1, <1>1 DEF Planned
  <2>2. CASE v = w /\ stage'[w] = "done"
    BY <2>2
  <2>3. CASE v = w /\ stage[w] = "metrics" /\ stage'[w] = AfterMetrics(t) /\ run'[w] = run[w]
    BY <2>3, <1>3, <1>4, <1>5 DEF AfterMetrics
  <2>4. CASE v = w /\ stage[w] = "compile" /\ stage'[w] = AfterCompile(t) /\ run'[w] = run[w]
    BY <2>4, <1>3, <1>4, <1>5 DEF AfterCompile
  <2>5. CASE v = w /\ stage[w] = "interpret" /\ stage'[w] = "execute" /\ run'[w] = run[w]
    BY <2>5, <1>3, <1>4
  <2>6. CASE v = w /\ stage[w] = "execute" /\ run'[w] = run[w] + 1
             /\ stage'[w] = StageOfRun(t, run[w] + 1)
    <3>1. run[w] + 1 \in Nat \ {0}
      BY <1>2
    <3> QED
      BY <2>6, <3>1, <1>3, <1>4, <1>5
  <2> QED
    BY <2>1, <2>2, <2>3, <2>4, <2>5, <2>6, CallSteps
<1>7. CallsLeft(w)' < CallsLeft(w)
  <2> HIDE DEF n, t
  <2>1. CallsLeft(w) = CASE stage[w] = "metrics"   -> 2 * n + 2
                         [] stage[w] = "compile"   -> 2 * n + 1
                         [] stage[w] = "interpret" -> 2 * (n - run[w]) + 2
                         [] stage[w] = "execute"   -> 2 * (n - run[w]) + 1
                         [] stage[w] = "typecheck" -> 1
                         [] OTHER                  -> 0
    BY DEF CallsLeft, n, t
  <2>2. CallsLeft(w)' = CASE stage'[w] = "metrics"   -> 2 * n + 2
                          [] stage'[w] = "compile"   -> 2 * n + 1
                          [] stage'[w] = "interpret" -> 2 * (n - run'[w]) + 2
                          [] stage'[w] = "execute"   -> 2 * (n - run'[w]) + 1
                          [] stage'[w] = "typecheck" -> 1
                          [] OTHER                   -> 0
    BY <1>1 DEF CallsLeft, n, t, RunsOf
  <2>3. CASE stage'[w] = "done"
    BY <2>1, <2>2, <2>3, <1>2, <1>3, <1>4
  <2>4. CASE stage[w] = "metrics" /\ stage'[w] = AfterMetrics(t) /\ run'[w] = run[w]
    <3>1. \/ stage'[w] = "done" \/ stage'[w] = "typecheck" \/ stage'[w] = "compile"
          \/ stage'[w] \in {"interpret", "execute"} /\ 1 <= n
      BY <2>4, <1>3, <1>5 DEF AfterMetrics
    <3> QED
      BY <2>1, <2>2, <2>4, <3>1, <1>2, <1>3, <1>4
  <2>5. CASE stage[w] = "compile" /\ stage'[w] = AfterCompile(t) /\ run'[w] = run[w]
    <3>1. \/ stage'[w] = "done"
          \/ stage'[w] \in {"interpret", "execute"} /\ 1 <= n
      BY <2>5, <1>3, <1>4, <1>5 DEF AfterCompile
    <3> QED
      BY <2>1, <2>2, <2>5, <3>1, <1>2, <1>3, <1>4
  <2>6. CASE stage[w] = "interpret" /\ stage'[w] = "execute" /\ run'[w] = run[w]
    BY <2>1, <2>2, <2>6, <1>2, <1>3, <1>4
  <2>7. CASE stage[w] = "execute" /\ run'[w] = run[w] + 1
             /\ stage'[w] = StageOfRun(t, run[w] + 1)
    <3>1. run[w] + 1 \in Nat \ {0}
      BY <1>2
    <3>2. \/ stage'[w] = "done"
          \/ stage'[w] \in {"interpret", "execute"} /\ run[w] + 1 <= n
      BY <2>7, <3>1, <1>4, <1>5
    <3> QED
      BY <2>1, <2>2, <2>7, <3>2, <1>2, <1>3, <1>4
  <2> QED
    BY <2>3, <2>4, <2>5, <2>6, <2>7, CallSteps DEF t
<1>8. \A v \in Worker : v # w => CallsLeft(v)' = CallsLeft(v)
  BY <1>1 DEF CallsLeft
<1>9. \A u \in included : Where(u)' = Where(u)
  BY <1>1 DEF Where, InTestMVar, OfWorkers, InResMVar
<1> QED
  BY <1>1, <1>6, <1>7, <1>8, <1>9 DEF Calls

(* A taken test moves on, and its worker has a plan for it.                 *)
LEMMA TakeTestGetsOn ==
  ASSUME IInv, Planned, NEW w \in Worker, TakeTest(w)
  PROVE  Planned' /\ \E t \in included : Moves(t)
<1>1. TypeOK /\ OnePlace /\ Busy
  BY DEF IInv
<1> PICK t \in included : t = testmvar
  BY <1>1, TestAssumption DEF TakeTest, TypeOK
<1>2. /\ stage[w] = "idle" /\ t # Nothing /\ testmvar' = Nothing
      /\ test' = [test EXCEPT ![w] = t]
      /\ stage' = [stage EXCEPT ![w] = FirstStage(t)]
      /\ run' = [run EXCEPT ![w] = 1]
      /\ UNCHANGED <<included, toFeed, resmvar>>
  BY DEF TakeTest
<1>3. t \in included /\ test[w] = Nothing
  BY <1>1, <1>2 DEF TypeOK, Busy
<1>4. /\ OfWorkers' = OfWorkers \cup {t}
      /\ InResMVar' = InResMVar /\ InTestMVar = {t} /\ InTestMVar' = {}
  <2>1. \A v \in Worker : test'[v] = IF v = w THEN t ELSE test[v]
    BY <1>1, <1>2 DEF TypeOK
  <2>2. OfWorkers' = OfWorkers \cup {t}
    BY <2>1, <1>2, <1>3 DEF OfWorkers
  <2> QED
    BY <2>2, <1>2 DEF InResMVar, InTestMVar
<1>5. Moves(t)
  BY <1>1, <1>2, <1>3, <1>4 DEF Moves, Where, OnePlace
<1>6. Planned'
  BY <1>1, <1>2 DEF Planned, TypeOK, FirstStage
<1> QED
  BY <1>3, <1>5, <1>6

LEMMA FeedGetsOn ==
  ASSUME IInv, Planned, Feed
  PROVE  Planned' /\ \E t \in included : Moves(t)
<1>1. PICK t \in toFeed : testmvar' = t /\ toFeed' = toFeed \ {t}
  BY DEF Feed
<1>2. TypeOK /\ OnePlace
  BY DEF IInv
<1>3. testmvar = Nothing /\ UNCHANGED <<included, resmvar, test, stage, run>>
  BY DEF Feed, workers
<1>4. t \in included /\ t # Nothing
  BY <1>2, TestAssumption DEF TypeOK
<1>5. OfWorkers' = OfWorkers /\ InResMVar' = InResMVar /\ InTestMVar = {} /\ InTestMVar' = {t}
  BY <1>1, <1>3, <1>4 DEF OfWorkers, InResMVar, InTestMVar
<1>6. Moves(t)
  BY <1>1, <1>2, <1>3, <1>4, <1>5 DEF Moves, Where, OnePlace
<1> QED
  BY <1>3, <1>4, <1>6 DEF Planned

LEMMA PutResultGetsOn ==
  ASSUME IInv, Planned, NEW w \in Worker, PutResult(w)
  PROVE  Planned' /\ \E t \in included : Moves(t)
<1>1. TypeOK /\ OnePlace /\ Busy
  BY DEF IInv
<1> PICK t \in included : t = test[w]
  BY <1>1 DEF PutResult, Busy, TypeOK
<1>2. /\ stage[w] = "done" /\ resmvar = Nothing
      /\ resmvar' = <<t, result[w]>>
      /\ stage' = [stage EXCEPT ![w] = "idle"]
      /\ test' = [test EXCEPT ![w] = Nothing]
      /\ UNCHANGED <<included, toFeed, testmvar, run>>
  BY DEF PutResult
<1>3. t \in included /\ t # Nothing /\ result[w] \in Result
  BY <1>1, <1>2 DEF TypeOK, Busy
<1>4. \A v \in Worker : test'[v] = IF v = w THEN Nothing ELSE test[v]
  BY <1>1, <1>2 DEF TypeOK
<1>5. \A v \in Worker : v # w => test[v] # t
  BY <1>1, <1>3 DEF OnePlace
<1>6. resmvar' # Nothing
  BY <1>1, <1>2, <1>3, ResultsAreSomething
<1>7. /\ OfWorkers = OfWorkers' \cup {t} /\ t \notin OfWorkers'
      /\ InTestMVar' = InTestMVar /\ InResMVar = {} /\ InResMVar' = {t}
  <2>1. OfWorkers = OfWorkers' \cup {t} /\ t \notin OfWorkers'
    BY <1>3, <1>4, <1>5 DEF OfWorkers
  <2> QED
    BY <1>2, <1>6, <2>1 DEF InTestMVar, InResMVar
<1>8. Moves(t)
  BY <1>1, <1>2, <1>3, <1>7 DEF Moves, Where, OnePlace
<1>9. Planned'
  BY <1>1, <1>2, <1>4 DEF Planned, TypeOK
<1> QED
  BY <1>3, <1>8, <1>9

LEMMA TakeResultGetsOn ==
  ASSUME IInv, Planned, TakeResult
  PROVE  Planned' /\ \E t \in included : Moves(t)
<1>1. TypeOK /\ OnePlace
  BY DEF IInv
<1> PICK t \in included : t = resmvar[1]
  BY <1>1 DEF TakeResult, TypeOK
<1>2. /\ resmvar # Nothing /\ resmvar' = Nothing
      /\ UNCHANGED <<included, toFeed, testmvar, test, stage, run>>
  BY DEF TakeResult, workers
<1>3. t \in included
  BY <1>1, <1>2 DEF TypeOK
<1>4. OfWorkers' = OfWorkers /\ InTestMVar' = InTestMVar /\ InResMVar = {t} /\ InResMVar' = {}
  BY <1>2 DEF OfWorkers, InTestMVar, InResMVar
<1>5. Moves(t)
  BY <1>1, <1>2, <1>3, <1>4 DEF Moves, Where, OnePlace
<1> QED
  BY <1>2, <1>3, <1>5 DEF Planned

(* What a step does, and that the plan is kept.                             *)
LEMMA NextGetsOn ==
  ASSUME IInv, Planned, [Next]_vars
  PROVE  /\ Planned'
         /\ [GetsOn]_vars
         /\ \A w \in Worker : test[w] # Nothing => test'[w] \in {test[w], Nothing}
<1>1. CASE main = "waits" /\ Feed
  BY <1>1, FeedGetsOn DEF GetsOn, Feed, workers
<1>2. CASE main = "waits" /\ TakeResult
  BY <1>2, TakeResultGetsOn DEF GetsOn, TakeResult, workers
<1>3. CASE main = "waits" /\ Exit
  <2>1. UNCHANGED <<included, toFeed, testmvar, resmvar, test, stage, run>>
    BY <1>3 DEF Exit, mvars, workers
  <2>2. \A t \in included : Where(t)' = Where(t)
    BY <2>1 DEF Where, InTestMVar, OfWorkers, InResMVar
  <2> QED
    BY <1>3, <2>1, <2>2 DEF GetsOn, Exit, Planned
<1>4. ASSUME main = "waits", NEW w \in Worker, WorkerStep(w)
      PROVE  /\ Planned' /\ GetsOn
             /\ \A v \in Worker : test[v] # Nothing => test'[v] \in {test[v], Nothing}
  <2>1. CASE TakeTest(w)
    <3>1. test[w] = Nothing /\ test \in [Worker -> included \cup {Nothing}]
      BY <2>1 DEF TakeTest, IInv, Busy, TypeOK
    <3>2. test' = [test EXCEPT ![w] = testmvar]
      BY <2>1 DEF TakeTest
    <3> QED
      BY <2>1, <3>1, <3>2, TakeTestGetsOn DEF GetsOn
  <2>2. CASE PutResult(w)
    <3>1. test' = [test EXCEPT ![w] = Nothing] /\ test \in [Worker -> included \cup {Nothing}]
      BY <2>2 DEF PutResult, IInv, TypeOK
    <3> QED
      BY <2>2, <3>1, PutResultGetsOn DEF GetsOn
  <2>3. CASE Metrics(w) \/ TypeCheck(w) \/ Compile(w) \/ Interpret(w) \/ Execute(w)
    BY <2>3, CallPlanned DEF GetsOn, Calls
  <2> QED
    BY <1>4, <2>1, <2>2, <2>3 DEF WorkerStep
<1>5. CASE UNCHANGED vars
  BY <1>5 DEF vars, mvars, workers, Planned
<1> QED
  BY <1>1, <1>2, <1>3, <1>4, <1>5 DEF Next, MainStep

LEMMA InitPlanned == Init => Planned
BY DEF Init, Planned

(* A worker only executes and interprets the runs that its test has, from   *)
(* the first one on (mapM_ over the runs of a test).                        *)
THEOREM OwnRunsOnly == Spec => []Planned
<1>1. IInv /\ Planned /\ [Next]_vars => Planned'
  BY NextGetsOn
<1> QED
  BY <1>1, InitPlanned, Invariance, PTL DEF Spec

(* Each step moves one test on by one place, or is a call after which a     *)
(* worker has fewer left, or ends the process: no test is taken, checked or *)
(* counted a second time, and no behaviour goes on for ever.                *)
THEOREM EveryStepGetsOn == Spec => [][GetsOn]_vars
<1>1. IInv /\ Planned /\ [Next]_vars => [GetsOn]_vars
  BY NextGetsOn
<1> QED
  BY <1>1, OwnRunsOnly, Invariance, PTL DEF Spec

(* A worker is through with its test when it hands the result over, and not *)
(* before: it takes no other one in between.                                *)
THEOREM TestsKeptByWorkers ==
  Spec => [][\A w \in Worker : test[w] # Nothing => test'[w] \in {test[w], Nothing}]_test
<1>1. IInv /\ Planned /\ [Next]_vars
        => [\A w \in Worker : test[w] # Nothing => test'[w] \in {test[w], Nothing}]_test
  BY NextGetsOn
<1> QED
  BY <1>1, OwnRunsOnly, Invariance, PTL DEF Spec

-----------------------------------------------------------------------------
(* Who can take a step, by the guards of the actions: the feeder, a worker  *)
(* (a call can always be made, as it may fail), or the main thread.         *)
CanFeed == testmvar = Nothing /\ toFeed # {}
CanWork(w) ==
  \/ stage[w] = "idle" /\ testmvar # Nothing
  \/ stage[w] \in {"metrics", "typecheck", "compile", "interpret", "execute"}
  \/ stage[w] = "done" /\ resmvar = Nothing
CanCount == remaining # {} => resmvar # Nothing

SomeoneCan == CanFeed \/ CanCount \/ \E w \in Worker : CanWork(w)

(* The main thread never waits while all other threads wait as well: of the *)
(* threads blocked on the MVars there is always one that can go on.  With   *)
(* EveryStepGetsOn this is what Termination needs besides fairness.         *)
THEOREM NeverStuck == Spec => [](main = "waits" => SomeoneCan)
<1>1. IInv => (main = "waits" => SomeoneCan)
  <2> SUFFICES ASSUME IInv, main = "waits", ~CanFeed, ~CanCount,
                      \A w \in Worker : ~CanWork(w)
               PROVE  FALSE
    BY DEF SomeoneCan
  <2>1. TypeOK /\ OnePlace /\ Busy
    BY DEF IInv
  <2>2. remaining # {} /\ resmvar = Nothing
    BY DEF CanCount
  <2>3. \A w \in Worker : stage[w] = "idle" /\ testmvar = Nothing
    BY <2>1, <2>2 DEF CanWork, TypeOK
  <2>4. testmvar = Nothing /\ toFeed = {}
    BY <2>3, TestAssumption DEF CanFeed
  <2>5. OfWorkers = {} /\ InTestMVar = {} /\ InResMVar = {}
    BY <2>1, <2>2, <2>3, <2>4 DEF OfWorkers, InTestMVar, InResMVar, Busy
  <2> QED
    BY <2>1, <2>2, <2>4, <2>5 DEF OnePlace
<1> QED
  BY <1>1, Invariance, PTL
=============================================================================
