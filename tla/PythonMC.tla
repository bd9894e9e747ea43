------------------------------ MODULE PythonMC ------------------------------
(* A compiled Python program, while it reads its arguments (PyValues) or    *)
(* while it computes (PyScalar).  Arithmetic starts from any number, so it  *)
(* does not depend on which arguments were read.                            *)
EXTENDS PyValuesMC, PyScalar

VARIABLE computing  (* whether the program computes                         *)

pythonvars == <<computing, valuevars, vars>>

(* A program without parameters, which runs at once.                        *)
NothingRead ==
  /\ params = <<>> /\ written = <<>> /\ args = <<>> /\ taken = <<>>
  /\ reader = [py |-> 3, in |-> <<>>] /\ outcome = "running"

(* The register of a program that has not started to compute.               *)
NothingComputed ==
  /\ x = SInt(Top, 0) /\ v = SInt(Top, 0)
  /\ branch = <<FALSE, FALSE>> /\ trust = "exact"

PythonInit ==
  \/ ~computing /\ ValuesInit /\ NothingComputed
  \/ computing /\ NothingRead /\ Init

Begin == computing \in BOOLEAN /\ PythonInit

Step ==
  \/ ~computing /\ ValuesNext /\ UNCHANGED <<computing, vars>>
  \/ computing /\ Next /\ UNCHANGED <<computing, valuevars>>

PythonSpec == Begin /\ [][Step]_pythonvars
=============================================================================
