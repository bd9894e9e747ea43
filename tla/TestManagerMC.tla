--------------------------- MODULE TestManagerMC ---------------------------
(* TestManager with three tests: one that is not to compile, one with a run *)
(* for the interpreter and one without, and one with a single run.          *)
EXTENDS TestManager, TLC

CONSTANTS w1, w2, bad, two, one

Workers == {w1, w2}
Tests == {bad, two, one}
NotToCompile == {bad}
SomeRuns == two :> <<FALSE, TRUE>> @@ one :> <<FALSE>>
=============================================================================
