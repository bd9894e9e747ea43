\* two workers, up to three tests
CONSTANTS
  w1 = w1
  w2 = w2
  bad = bad
  two = two
  one = one
  Nothing = Nothing
  Worker <- Workers
  Test <- Tests
  Fails <- NotToCompile
  Runs <- SomeRuns
  Modes <- AllModes
SPECIFICATION Spec
INVARIANTS
  OnePlace
  ExitTells
  FreshBinary
PROPERTIES
  Termination
\* the process ends
CHECK_DEADLOCK FALSE
