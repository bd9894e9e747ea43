\* eight threads in two blocks scan, six threads reduce
CONSTANTS
  GroupSize = 8
  BlockSize = 4
  Lockstep <- SomeLockstep
  Widths <- FromBlockUp
  ReduceGroupSize = 6
  WaveSizes <- SomeWaveSizes
  ReduceWidths <- NonEmpty
SPECIFICATION Groups
INVARIANTS
  ScanResult
  ScanInsideArray
  ReduceResult
  NoRaces
PROPERTIES
  AllFinish
\* a group ends when it is through
CHECK_DEADLOCK FALSE
