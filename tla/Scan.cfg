\* two groups of four threads in two blocks; and whole scans of up to 16 elements
CONSTANTS
  GroupSize = 4
  BlockSize = 2
  Lockstep <- SomeLockstep
  Widths <- FullWidth
  NumGroups = 2
  ElementCounts <- SomeCounts
  GroupSizes <- UpToThree
  MaxNumGroups <- UpToFour
  ScanLengths <- SomeLengths
SPECIFICATION Scans
INVARIANTS
  StoredExact
  CarriedExact
  NoKernelRaces
  ScanExact
  ScanCarry
PROPERTIES
  NeverRewritten
  ImplementsIterations
\* a group ends after its iterations, and so does a scan
CHECK_DEADLOCK FALSE
