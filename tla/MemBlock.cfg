\* five cells and three blocks, calls nested two deep, one scope in a function
CONSTANTS
  c1 = c1  c2 = c2  c3 = c3  c4 = c4  c5 = c5
  b1 = b1  b2 = b2  b3 = b3
  Null = Null
  Cell <- FiveCells
  Block <- ThreeBlocks
  Sizes <- SomeSizes
  MaxFrames = 2
  MaxInner = 1
SYMMETRY Symmetry
SPECIFICATION Spec
INVARIANTS
  RefcountExact
  NoDangling
  NoLeak
  UsageExact
  NoFreedCounter
\* the process may have ended, or every cell may be in use
CHECK_DEADLOCK FALSE
