\* a group of one block on a device without lockstep execution
CONSTANTS
  GroupSize = 2
  BlockSize = 2
  Lockstep <- Alone
  Widths <- FullWidth
  NumGroups = 1
  ElementCounts <- SomeCounts
SPECIFICATION KernelSpec
INVARIANTS
  CarryExact
