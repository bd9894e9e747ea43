\* three allocation sites, four buffers, a list of one slot that has to grow
CONSTANTS
  m1 = m1  m2 = m2  m3 = m3  m4 = m4
  t1 = t1  t2 = t2  t3 = t3
  NoTag = NoTag
  NoMem = NoMem
  Mem <- MoreHandles
  Tag <- MoreTags
  Request <- Requests
  IntSize = 2
  InitCapacity = 1
SYMMETRY Symmetry
SPECIFICATION Spec
INVARIANTS
  OneBlockPerTag
  NoAliasing
  NoDanglingBuffer
  NoLostBuffer
  FitsRequest
PROPERTIES
  ImplementsDeviceAlloc
\* the process may have ended
CHECK_DEADLOCK FALSE
