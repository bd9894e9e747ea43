\* the claim that the slot found by free_list_insert lies inside the list
CONSTANTS
  m1 = m1  m2 = m2  m3 = m3  m4 = m4
  t1 = t1  t2 = t2  t3 = t3
  NoTag = NoTag
  NoMem = NoMem
  Mem <- Handles
  Tag <- Tags
  Request <- Requests
  IntSize = 2
  InitCapacity = 1
SPECIFICATION Spec
INVARIANT InsertInBounds
CHECK_DEADLOCK FALSE
