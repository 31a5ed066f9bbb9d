CONSTANTS
  t1 = t1
  t2 = t2
  t3 = t3
  Threads <- MCThreads
  Elems <- MCElems
  NoElem <- MCNoElem
  MaxItems = 2

SPECIFICATION BQSpec

INVARIANT EmptyHasNoSleepers

CHECK_DEADLOCK FALSE
