CONSTANTS
  s1 = s1
  s2 = s2
  h1 = h1
  h2 = h2
  m = m
  Sources <- MCSources
  Handlers <- MCHandlers
  Main = m
  Threads <- MCThreads
  Elems <- MCElems
  NoElem <- MCNoElem
  Stream <- MCStream
  SendTos <- MCSendTos
  RecvPlan <- MCRecvPlan
  MaxItems = 0

SPECIFICATION MCShutdownSpec

INVARIANT NoUseAfterDelete

