CONSTANTS
  s1 = s1
  s2 = s2
  h1 = h1
  h2 = h2
  m = m
  Sources <- MCSources
  Handlers <- MCHandlers
  Main = m
  Threads <- MCThreads
  Elems <- MCElems
  NoElem <- MCNoElem
  Stream <- MCStream
  SendTos <- MCSendTos
  RecvPlan <- MCRecvPlan
  MaxItems = 0

SPECIFICATION DOSpec

INVARIANT DOTypeOK
INVARIANT BarrierSeparates
INVARIANT NoSlotOverwrite

PROPERTY AllCallsComplete
PROPERTY RendezvousCompletes

\* Once every stream is consumed the handler threads block in dequeue()
\* until the distributed_control is destroyed: the machine idles there.
CHECK_DEADLOCK FALSE
