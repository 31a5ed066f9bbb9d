CONSTANTS
  t1 = t1
  t2 = t2
  t3 = t3
  Threads <- MCThreads
  Elems <- MCElems
  NoElem <- MCNoElem
  MaxItems = 2

SPECIFICATION BQSpec

INVARIANT BQTypeOK
INVARIANT NoLostWakeup
INVARIANT DequeueFailsOnlyWhenStopped

PROPERTY StopReleasesAll

\* All three threads may block in dequeue() on an empty queue with no
\* producer left: the queue really stops there.
CHECK_DEADLOCK FALSE
