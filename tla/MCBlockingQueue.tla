-------------------------- MODULE MCBlockingQueue ---------------------------
EXTENDS BlockingQueue, TLC

CONSTANTS t1, t2, t3

MCThreads == {t1, t2, t3}
MCElems == 1..MaxItems
MCNoElem == 0

=============================================================================
