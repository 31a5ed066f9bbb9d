-------------------------- MODULE MCDeferredRWLock --------------------------
(* Three requesters: enough for a writer queued between two readers, and  *)
(* for a run of two readers released together behind a writer (spec E).  *)
EXTENDS DeferredRWLock

CONSTANTS r1, r2, r3

MCRequesters == {r1, r2, r3}
=============================================================================
