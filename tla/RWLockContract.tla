--------------------------- MODULE RWLockContract ---------------------------
(***************************************************************************)
(* What the deferred reader/writer lock promises its callers (the contract *)
(* of write_lock / read_lock / write_unlock / read_unlock, spec 4.1, and   *)
(* invariants 8.1 and 8.2), with no queue mechanics: each requester holds  *)
(* the lock for reading, for writing or not at all, and the requests not   *)
(* yet granted wait in arrival order.  After every operation the longest   *)
(* run at the head of the waiting line that is compatible with the         *)
(* holders, taken one after the other, is admitted.                        *)
(***************************************************************************)
EXTENDS Sequences

CONSTANTS
  Requesters

VARIABLES
  held,           \* held[r]: "read", "write" or Free
  waiting         \* the requests not yet granted, <<[id, mode], ...>>

vars == <<held, waiting>>

Free == "none"
Modes == {"read", "write"}

\* A request for mode m can be granted next to the holders h: a reader
\* only beside readers, a writer only alone.
Compatible(h, m) ==
  IF m = "read" THEN \A r \in Requesters : h[r] # "write"
                ELSE \A r \in Requesters : h[r] = Free

\* Grants the head of w while it is compatible with the holders; returns
\* the requests still waiting and the holders after the grants.
RECURSIVE Admit(_, _)
Admit(w, h) ==
  IF w # <<>> /\ Compatible(h, Head(w).mode)
    THEN Admit(Tail(w), [h EXCEPT ![Head(w).id] = Head(w).mode])
    ELSE [waiting |-> w, held |-> h]

IsWaiting(r) == \E i \in DOMAIN waiting : waiting[i].id = r

Apply(res) == held' = res.held /\ waiting' = res.waiting

Init ==
  /\ held = [r \in Requesters |-> Free]
  /\ waiting = <<>>

\* A request joins the end of the line; it is granted at once exactly
\* when it is at the head and compatible.
Acquire(r, m) ==
  /\ held[r] = Free
  /\ ~IsWaiting(r)
  /\ Apply(Admit(Append(waiting, [id |-> r, mode |-> m]), held))

\* A holder lets go; whatever the release makes compatible is admitted.
Release(r) ==
  /\ held[r] # Free
  /\ Apply(Admit(waiting, [held EXCEPT ![r] = Free]))

Next == \E r \in Requesters : (\E m \in Modes : Acquire(r, m)) \/ Release(r)

\* Holders eventually release; requesting is never forced.
Spec == Init /\ [][Next]_vars /\ \A r \in Requesters : WF_vars(Release(r))

=============================================================================
