--------------------------- MODULE DeferredRWLock ---------------------------
(***************************************************************************)
(* The request-queue reader/writer lock of                                 *)
(* src/src/graphlab/parallel/deferred_rwlock.hpp.                          *)
(*                                                                         *)
(* Every public operation runs under the internal mutex, so each one is a  *)
(* single atomic action here.  The lock keeps a FIFO queue of requests     *)
(* (head/tail of a singly linked list), reader_count (uint16_t) and the    *)
(* writer flag.  A requester never parks: an operation either grants it    *)
(* immediately or queues it, and an unlock returns the chain of requests   *)
(* it granted.  We model each requester's view of its request in `req`:    *)
(* the chain a call returns is exactly the set of requesters whose `req`   *)
(* becomes "read" or "write" in that step.                                 *)
(***************************************************************************)
EXTENDS Integers, Sequences, FiniteSets

CONSTANTS
  Requesters      \* the callers, each owning one request record

VARIABLES
  queue,          \* the request list head..tail, as <<[id, cls], ...>>
  reader_count,   \* uint16_t reader_count
  writer,         \* bool writer
  req,            \* each requester's request: idle, queued, read or write
  ahead           \* history: who held or was queued when r was queued

vars == <<queue, reader_count, writer, req, ahead>>

\* Mutant of Width16: a one-bit counter, which two readers wrap to 0.
Width2 == 2

\* reader_count is a uint16_t: 65536 concurrent readers wrap it to 0.
Width16 == 65536

\* QUEUED_RW_LOCK_REQUEST_READ / QUEUED_RW_LOCK_REQUEST_WRITE
RD == "R"
WR == "W"

Request == [id : Requesters, cls : {RD, WR}]

Holders == {r \in Requesters : req[r] \in {"read", "write"}}
Queued(q) == {q[i].id : i \in 1..Len(q)}

\* deferred_rw_lock(): empty queue, no reader, no writer
Init ==
  /\ queue = <<>>
  /\ reader_count = 0
  /\ writer = FALSE
  /\ req = [r \in Requesters |-> "idle"]
  /\ ahead = [r \in Requesters |-> {}]

\* insert_queue(I): append at the tail; the history remembers who was
\* already holding or waiting.
InsertQueue(r, cls) ==
  /\ queue' = Append(queue, [id |-> r, cls |-> cls])
  /\ ahead' = [ahead EXCEPT ![r] = Holders \cup Queued(queue)]

\* The number of read requests at the front of q, as counted by the loop
\* of complete_rdlock.
ReadPrefix(q) ==
  CHOOSE n \in 0..Len(q) :
    /\ \A i \in 1..n : q[i].cls = RD
    /\ n < Len(q) => q[n + 1].cls = WR

\* complete_rdlock(released), applied to the list q with reader_count rc:
\* grants the head and every read request directly behind it; they are
\* returned as the released chain.  `others` is req as the caller left it.
CompleteRdlock(q, rc, others) ==
  LET n == ReadPrefix(q)
      granted == {q[i].id : i \in 1..n}
  IN  /\ queue' = SubSeq(q, n + 1, Len(q))
      /\ reader_count' = (rc + n) % Width16
      /\ req' = [x \in Requesters |-> IF x \in granted THEN "read" ELSE others[x]]

\* complete_wrlock(): pops the write request at the head and sets writer.
CompleteWrlock(others) ==
  /\ queue' = Tail(queue)
  /\ writer' = TRUE
  /\ req' = [others EXCEPT ![Head(queue).id] = "write"]

\* Mutant of Writelock: the request is queued without its lockclass tag.
WritelockUntagged(r) ==
  /\ req[r] = "idle"
  /\ IF reader_count = 0 /\ writer = FALSE
       THEN /\ writer' = TRUE
            /\ req' = [req EXCEPT ![r] = "write"]
            /\ UNCHANGED <<queue, reader_count, ahead>>
       ELSE /\ queue' = Append(queue, [id |-> r, cls |-> "unset"])
            /\ ahead' = [ahead EXCEPT ![r] = Holders \cup Queued(queue)]
            /\ req' = [req EXCEPT ![r] = "queued"]
            /\ UNCHANGED <<reader_count, writer>>

\* writelock(I): fast path when nobody holds the lock, else queued.
Writelock(r) ==
  /\ req[r] = "idle"
  /\ IF reader_count = 0 /\ writer = FALSE
       THEN /\ writer' = TRUE
            /\ req' = [req EXCEPT ![r] = "write"]
            /\ UNCHANGED <<queue, reader_count, ahead>>
       ELSE /\ InsertQueue(r, WR)
            /\ req' = [req EXCEPT ![r] = "queued"]
            /\ UNCHANGED <<reader_count, writer>>

\* Mutant of Readlock: the slow path releases the queued readers without
\* checking that no writer holds the lock.
ReadlockIgnoringWriter(r) ==
  /\ req[r] = "idle"
  /\ IF queue = <<>> /\ writer = FALSE
       THEN /\ reader_count' = (reader_count + 1) % Width16
            /\ req' = [req EXCEPT ![r] = "read"]
            /\ UNCHANGED <<queue, writer, ahead>>
       ELSE LET q1 == Append(queue, [id |-> r, cls |-> RD])
                queuedReq == [req EXCEPT ![r] = "queued"]
            IN  /\ ahead' = [ahead EXCEPT ![r] = Holders \cup Queued(queue)]
                /\ UNCHANGED writer
                /\ IF q1[1].cls = RD
                     THEN CompleteRdlock(q1, reader_count, queuedReq)
                     ELSE /\ queue' = q1
                          /\ req' = queuedReq
                          /\ UNCHANGED reader_count

\* Mutant of Readlock: the fast path only checks for a writer, not for an
\* empty queue (a reader may then jump over a queued writer).
ReadlockBargingIn(r) ==
  /\ req[r] = "idle"
  /\ IF writer = FALSE
       THEN /\ reader_count' = (reader_count + 1) % Width16
            /\ req' = [req EXCEPT ![r] = "read"]
            /\ UNCHANGED <<queue, writer, ahead>>
       ELSE /\ InsertQueue(r, RD)
            /\ req' = [req EXCEPT ![r] = "queued"]
            /\ UNCHANGED <<reader_count, writer>>

\* readlock(I, released): fast path when the queue is empty and no writer;
\* otherwise insert, and if the head is then a read request and there is
\* no writer, release the leading run of readers.
Readlock(r) ==
  /\ req[r] = "idle"
  /\ IF queue = <<>> /\ writer = FALSE
       THEN /\ reader_count' = (reader_count + 1) % Width16
            /\ req' = [req EXCEPT ![r] = "read"]
            /\ UNCHANGED <<queue, writer, ahead>>
       ELSE LET q1 == Append(queue, [id |-> r, cls |-> RD])
                queuedReq == [req EXCEPT ![r] = "queued"]
            IN  /\ ahead' = [ahead EXCEPT ![r] = Holders \cup Queued(queue)]
                /\ UNCHANGED writer
                /\ IF q1[1].cls = RD /\ writer = FALSE
                     THEN CompleteRdlock(q1, reader_count, queuedReq)
                     ELSE /\ queue' = q1
                          /\ req' = queuedReq
                          /\ UNCHANGED reader_count

\* The history forgets r once r lets go, so that a later request of r is
\* a new arrival.
Forget(r) == ahead' = [x \in Requesters |-> ahead[x] \ {r}]

\* The part shared by wrunlock and rdunlock once the lock is free, with
\* reader_count rc and writer w as the unlock left them: hand the lock to
\* the head of the queue (a run of readers, or one writer).
GrantHead(rc, w, others) ==
  IF queue = <<>>
    THEN /\ req' = others
         /\ reader_count' = rc
         /\ writer' = w
         /\ UNCHANGED queue
    ELSE IF Head(queue).cls = RD
      THEN /\ CompleteRdlock(queue, rc, others)
           /\ writer' = w
      ELSE /\ CompleteWrlock(others)
           /\ reader_count' = rc

\* Mutant of Wrunlock: a queued writer at the head is not handed the lock.
WrunlockSkippingWriter(r) ==
  /\ req[r] = "write"
  /\ IF queue # <<>> /\ Head(queue).cls = RD
       THEN /\ CompleteRdlock(queue, reader_count, [req EXCEPT ![r] = "idle"])
            /\ writer' = FALSE
       ELSE /\ req' = [req EXCEPT ![r] = "idle"]
            /\ writer' = FALSE
            /\ UNCHANGED <<queue, reader_count>>
  /\ Forget(r)

\* Mutant of Wrunlock: only the first of a run of queued readers is
\* granted (complete_rdlock stopping after the head).
WrunlockGrantingOneReader(r) ==
  /\ req[r] = "write"
  /\ IF queue # <<>> /\ Head(queue).cls = RD
       THEN /\ queue' = Tail(queue)
            /\ reader_count' = (reader_count + 1) % Width16
            /\ req' = [req EXCEPT ![r] = "idle", ![Head(queue).id] = "read"]
            /\ writer' = FALSE
       ELSE GrantHead(reader_count, FALSE, [req EXCEPT ![r] = "idle"])
  /\ Forget(r)

\* wrunlock(I, released): writer = false, then grant the head.
Wrunlock(r) ==
  /\ req[r] = "write"
  /\ GrantHead(reader_count, FALSE, [req EXCEPT ![r] = "idle"])
  /\ Forget(r)

\* Mutant of Rdunlock: the last reader leaves without granting the head.
RdunlockWithoutHandoff(r) ==
  /\ req[r] = "read"
  /\ Forget(r)
  /\ reader_count' = (reader_count - 1) % Width16
  /\ req' = [req EXCEPT ![r] = "idle"]
  /\ UNCHANGED <<queue, writer>>

\* rdunlock(I, released): --reader_count; the last reader grants the head.
Rdunlock(r) ==
  LET rc == (reader_count - 1) % Width16
      released == [req EXCEPT ![r] = "idle"]
  IN  /\ req[r] = "read"
      /\ Forget(r)
      /\ IF rc = 0
           THEN GrantHead(rc, writer, released)
           ELSE /\ reader_count' = rc
                /\ req' = released
                /\ UNCHANGED <<queue, writer>>

Next ==
  \E r \in Requesters :
    \/ Writelock(r)
    \/ Readlock(r)
    \/ Wrunlock(r)
    \/ Rdunlock(r)

\* A holder runs a bounded update and then unlocks (the engine releases
\* every scope it acquires); nobody is obliged to ask for the lock.
Fairness ==
  \A r \in Requesters : WF_vars(Wrunlock(r)) /\ WF_vars(Rdunlock(r))

Spec == Init /\ [][Next]_vars /\ Fairness

-----------------------------------------------------------------------------

TypeOK ==
  /\ queue \in Seq(Request)
  /\ reader_count \in 0..(Width16 - 1)
  /\ writer \in BOOLEAN
  /\ req \in [Requesters -> {"idle", "queued", "read", "write"}]
  /\ ahead \in [Requesters -> SUBSET Requesters]

\* Lock exclusivity (spec 8.1), on what the callers were told: no request
\* holds the lock for writing while another holds it at all.  It depends
\* on reader_count and writer tracking the grants handed out by the fast
\* paths, complete_rdlock and complete_wrlock.
Exclusion ==
  \A r \in Requesters :
    req[r] = "write" => \A o \in Requesters \ {r} : req[o] \notin {"read", "write"}

\* No request is left waiting in the queue while nobody holds the lock:
\* every unlock that frees the lock must hand it to the queue head,
\* otherwise the queued caller is never resumed (it never parks, nobody
\* will wake it).
NoStrandedRequest ==
  queue # <<>> => (writer \/ reader_count > 0)

\* FIFO fairness (spec 8.2): while a request waits, every holder of the
\* lock was already holding or waiting when it arrived; in particular a
\* reader arriving after a queued writer is never let in first.
NoOvertaking ==
  \A r \in Requesters :
    req[r] = "queued" => Holders \subseteq ahead[r]

\* Every queued request is eventually granted, given that holders unlock.
QueuedEventuallyGranted ==
  \A r \in Requesters : req[r] = "queued" ~> req[r] \in {"read", "write"}

-----------------------------------------------------------------------------

\* The refinement mapping onto the contract: a caller holds what its
\* request was granted, and the queue, read as modes, is the waiting line.
ContractMode(cls) == IF cls = RD THEN "read" ELSE "write"

Contract == INSTANCE RWLockContract WITH
  held <- [r \in Requesters |->
             IF req[r] \in {"read", "write"} THEN req[r] ELSE "none"],
  waiting <- [i \in DOMAIN queue |->
                [id |-> queue[i].id, mode |-> ContractMode(queue[i].cls)]]

\* The queue-based lock implements the contract: every writelock,
\* readlock, wrunlock and rdunlock, fast path or not, grants exactly the
\* compatible run at the head of the line (a reader never passes a
\* queued writer, an unlock never leaves a grantable head waiting), and
\* holders releasing is enough for every waiter to be admitted.
ImplementsContract == Contract!Spec

=============================================================================
