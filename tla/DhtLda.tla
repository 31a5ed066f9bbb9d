------------------------------- MODULE DhtLda -------------------------------
(***************************************************************************)
(* The DHT based LDA sampler of src/demoapps/lda/dht_lda.cpp, one process  *)
(* per member of Procs.  Each process owns the tokens of its documents and *)
(* their topic assignments and per-document counts n_dt; the word-topic    *)
(* counts n_wt and the topic counts n_t are delta_dht tables shared by all *)
(* processes.  A Gibbs step of a token takes it out of the counters of its *)
(* old topic, draws a new topic and adds it to that topic's counters.      *)
(*                                                                         *)
(* delta_dht is not in the sources; it is modelled from spec 4.7: every    *)
(* key has an owning process holding the authoritative value; a write adds *)
(* a delta to the writer's pending-deltas table, which is flushed now and  *)
(* then as one batched RPC per owner that adds it to the owner's value;    *)
(* full_barrier flushes, then waits until every call has been handled.     *)
(* The RPCs travel through distributed_control, whose handler threads may  *)
(* run two calls of one source in either order (RpcDispatch, RpcFifo).     *)
(* The sampler's arithmetic (the conditional, the normaliser) is left out: *)
(* with non-negative counts every topic has a positive probability, so the *)
(* draw is any topic.                                                      *)
(***************************************************************************)
EXTENDS Integers, SequencesExt, FiniteSetsExt

CONSTANTS
  Procs,          \* the MPI processes
  Topics,         \* 0..ntopics-1
  Tokens,         \* Tokens[p]: the tokens of p's documents, <<[word, doc], ...>>
  NIters,         \* niters
  WordOwner,      \* WordOwner[w]: the process owning n_wt[w]
  TopicOwner      \* TopicOwner[t]: the process owning n_t[t]

NULL_TOPIC == -1

Words == UNION {{Tokens[p][i].word : i \in DOMAIN Tokens[p]} : p \in Procs}
Docs == UNION {{Tokens[p][i].doc : i \in DOMAIN Tokens[p]} : p \in Procs}

\* A topic_vector is added and subtracted element by element, so n_wt[w]
\* is the family of counters <<"wt", w, t>>; n_t[t] is <<"t", t>>.
Key == {<<"wt", w, t>> : w \in Words, t \in Topics} \cup {<<"t", t>> : t \in Topics}

\* shard(k): the process owning key k
Owner(k) == IF k[1] = "t" THEN TopicOwner[k[2]] ELSE WordOwner[k[2]]

VARIABLES
  pc,             \* where main() is: "init", "gibbs", "barrier", "wait", "done"
  iter,           \* iteration of the sampling loop
  idx,            \* the token run_gibbs is at
  topics,         \* topic_asgs
  n_dt,           \* n_dt[p][d][t]: the local per-document topic counts
  val,            \* val[k]: the owner's authoritative value of k
  pend,           \* pend[p][k]: p's pending delta for k
  chan            \* chan[p][o]: the flushes p sent to o not yet handled

ldavars == <<pc, iter, idx, topics, n_dt, val, pend, chan>>

NoDelta == [k \in Key |-> 0]

\* Up to line 220: no topic assigned, n_dt empty, the two tables empty.
Init ==
  /\ pc = [p \in Procs |-> "init"]
  /\ iter = [p \in Procs |-> 0]
  /\ idx = [p \in Procs |-> 1]
  /\ topics = [p \in Procs |-> [i \in DOMAIN Tokens[p] |-> NULL_TOPIC]]
  /\ n_dt = [p \in Procs |-> [d \in Docs |-> [t \in Topics |-> 0]]]
  /\ val = [k \in Key |-> 0]
  /\ pend = [p \in Procs |-> NoDelta]
  /\ chan = [p \in Procs |-> [o \in Procs |-> <<>>]]

\* for(t) n_t[t] = 0: the entry is read from its owner and set to 0, so
\* the delta it leaves in p's table is minus the value read.
InitCounts(p) ==
  /\ pc[p] = "init"
  /\ pend' = [pend EXCEPT ![p] = [k \in Key |-> IF k[1] = "t" THEN @[k] - val[k] ELSE @[k]]]
  /\ pc' = [pc EXCEPT ![p] = "gibbs"]
  /\ UNCHANGED <<iter, idx, topics, n_dt, val, chan>>

\* One pass of run_gibbs' loop on token i: remove the token from the
\* counters of its old topic (NULL_TOPIC, -1, is in none of them), draw
\* the new topic and add the token to its counters: -- and ++ on n_dt,
\* and deltas in p's tables for n_wt[w][t] and n_t[t].
Gibbs(p, new) ==
  LET i == idx[p]
      w == Tokens[p][i].word
      d == Tokens[p][i].doc
      old == topics[p][i]
      Moved(k) == (IF k = <<"wt", w, new>> \/ k = <<"t", new>> THEN 1 ELSE 0)
                  - (IF k = <<"wt", w, old>> \/ k = <<"t", old>> THEN 1 ELSE 0)
  IN  /\ pc[p] = "gibbs"
      /\ i <= Len(Tokens[p])
      /\ topics' = [topics EXCEPT ![p][i] = new]
      /\ n_dt' = [n_dt EXCEPT ![p][d] =
                    [t \in Topics |-> @[t] + (IF t = new THEN 1 ELSE 0)
                                          - (IF t = old THEN 1 ELSE 0)]]
      /\ pend' = [pend EXCEPT ![p] = [k \in Key |-> @[k] + Moved(k)]]
      /\ idx' = [idx EXCEPT ![p] = i + 1]
      /\ UNCHANGED <<pc, iter, val, chan>>

\* run_gibbs has passed every token: the next iteration, or after niters
\* of them main() goes on to full_barrier.
EndIteration(p) ==
  /\ pc[p] = "gibbs"
  /\ idx[p] > Len(Tokens[p])
  /\ iter' = [iter EXCEPT ![p] = @ + 1]
  /\ idx' = [idx EXCEPT ![p] = 1]
  /\ pc' = [pc EXCEPT ![p] = IF iter[p] + 1 < NIters THEN "gibbs" ELSE "barrier"]
  /\ UNCHANGED <<topics, n_dt, val, pend, chan>>

\* Sends p's pending deltas, one batch per owner, and empties its table.
SendPending(p) ==
  /\ chan' = [chan EXCEPT ![p] =
               [o \in Procs |->
                  LET batch == [k \in {x \in Key : Owner(x) = o} |-> pend[p][k]]
                  IN  IF \E k \in DOMAIN batch : batch[k] # 0
                        THEN Append(@[o], batch) ELSE @[o]]]
  /\ pend' = [pend EXCEPT ![p] = NoDelta]

\* The delta_dht flushes p's pending deltas (by count or by time).
Flush(p) ==
  /\ pc[p] \in {"init", "gibbs", "barrier"}
  /\ pend[p] # NoDelta
  /\ SendPending(p)
  /\ UNCHANGED <<pc, iter, idx, topics, n_dt, val>>

\* A handler thread of owner o merges one of p's batches into the
\* authoritative values; batches of one source may be handled in any
\* order.
Deliver(p, o) ==
  \E i \in DOMAIN chan[p][o] :
    LET batch == chan[p][o][i]
    IN  /\ val' = [k \in Key |-> IF k \in DOMAIN batch THEN val[k] + batch[k] ELSE val[k]]
        /\ chan' = [chan EXCEPT ![p][o] = RemoveAt(@, i)]
        /\ UNCHANGED <<pc, iter, idx, topics, n_dt, pend>>

\* dc.full_barrier(): the pending deltas are flushed, then p waits.
FullBarrier(p) ==
  /\ pc[p] = "barrier"
  /\ SendPending(p)
  /\ pc' = [pc EXCEPT ![p] = "wait"]
  /\ UNCHANGED <<iter, idx, topics, n_dt, val>>

\* The barrier opens once every process has reached it and every call
\* sent before it has been handled.
LeaveBarrier(p) ==
  /\ pc[p] = "wait"
  /\ \A q \in Procs : pc[q] \in {"wait", "done"}
  /\ \A q, o \in Procs : chan[q][o] = <<>>
  /\ pc' = [pc EXCEPT ![p] = "done"]
  /\ UNCHANGED <<iter, idx, topics, n_dt, val, pend, chan>>

Next ==
  \E p \in Procs :
    \/ InitCounts(p)
    \/ \E t \in Topics : Gibbs(p, t)
    \/ EndIteration(p)
    \/ Flush(p)
    \/ \E o \in Procs : Deliver(p, o)
    \/ FullBarrier(p)
    \/ LeaveBarrier(p)

Spec == Init /\ [][Next]_ldavars

-----------------------------------------------------------------------------

\* The number of tokens, over all processes, counted by key k.
Counted(k) ==
  MapThenSumSet(LAMBDA p :
                  Cardinality({i \in DOMAIN Tokens[p] :
                                 /\ topics[p][i] = k[Len(k)]
                                 /\ k[1] = "wt" => Tokens[p][i].word = k[2]}),
                Procs)

\* After the final full_barrier the owners' counters are the counts of
\* the topic assignments: n_t[t] is the number of tokens assigned t and
\* n_wt[w][t] the number of tokens of word w assigned t (spec 8.7, the
\* fold of every delta issued before the barrier).
CountsMatchTopics ==
  (\A p \in Procs : pc[p] = "done") => \A k \in Key : val[k] = Counted(k)

=============================================================================
