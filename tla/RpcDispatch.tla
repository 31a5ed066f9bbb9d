---------------------------- MODULE RpcDispatch -----------------------------
(***************************************************************************)
(* The deferred function-call path of distributed_control                  *)
(* (src/src/graphlab/rpc/dc.cpp) on one machine.  The receiver of each     *)
(* source machine parses its byte stream in order; a CALL frame goes       *)
(* through deferred_function_call into the process-wide fcallqueue (a      *)
(* BlockingQueue), and numhandlerthreads handler threads run               *)
(* fcallhandler_loop: dequeue, exec_function_call, then                    *)
(* receivers[source]->function_call_completed().  A BARRIER frame stops    *)
(* the receiver from dispatching more of that source's frames until every  *)
(* call it has queued has completed (pending_calls of                      *)
(* dc_stream_receive_z.hpp).  The receivers' code is not in the sources:   *)
(* their part (pending_calls, the barrier flag) follows spec section 4.6.  *)
(* The destructor ~distributed_control is the second half of the module.   *)
(***************************************************************************)
EXTENDS BlockingQueue, SequencesExt

CONSTANTS
  Sources,        \* the machines whose calls this machine receives
  Handlers,       \* the fcallhandler threads
  Main,           \* the thread that destroys the distributed_control
  Stream          \* Stream[s]: the frames s sends here, in order

CallFrame(n) == [kind |-> "CALL", seq |-> n]
BarrierFrame == [kind |-> "BARRIER", seq |-> 0]

\* The calls of s, numbered in the order s sent them.
Calls(s) == {Stream[s][i].seq : i \in {j \in DOMAIN Stream[s] : Stream[s][j].kind = "CALL"}}
SentOrder(s) == SelectSeq([i \in DOMAIN Stream[s] |-> Stream[s][i].seq], LAMBDA n : n # 0)

\* The number of barriers s sent before its call n.
Epoch(s, n) ==
  LET at == CHOOSE i \in DOMAIN Stream[s] : Stream[s][i] = CallFrame(n)
  IN  Cardinality({i \in 1..(at - 1) : Stream[s][i].kind = "BARRIER"})

VARIABLES
  inbox,          \* the frames of each source not yet processed by its receiver
  pending_calls,  \* per source: its calls queued or running, not completed
  barrier,        \* per source: a barrier frame holds back its later frames
  hpc,            \* each handler thread: "deq", "exec", "complete" or "done"
  hcall,          \* the function_call_block a handler is running
  executed,       \* history: per source, the calls exec_function_call ran, in order
  completed,      \* history: per source, the calls whose completion was reported
  dpc,            \* the destructor: "live", then one value per step
  deleted         \* receivers[] has been deleted and cleared

rpcvars == <<inbox, pending_calls, barrier, hpc, hcall, executed, completed, dpc, deleted>>
vars == <<bqvars, rpcvars>>

\* init(): the receivers and the handler threads exist, nothing received.
Init ==
  /\ BQInit
  /\ inbox = Stream
  /\ pending_calls = [s \in Sources |-> 0]
  /\ barrier = [s \in Sources |-> FALSE]
  /\ hpc = [h \in Handlers |-> "deq"]
  /\ hcall = [h \in Handlers |-> NoElem]
  /\ executed = [s \in Sources |-> <<>>]
  /\ completed = [s \in Sources |-> {}]
  /\ dpc = "live"
  /\ deleted = FALSE

\* Mutant of ReceiveCall: the receiver dispatches a call while a barrier
\* of its source is still waiting for earlier calls to complete.
ReceiveCallPastBarrier(s) ==
  /\ dpc = "live"
  /\ inbox[s] # <<>>
  /\ Head(inbox[s]).kind = "CALL"
  /\ inbox' = [inbox EXCEPT ![s] = Tail(@)]
  /\ pending_calls' = [pending_calls EXCEPT ![s] = @ + 1]
  /\ Enqueue(s, [source |-> s, seq |-> Head(inbox[s]).seq])
  /\ UNCHANGED <<barrier, hpc, hcall, executed, completed, dpc, deleted>>

\* The receive thread of s takes a CALL frame off its stream: the call
\* counts as pending and deferred_function_call enqueues the block.
ReceiveCall(s) ==
  /\ dpc = "live"
  /\ inbox[s] # <<>>
  /\ Head(inbox[s]).kind = "CALL"
  /\ ~barrier[s]
  /\ inbox' = [inbox EXCEPT ![s] = Tail(@)]
  /\ pending_calls' = [pending_calls EXCEPT ![s] = @ + 1]
  /\ Enqueue(s, [source |-> s, seq |-> Head(inbox[s]).seq])
  /\ UNCHANGED <<barrier, hpc, hcall, executed, completed, dpc, deleted>>

\* A BARRIER frame: the receiver holds back the rest of the stream while
\* calls of s it dispatched before are still pending.
ReceiveBarrier(s) ==
  /\ dpc = "live"
  /\ inbox[s] # <<>>
  /\ Head(inbox[s]).kind = "BARRIER"
  /\ ~barrier[s]
  /\ inbox' = [inbox EXCEPT ![s] = Tail(@)]
  /\ barrier' = [barrier EXCEPT ![s] = pending_calls[s] > 0]
  /\ UNCHANGED <<bqvars, pending_calls, hpc, hcall, executed, completed, dpc, deleted>>

\* fcallhandler_loop: entry = fcallqueue.dequeue(); a failed dequeue
\* (the queue was stopped) ends the thread.
HandlerDequeue(h) ==
  /\ hpc[h] = "deq"
  /\ Dequeue(h)
  /\ hpc' = [hpc EXCEPT ![h] = CASE bqpc'[h] = "dq"  -> "deq"
                                  [] Failed \in res'[h] -> "done"
                                  [] OTHER             -> "exec"]
  /\ hcall' = [hcall EXCEPT ![h] = IF hpc'[h] = "exec" THEN Head(m_queue) ELSE NoElem]
  /\ UNCHANGED <<inbox, pending_calls, barrier, executed, completed, dpc, deleted>>

\* exec_function_call(source, istrm): deserialise and run the call.
ExecFunctionCall(h) ==
  /\ hpc[h] = "exec"
  /\ executed' = [executed EXCEPT ![hcall[h].source] = Append(@, hcall[h].seq)]
  /\ hpc' = [hpc EXCEPT ![h] = "complete"]
  /\ UNCHANGED <<bqvars, inbox, pending_calls, barrier, hcall, completed, dpc, deleted>>

\* The receiver's function_call_completed for source s: one call fewer
\* pending; the last one lifts a barrier.
CallCompleted(s) ==
  /\ pending_calls' = [pending_calls EXCEPT ![s] = @ - 1]
  /\ barrier' = [barrier EXCEPT ![s] = @ /\ pending_calls[s] # 1]

\* Mutant of FunctionCallCompleted: the completion is never reported.
FunctionCallCompletedDropped(h) ==
  /\ hpc[h] = "complete"
  /\ completed' = [completed EXCEPT ![hcall[h].source] = @ \cup {hcall[h].seq}]
  /\ hpc' = [hpc EXCEPT ![h] = "deq"]
  /\ hcall' = [hcall EXCEPT ![h] = NoElem]
  /\ UNCHANGED <<bqvars, inbox, pending_calls, barrier, executed, dpc, deleted>>

\* Mutant of FunctionCallCompleted: the completion goes to the receiver
\* of the wrong source (a wrong index into receivers).
FunctionCallCompletedWrongReceiver(h) ==
  /\ hpc[h] = "complete"
  /\ \E s \in Sources \ {hcall[h].source} : CallCompleted(s)
  /\ completed' = [completed EXCEPT ![hcall[h].source] = @ \cup {hcall[h].seq}]
  /\ hpc' = [hpc EXCEPT ![h] = "deq"]
  /\ hcall' = [hcall EXCEPT ![h] = NoElem]
  /\ UNCHANGED <<bqvars, inbox, executed, dpc, deleted>>

\* receivers[entry.first.source]->function_call_completed(), then back
\* to the top of the loop.  After the destructor has deleted the
\* receivers this dereferences a freed receiver.
FunctionCallCompleted(h) ==
  /\ hpc[h] = "complete"
  /\ CallCompleted(hcall[h].source)
  /\ completed' = [completed EXCEPT ![hcall[h].source] = @ \cup {hcall[h].seq}]
  /\ hpc' = [hpc EXCEPT ![h] = "deq"]
  /\ hcall' = [hcall EXCEPT ![h] = NoElem]
  /\ UNCHANGED <<bqvars, inbox, executed, dpc, deleted>>

RpcNext ==
  \E s \in Sources, h \in Handlers :
    \/ ReceiveCall(s)
    \/ ReceiveBarrier(s)
    \/ HandlerDequeue(h)
    \/ ExecFunctionCall(h)
    \/ FunctionCallCompleted(h)

\* Every receive thread and handler thread is an OS thread that goes on
\* while it can; a handler blocked on the empty queue waits.
RpcFairness ==
  /\ \A s \in Sources : WF_vars(ReceiveCall(s)) /\ WF_vars(ReceiveBarrier(s))
  /\ \A h \in Handlers : /\ WF_vars(HandlerDequeue(h))
                         /\ WF_vars(ExecFunctionCall(h))
                         /\ WF_vars(FunctionCallCompleted(h))

Spec == Init /\ [][RpcNext]_vars /\ RpcFairness

-----------------------------------------------------------------------------
(* ~distributed_control(), run by Main once every frame the peers sent     *)
(* has been received: comm->close(), the senders and then the receivers    *)
(* shut down and deleted, receivers.clear(), fcallqueue.stop_blocking(),   *)
(* fcallhandlers.join(), delete comm.                                      *)

\* comm->close(): nothing more is received.
CommClose ==
  /\ dpc = "live"
  /\ \A s \in Sources : inbox[s] = <<>>
  /\ dpc' = "closed"
  /\ UNCHANGED <<bqvars, inbox, pending_calls, barrier, hpc, hcall, executed, completed, deleted>>

\* receivers[i]->shutdown(); delete receivers[i]; receivers.clear()
DeleteReceivers ==
  /\ dpc = "closed"
  /\ dpc' = "deleted"
  /\ deleted' = TRUE
  /\ UNCHANGED <<bqvars, inbox, pending_calls, barrier, hpc, hcall, executed, completed>>

\* fcallqueue.stop_blocking()
StopQueue ==
  /\ dpc = "deleted"
  /\ StopBlocking(Main)
  /\ dpc' = "stopped"
  /\ UNCHANGED <<inbox, pending_calls, barrier, hpc, hcall, executed, completed, deleted>>

\* fcallhandlers.join(): every handler thread has returned.
JoinHandlers ==
  /\ dpc = "stopped"
  /\ \A h \in Handlers : hpc[h] = "done"
  /\ dpc' = "joined"
  /\ UNCHANGED <<bqvars, inbox, pending_calls, barrier, hpc, hcall, executed, completed, deleted>>

\* The destructor has returned.
Destroyed ==
  /\ dpc = "joined"
  /\ UNCHANGED vars

ShutdownNext ==
  \/ RpcNext
  \/ CommClose
  \/ DeleteReceivers
  \/ StopQueue
  \/ JoinHandlers
  \/ Destroyed

ShutdownSpec ==
  /\ Init /\ [][ShutdownNext]_vars /\ RpcFairness
  /\ WF_vars(CommClose \/ DeleteReceivers \/ StopQueue \/ JoinHandlers)

-----------------------------------------------------------------------------

RpcTypeOK ==
  /\ inbox \in [Sources -> Seq([kind : {"CALL", "BARRIER"}, seq : Nat])]
  /\ pending_calls \in [Sources -> Nat]
  /\ barrier \in [Sources -> BOOLEAN]
  /\ hpc \in [Handlers -> {"deq", "exec", "complete", "done"}]
  /\ hcall \in [Handlers -> Elems \cup {NoElem}]
  /\ executed \in [Sources -> Seq(Nat)]
  /\ \A s \in Sources : completed[s] \subseteq Calls(s)
  /\ dpc \in {"live", "closed", "deleted", "stopped", "joined"}
  /\ deleted \in BOOLEAN

\* comm_barrier is a sequencing point (spec 4.6): no call a source sent
\* after a barrier starts before every call it sent before the barrier
\* has completed, whichever handler threads run them.
BarrierSeparates ==
  \A s \in Sources :
    \A i \in DOMAIN executed[s], m \in Calls(s) :
      Epoch(s, m) < Epoch(s, executed[s][i]) => m \in completed[s]

\* Every call every source sent is run and its completion reported.
AllCallsComplete ==
  <>(\A s \in Sources : completed[s] = Calls(s))

\* RPC FIFO (spec invariant 6): the calls of one source are run in the
\* order that source sent them.
PerSourceFifo ==
  \A s \in Sources : IsPrefix(executed[s], SentOrder(s))

\* The destructor frees no receiver that a handler thread still uses: no
\* handler is about to call receivers[source]->function_call_completed()
\* once the receivers are deleted.
NoUseAfterDelete ==
  \A h \in Handlers : hpc[h] = "complete" => ~deleted

=============================================================================
