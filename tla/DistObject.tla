----------------------------- MODULE DistObject -----------------------------
(***************************************************************************)
(* The send_to / recv_from rendezvous of dc_dist_object                    *)
(* (src/src/graphlab/rpc/dc_dist_object.hpp) on the receiving machine of   *)
(* RpcDispatch.  A send_to of source s is a regular remote_call of         *)
(* obj_block_and_wait_for_recv: a CALL frame in s's stream, queued and run *)
(* by a handler thread like any other call.  That call stores the blob in  *)
(* recv_froms[s] and signals the slot's condition (spec 4.6: the function  *)
(* is not in the sources).  The sender then waits in rt.wait() until the   *)
(* receiver's reply_increment_counter comes back, so the frames it sends   *)
(* after the send_to reach this machine only after that reply.  Here the   *)
(* thread Main calls recv_from for the sources listed in RecvPlan, in      *)
(* order.                                                                  *)
(***************************************************************************)
EXTENDS RpcDispatch

CONSTANTS
  SendTos,        \* SendTos[s]: the numbers of s's calls that are send_to
  RecvPlan        \* the sources Main calls recv_from for, in order

NoData == 0

VARIABLES
  hasdata,        \* recv_froms[s].hasdata
  slotdata,       \* recv_froms[s].data: the send_to stored, NoData once read
  replies,        \* per source: the send_to calls released by a reply
  mpc,            \* Main: the position in RecvPlan, and "take" or "reply"
  received        \* history: per source, what each recv_from returned

dovars == <<hasdata, slotdata, replies, mpc, received>>
allvars == <<vars, dovars>>

\* A call block that is the obj_block_and_wait_for_recv call of a send_to.
IsSendTo(c) == c.seq \in SendTos[c.source]

\* dc_dist_object(dc, owner): recv_froms.resize(numprocs), every slot empty.
DOInit ==
  /\ Init
  /\ hasdata = [s \in Sources |-> FALSE]
  /\ slotdata = [s \in Sources |-> NoData]
  /\ replies = [s \in Sources |-> 0]
  /\ mpc = [at |-> 1, step |-> "take"]
  /\ received = [s \in Sources |-> <<>>]

\* send_to: the sender leaves rt.wait() only after the reply, so the rest
\* of its stream is sent once every send_to it has sent so far has been
\* answered.
SenderFree(s) ==
  LET sent == SubSeq(Stream[s], 1, Len(Stream[s]) - Len(inbox[s]))
      calls == {i \in DOMAIN sent : sent[i].kind = "CALL"}
  IN  Cardinality({i \in calls : sent[i].seq \in SendTos[s]}) = replies[s]

\* Mutant of ExecCall: the blob is stored in the slot of another source.
ExecCallWrongSlot(h) ==
  /\ ExecFunctionCall(h)
  /\ IF IsSendTo(hcall[h])
       THEN \E o \in Sources \ {hcall[h].source} :
              /\ hasdata' = [hasdata EXCEPT ![o] = TRUE]
              /\ slotdata' = [slotdata EXCEPT ![o] = hcall[h].seq]
       ELSE UNCHANGED <<hasdata, slotdata>>
  /\ UNCHANGED <<replies, mpc, received>>

\* exec_function_call; for a send_to, obj_block_and_wait_for_recv stores
\* the blob in recv_froms[source], sets hasdata and signals the slot.
ExecCall(h) ==
  /\ ExecFunctionCall(h)
  /\ IF IsSendTo(hcall[h])
       THEN /\ hasdata' = [hasdata EXCEPT ![hcall[h].source] = TRUE]
            /\ slotdata' = [slotdata EXCEPT ![hcall[h].source] = hcall[h].seq]
       ELSE UNCHANGED <<hasdata, slotdata>>
  /\ UNCHANGED <<replies, mpc, received>>

\* Mutant of RecvFromTake: hasdata is not cleared.
RecvFromTakeKeepingFlag ==
  /\ mpc.at <= Len(RecvPlan)
  /\ mpc.step = "take"
  /\ LET s == RecvPlan[mpc.at]
     IN  /\ hasdata[s]
         /\ received' = [received EXCEPT ![s] = Append(@, slotdata[s])]
         /\ slotdata' = [slotdata EXCEPT ![s] = NoData]
  /\ mpc' = [mpc EXCEPT !.step = "reply"]
  /\ UNCHANGED <<vars, hasdata, replies>>

\* recv_from(source), under recvstruct.lock: wait on the slot's condition
\* while hasdata is false, then read the data, clear it and hasdata, and
\* unlock.
RecvFromTake ==
  /\ mpc.at <= Len(RecvPlan)
  /\ mpc.step = "take"
  /\ LET s == RecvPlan[mpc.at]
     IN  /\ hasdata[s]
         /\ received' = [received EXCEPT ![s] = Append(@, slotdata[s])]
         /\ slotdata' = [slotdata EXCEPT ![s] = NoData]
         /\ hasdata' = [hasdata EXCEPT ![s] = FALSE]
  /\ mpc' = [mpc EXCEPT !.step = "reply"]
  /\ UNCHANGED <<vars, replies>>

\* recv_from, after the unlock: fast_remote_call(source,
\* reply_increment_counter, tag) releases the sender.
RecvFromReply ==
  /\ mpc.step = "reply"
  /\ replies' = [replies EXCEPT ![RecvPlan[mpc.at]] = @ + 1]
  /\ mpc' = [at |-> mpc.at + 1, step |-> "take"]
  /\ UNCHANGED <<vars, hasdata, slotdata, received>>

DONext ==
  \/ \E s \in Sources :
       /\ SenderFree(s)
       /\ ReceiveCall(s) \/ ReceiveBarrier(s)
       /\ UNCHANGED dovars
  \/ \E h \in Handlers :
       \/ HandlerDequeue(h) /\ UNCHANGED dovars
       \/ ExecCall(h)
       \/ FunctionCallCompleted(h) /\ UNCHANGED dovars
  \/ RecvFromTake
  \/ RecvFromReply

\* Every thread goes on while it can (RpcFairness); Main's recv_from too.
DOSpec ==
  /\ DOInit /\ [][DONext]_allvars
  /\ \A s \in Sources :
       WF_allvars(SenderFree(s) /\ (ReceiveCall(s) \/ ReceiveBarrier(s)) /\ UNCHANGED dovars)
  /\ \A h \in Handlers :
       /\ WF_allvars(HandlerDequeue(h) /\ UNCHANGED dovars)
       /\ WF_allvars(ExecCall(h))
       /\ WF_allvars(FunctionCallCompleted(h) /\ UNCHANGED dovars)
  /\ WF_allvars(RecvFromTake \/ RecvFromReply)

-----------------------------------------------------------------------------

DOTypeOK ==
  /\ RpcTypeOK
  /\ hasdata \in [Sources -> BOOLEAN]
  /\ \A s \in Sources : slotdata[s] \in SendTos[s] \cup {NoData}
  /\ replies \in [Sources -> Nat]
  /\ mpc \in [at : 1..(Len(RecvPlan) + 1), step : {"take", "reply"}]
  /\ received \in [Sources -> Seq(Nat)]

\* send_to is a matched rendezvous: a blob is stored in recv_froms[s]
\* only once recv_from has consumed the previous one, so no send_to is
\* overwritten before it is read.  It holds because the sender waits for
\* the reply that recv_from sends after clearing the slot.
NoSlotOverwrite ==
  \A h \in Handlers :
    hpc[h] = "exec" /\ IsSendTo(hcall[h]) => ~hasdata[hcall[h].source]

\* recv_from returns the send_to calls of each source in the order sent,
\* and every send_to is received and answered: no sender stays blocked in
\* rt.wait() and Main leaves every recv_from.
RendezvousCompletes ==
  <>(\A s \in Sources :
       /\ replies[s] = Cardinality(SendTos[s])
       /\ received[s] = SelectSeq(SentOrder(s), LAMBDA n : n \in SendTos[s]))

=============================================================================
