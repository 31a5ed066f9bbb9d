--------------------------- MODULE MCRpcDispatch ----------------------------
EXTENDS DistObject, TLC

CONSTANTS s1, s2, h1, h2, m

MCSources == {s1, s2}
MCHandlers == {h1, h2}
MCThreads == MCSources \cup MCHandlers \cup {m}
MCElems == [source : MCSources, seq : 1..3]
MCNoElem == [source |-> m, seq |-> 0]

\* s1 sends two calls, a comm_barrier and a third call; s2 one call, a
\* barrier and another call.
MCStream ==
  (s1 :> <<CallFrame(1), CallFrame(2), BarrierFrame, CallFrame(3)>>) @@
  (s2 :> <<CallFrame(1), BarrierFrame, CallFrame(2)>>)

\* s1's second call and both calls of s2 are send_to calls; Main receives
\* from s2, s1 and s2 again.
MCSendTos == (s1 :> {2}) @@ (s2 :> {1, 2})
MCRecvPlan == <<s2, s1, s2>>

\* The dispatch and shutdown behaviours of RpcDispatch on their own, with
\* no recv_from running (the rendezvous state keeps its initial value).
MCDispatchSpec == DOInit /\ [][RpcNext /\ UNCHANGED dovars]_allvars
MCShutdownSpec == DOInit /\ [][ShutdownNext /\ UNCHANGED dovars]_allvars
=============================================================================
