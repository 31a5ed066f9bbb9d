------------------------------ MODULE MCDhtLda ------------------------------
(* Two processes with one token each, of the same word, two topics and   *)
(* two iterations: every token changes topic at least once, and the      *)
(* topic counters are owned one by each process.                         *)
EXTENDS DhtLda, TLC

CONSTANTS p1, p2

MCProcs == {p1, p2}
MCTokens == (p1 :> <<[word |-> 1, doc |-> 1]>>) @@ (p2 :> <<[word |-> 1, doc |-> 2]>>)
MCWordOwner == 1 :> p2
MCTopicOwner == (0 :> p1) @@ (1 :> p2)
=============================================================================
