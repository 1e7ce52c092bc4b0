------------------------------ MODULE MCBridge ------------------------------
(***************************************************************************)
(* The ingress of the bridge over two connections.  On the first the       *)
(* client uses the numbers 0 .. MaxSeq, so that messages wait in the queue *)
(* together, are sorted there, and leave it in runs; on the second 0 and 1 *)
(* only, for what it sends again and for the gaps that leaves.             *)
(***************************************************************************)
EXTENDS BridgeServer

Numbers == [c \in 1 .. MaxConns |-> IF c = 1 THEN MaxSeq ELSE 1]
===============================================================================
