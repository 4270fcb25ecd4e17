-------------------------- MODULE MCSessionReporter --------------------------
(* An instance of SessionReporter for TLC: two egresses that share a worker,  *)
(* one of which issues enough updates to overrun its mailbox.                 *)
EXTENDS SessionReporter

CONSTANTS e1, e2, w1

MCWorkerOf == [e \in Egress |-> w1]
MCUpdates == [e \in Egress |-> IF e = e1 THEN 3 ELSE 1]
=============================================================================
