---------------------------- MODULE MCReplication ---------------------------
(* Instances of Replication for TLC. *)
EXTENDS Replication, TLC

CONSTANTS n1, n2, n3, c1, c3

\* One application goroutine at an active node and one at the passive node.
MCTwoCallers == c1 :> n1 @@ c3 :> n3

MCOneCaller == c1 :> n1
=============================================================================
