---------------------------- MODULE MCShardLocks ----------------------------
(* An instance of ShardLocks for TLC. *)
EXTENDS ShardLocks, TLC

CONSTANTS k1, k2, t1, t2

\* Every key has its own hash.
MCDistinctHash == k1 :> 1 @@ k2 :> 2
=============================================================================
