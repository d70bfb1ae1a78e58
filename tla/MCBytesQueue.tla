---------------------------- MODULE MCBytesQueue ----------------------------
(* Clients of BytesQueue for TLC. *)
EXTENDS BytesQueue

\* The cache shard.
Shard == [lens |-> {20, 4092, 9000}, maxCapacity |-> 0, uses |-> {"Delete"}, pushes |-> 5]

\* A shard with a limit (HardMaxCacheSize) and entries around the first class.
LimitedShard == [lens |-> {20, 60}, maxCapacity |-> 300, uses |-> {"Delete"}, pushes |-> 5]

\* A user of the queue as such.
Fifo == [lens |-> {16, 36, 70}, maxCapacity |-> 400, uses |-> {"Pop", "Reset"}, pushes |-> 7]

MCClients == {Shard, LimitedShard, Fifo}
=============================================================================
