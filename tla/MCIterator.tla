----------------------------- MODULE MCIterator -----------------------------
(* Instances of Iterator for TLC. *)
EXTENDS Iterator

CONSTANTS k1, k2, k3

\* Two keys share a shard, in front of or behind the other one, with an empty
\* shard before, between or behind them.
Assign(a, b, c) == [k \in Keys |-> IF k = k1 THEN a ELSE IF k = k2 THEN b ELSE c]
MCHashings == {Assign(0, 0, 2), Assign(1, 1, 0), Assign(1, 1, 2)}
=============================================================================
