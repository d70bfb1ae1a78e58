---------------------------- MODULE MCMembership ----------------------------
(***************************************************************************)
(* Clusters for TLC to explore.                                            *)
(***************************************************************************)
EXTENDS Membership

CONSTANTS n1, n2, n3

NoNode == [n \in Nodes |-> None]
AtOnce == [n \in Nodes |-> {}]
Never == {n1, n2, n3}

\* n2 and n3 join through n1 at the same time, once it is started.
Star == [join |-> [NoNode EXCEPT ![n2] = n1, ![n3] = n1], passive |-> {},
         reconnect |-> {}, after |-> [AtOnce EXCEPT ![n2] = {n1}, ![n3] = {n1}], losses |-> 0]

\* They join one after the other.
Line == [Star EXCEPT !.after[n3] = {n1, n2}]

\* Two nodes join each other: two connections between them.
Pair == [join |-> [NoNode EXCEPT ![n1] = n2, ![n2] = n1], passive |-> {},
         reconnect |-> {}, after |-> [AtOnce EXCEPT ![n3] = Never], losses |-> 0]

\* A node that reconnects, and a connection that is lost.
Lossy == [join |-> [NoNode EXCEPT ![n2] = n1], passive |-> {}, reconnect |-> {n2},
          after |-> [AtOnce EXCEPT ![n3] = Never], losses |-> 1]

\* A passive client joins another one; passive clients reconnect.
Clients == [join |-> [NoNode EXCEPT ![n2] = n1], passive |-> {n1, n2},
            reconnect |-> {n1, n2}, after |-> [AtOnce EXCEPT ![n3] = Never], losses |-> 0]

MCClusters == {Line, Pair, Lossy, Clients}
MCStar == {Star}

\* Nothing times out, and nodes are started before they learn of others.
InTime == mishaps \intersect {"early", "gave up"} = {}
=============================================================================
