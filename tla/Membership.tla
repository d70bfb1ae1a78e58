----------------------------- MODULE Membership -----------------------------
(***************************************************************************)
(* How nodes find and keep each other: start, join, the VERIFY handshake,  *)
(* the exchange of members, the refusal of duplicates, the loss of a       *)
(* connection, its removal and reconnection                                *)
(* (Cluster/clusteredBigCache.go, Cluster/remoteNode.go,                   *)
(* utils/sliceList.go).                                                    *)
(*                                                                         *)
(* A connection has two ends, one remoteNode at each node: "out" at the    *)
(* node that dialled, "in" at the node that accepted.  The goroutines of   *)
(* an end are the network consumer (Receive), the message handler          *)
(* (handleMessage, VerifyAdd), the goroutine that waits to ask for the     *)
(* members (SyncSend) and the run.Group that stops them all (Interrupt,    *)
(* tearDown).                                                              *)
(* Sending puts a message on the connection, which keeps the order.  A     *)
(* node is known by its Id; its address is modelled by the same value.     *)
(***************************************************************************)
EXTENDS Integers, Sequences, FiniteSets

CONSTANTS Nodes,
          Clusters,    \* the configurations explored: records with fields
                       \*   join: the node a node joins, or None (JoinIp)
                       \*   passive: the passive clients
                       \*   reconnect: the nodes with ReconnectOnDisconnect
                       \*   after: the nodes that a node is started after
                       \*   losses: bound on the connections that break
          MaxConns,    \* bound on the connections that are dialled
          None

Conns == 1 .. MaxConns
Ends == Conns \X {"out", "in"}
Other(e) == <<e[1], IF e[2] = "out" THEN "in" ELSE "out">>

\* The empty Id of a node that is dialled by address only.
NoId == "no id"

ASSUME MembershipAssumption ==
    /\ None \notin Nodes /\ None \notin Ends
    /\ NoId \notin Nodes
    /\ \A S \in SUBSET Nodes : Cardinality(S) \in Nat    \* Nodes is finite
    /\ MaxConns \in Nat
    /\ \A cl \in Clusters : /\ cl.join \in [Nodes -> Nodes \union {None}]
                            /\ \A n \in Nodes : cl.join[n] # n
                            /\ cl.passive \subseteq Nodes
                            /\ cl.reconnect \subseteq Nodes
                            /\ cl.after \in [Nodes -> SUBSET Nodes]
                            /\ cl.losses \in Nat

VARIABLES cluster,      \* the configuration
          nodeState,    \* per node: "new", "starting", "started"
          end,          \* the remoteNode at each end of a connection
          net,          \* per end: messages on their way to it
          inbound,      \* per end: inboundMsgQueue
          remoteNodes,  \* per node: Id -> the end listed under it
          pendingConn,  \* per node: the Ids being dialled
          joinQueue,    \* per node: proposed peers
          storing,      \* per node: the Id connectToExistingNodes has dialled and
                        \* not yet noted in pendingConn
          broken,       \* the connections that were lost
          mishaps       \* history: what has gone wrong so far

nodeVars == <<nodeState, remoteNodes, pendingConn, joinQueue, storing>>
vars == <<cluster, nodeVars, end, net, inbound, broken, mishaps>>

\* A connection to a listed node, a listed end that another one replaces or, at
\* its own end, removes, a proposal that is not followed because the Id is being
\* dialled or the node not started yet, a dial or a request for the members that
\* is given up, a connection that is lost.
Mishap == {"duplicate", "unlisted", "skipped", "early", "gave up", "lost"}

Ids == Nodes \union {NoId}

Peer == [id : Ids, addr : Nodes]

Message == [type : {"VERIFY", "VERIFYOK", "SyncReq", "SyncRsp"},
            id : Nodes \union {None}, list : SUBSET Nodes]

Verify(n) == [type |-> "VERIFY", id |-> n, list |-> {}]
VerifyOK == [type |-> "VERIFYOK", id |-> None, list |-> {}]
SyncReq == [type |-> "SyncReq", id |-> None, list |-> {}]
SyncRsp(list) == [type |-> "SyncRsp", id |-> None, list |-> list]

\* phase is the run.Group's: its goroutines run, have been interrupted, are gone.
Unused == [phase |-> "unused", node |-> None, addr |-> None, id |-> NoId,
           state |-> "disconnected", sync |-> FALSE, reconnect |-> FALSE,
           greeted |-> FALSE, adding |-> FALSE, asking |-> FALSE]

End == [phase : {"unused", "dialling", "up", "stopping", "down"},
        node : Nodes \union {None}, addr : Nodes \union {None}, id : Ids,
        state : {"disconnected", "connecting", "handshake", "connected"},
        sync : BOOLEAN, reconnect : BOOLEAN,
        greeted : BOOLEAN,     \* start has sent VERIFY
        adding : BOOLEAN,      \* handleVerify is between Contains and Add
        asking : BOOLEAN]      \* the goroutine of handleVerifyOK is waiting

Passive(n) == n \in cluster.passive

MembershipTypeOK ==
    /\ cluster \in Clusters
    /\ nodeState \in [Nodes -> {"new", "starting", "started"}]
    /\ end \in [Ends -> End]
    /\ \A e \in Ends : end[e].adding => end[e].id \in Nodes
    /\ net \in [Ends -> Seq(Message)] /\ inbound \in [Ends -> Seq(Message)]
    /\ remoteNodes \in [Nodes -> [Nodes -> Ends \union {None}]]
    /\ pendingConn \in [Nodes -> SUBSET Ids]
    /\ joinQueue \in [Nodes -> Seq(Peer)]
    /\ storing \in [Nodes -> Ids \union {None}]
    /\ broken \subseteq Conns /\ mishaps \subseteq Mishap

Listed(n) == {m \in Nodes : remoteNodes[n][m] # None}

-----------------------------------------------------------------------------
(* Dialling *)

Free(c) == end[<<c, "out">>].phase = "unused"
NextConn(c) == Free(c) /\ \A d \in Conns : d < c => ~Free(d)

\* newRemoteNode and join.
Dial(c, n, addr, id, sync) ==
    /\ NextConn(c)
    /\ end' = [end EXCEPT ![<<c, "out">>] =
         [Unused EXCEPT !.phase = "dialling", !.node = n, !.addr = addr, !.id = id,
                        !.state = "connecting", !.sync = sync,
                        !.reconnect = n \in cluster.reconnect]]

\* The operator waits until the nodes in after know each other.
Settled(n) ==
    \A m \in cluster.after[n] : /\ nodeState[m] = "started"
                                 /\ cluster.after[n] \ {m} \subseteq Listed(m)

\* Start up to joinCluster.  The listener runs from here on.
Start(n) ==
    /\ nodeState[n] = "new"
    /\ Settled(n)
    /\ nodeState' = [nodeState EXCEPT ![n] = "starting"]
    /\ IF cluster.join[n] = None
         THEN UNCHANGED end
         ELSE \E c \in Conns : Dial(c, n, cluster.join[n], NoId, TRUE)
    /\ UNCHANGED <<cluster, net, inbound, remoteNodes, pendingConn, joinQueue, storing, broken, mishaps>>

Started(n) ==
    /\ nodeState[n] = "starting"
    /\ nodeState' = [nodeState EXCEPT ![n] = "started"]
    /\ UNCHANGED <<cluster, end, net, inbound, remoteNodes, pendingConn, joinQueue, storing, broken, mishaps>>

\* connect succeeds, listen accepts, and both run start.
Connect(c) ==
    LET out == <<c, "out">> in == <<c, "in">> IN
    /\ end[out].phase = "dialling"
    /\ nodeState[end[out].addr] # "new"
    /\ end' = [end EXCEPT
         ![out] = [@ EXCEPT !.phase = "up", !.state = "handshake"],
         ![in] = [Unused EXCEPT !.phase = "up", !.state = "handshake",
                                !.node = end[out].addr, !.addr = end[out].node]]
    /\ UNCHANGED <<cluster, nodeVars, net, inbound, broken, mishaps>>

\* ConnectRetries attempts have failed: eventUnableToConnect.
GiveUp(c) ==
    LET out == <<c, "out">> n == end[out].node IN
    /\ end[out].phase = "dialling"
    /\ nodeState[end[out].addr] = "new"
    /\ end' = [end EXCEPT ![out] = [Unused EXCEPT !.phase = "down", !.node = n,
                                                  !.addr = end[out].addr]]
    /\ pendingConn' = [pendingConn EXCEPT ![n] = @ \ {end[out].id}]
    /\ mishaps' = mishaps \union {"gave up"}
    /\ UNCHANGED <<cluster, nodeState, net, inbound, remoteNodes, joinQueue, storing, broken>>

\* connectToExistingNodes takes a proposed peer.
JoinQueueTake(n) ==
    /\ storing[n] = None
    /\ joinQueue[n] # <<>>
    /\ joinQueue' = [joinQueue EXCEPT ![n] = Tail(@)]
    /\ LET p == Head(joinQueue[n]) IN
         \/ /\ nodeState[n] # "started" \/ p.id \in pendingConn[n]
            /\ mishaps' = mishaps \union {IF nodeState[n] # "started" THEN "early" ELSE "skipped"}
            /\ UNCHANGED <<end, storing>>
         \/ /\ nodeState[n] = "started" /\ p.id \notin pendingConn[n]
            /\ p.id \in Listed(n)
            /\ UNCHANGED <<end, storing, mishaps>>
         \/ /\ nodeState[n] = "started" /\ p.id \notin pendingConn[n]
            /\ p.id \notin Listed(n)
            /\ \E c \in Conns : Dial(c, n, p.addr, p.id, FALSE)
            /\ storing' = [storing EXCEPT ![n] = p.id]
            /\ UNCHANGED mishaps
    /\ UNCHANGED <<cluster, nodeState, net, inbound, remoteNodes, pendingConn, broken>>

PendingStore(n) ==
    /\ storing[n] # None
    /\ pendingConn' = [pendingConn EXCEPT ![n] = @ \union {storing[n]}]
    /\ storing' = [storing EXCEPT ![n] = None]
    /\ UNCHANGED <<cluster, nodeState, end, net, inbound, remoteNodes, joinQueue, broken, mishaps>>

-----------------------------------------------------------------------------
(* The messages of an end *)

\* sendMessage: nothing is sent by an end that is disconnected, and nothing
\* arrives at one.
Sent(e, msg) ==
    IF end[e].phase = "up" /\ end[Other(e)].phase = "up"
      THEN [net EXCEPT ![Other(e)] = Append(@, msg)]
      ELSE net

sendVerify(e) ==
    /\ end[e].phase = "up"
    /\ ~end[e].greeted
    /\ end' = [end EXCEPT ![e].greeted = TRUE]
    /\ net' = Sent(e, Verify(end[e].node))
    /\ UNCHANGED <<cluster, nodeVars, inbound, broken, mishaps>>

\* networkConsumer and queueInboundMessage.
Receive(e) ==
    /\ end[e].phase = "up"
    /\ net[e] # <<>>
    /\ net' = [net EXCEPT ![e] = Tail(@)]
    /\ inbound' = IF end[e].state = "handshake"
                       /\ Head(net[e]).type \notin {"VERIFY", "VERIFYOK"}
                    THEN inbound
                    ELSE [inbound EXCEPT ![e] = Append(@, Head(net[e]))]
    /\ UNCHANGED <<cluster, nodeVars, end, broken, mishaps>>

\* The run.Group is interrupted: its goroutines end, what is queued is dropped.
Stop(e, r) ==
    /\ end' = [end EXCEPT ![e] = [r EXCEPT !.phase = "stopping", !.state = "disconnected",
                                           !.asking = FALSE]]
    /\ net' = [net EXCEPT ![e] = <<>>]
    /\ inbound' = [inbound EXCEPT ![e] = <<>>]

Handled(e) == inbound' = [inbound EXCEPT ![e] = Tail(@)]

\* The connecting node and this one are passive, or the node is listed already.
MutRefused(n, m) == m \in Listed(n)
Refused(n, m) == (Passive(n) /\ Passive(m)) \/ m \in Listed(n)

\* The end takes the Id of the VERIFY.
MutIdentified(e, m) == end[e]
Identified(e, m) == [end[e] EXCEPT !.id = m]

\* handleVerify up to Contains.
handleVerify(e, m) ==
    LET n == end[e].node
        r == Identified(e, m)
    IN
    /\ IF Refused(n, m)
         THEN Stop(e, r)
         ELSE /\ end' = [end EXCEPT ![e] = [r EXCEPT !.adding = TRUE]]
              /\ Handled(e)
              /\ UNCHANGED net
    /\ mishaps' = IF m \in Listed(n) THEN mishaps \union {"duplicate"} ELSE mishaps
    /\ UNCHANGED joinQueue

\* Connections to passive nodes are not made again.
MutReconnects(e, m) == end[e].reconnect /\ Passive(m)
Reconnects(e, m) == end[e].reconnect /\ ~Passive(m)

\* What eventVerifyRemoteNode does once it has not found the peer listed.
eventVerifyRemoteNode(n, m, e) ==
    /\ remoteNodes' = [remoteNodes EXCEPT ![n][m] = e]
    /\ pendingConn' = [pendingConn EXCEPT ![n] = @ \ {m}]

\* The rest of handleVerify, VERIFYOK included.  The group may have been
\* interrupted meanwhile; the handler finishes all the same.
VerifyAdd(e) ==
    LET n == end[e].node
        m == end[e].id
    IN
    /\ end[e].adding
    /\ end' = [end EXCEPT ![e] = [@ EXCEPT !.adding = FALSE, !.state = "connected",
                                           !.reconnect = Reconnects(e, m)]]
    /\ eventVerifyRemoteNode(n, m, e)
    /\ net' = Sent(e, VerifyOK)
    /\ mishaps' = IF m \in Listed(n) THEN mishaps \union {"unlisted"} ELSE mishaps
    /\ UNCHANGED <<cluster, nodeState, joinQueue, storing, inbound, broken>>

\* Only the end that joined the cluster asks for its members.
handleVerifyOK(e) ==
    /\ end' = [end EXCEPT ![e].asking = @ \/ end[e].sync]
    /\ Handled(e)
    /\ UNCHANGED <<net, joinQueue, mishaps>>

\* sendSyncResponse: the members, but the one that asks and the passive ones
\* when it is passive itself.
MutProposed(n, m) == {p \in Listed(n) : ~(Passive(p) /\ Passive(m))}
Proposed(n, m) == {p \in Listed(n) : p # m /\ ~(Passive(p) /\ Passive(m))}

\* An empty list is not sent.
MutWorthSending(list) == Cardinality(list) > 1
WorthSending(list) == Cardinality(list) > 0

handleSyncRequest(e) ==
    LET list == Proposed(end[e].node, end[e].id) IN
    /\ net' = IF WorthSending(list) THEN Sent(e, SyncRsp(list)) ELSE net
    /\ Handled(e)
    /\ UNCHANGED <<end, joinQueue, mishaps>>

\* The sequences with the elements of S, each once.
Orders(S) == {s \in [1 .. Cardinality(S) -> S] : \A x \in S : \E i \in DOMAIN s : s[i] = x}

\* In the order of sync.Map.Range at the sender.
handleSyncResponse(e, list) ==
    /\ \E order \in Orders(list) :
         joinQueue' = [joinQueue EXCEPT ![end[e].node] =
                         @ \o [i \in DOMAIN order |-> [id |-> order[i], addr |-> order[i]]]]
    /\ Handled(e)
    /\ UNCHANGED <<end, net, mishaps>>

handleMessage(e) ==
    /\ end[e].phase = "up"
    /\ ~end[e].adding
    /\ inbound[e] # <<>>
    /\ LET msg == Head(inbound[e]) IN
         \/ msg.type = "VERIFY" /\ handleVerify(e, msg.id)
         \/ msg.type = "VERIFYOK" /\ handleVerifyOK(e)
         \/ msg.type = "SyncReq" /\ handleSyncRequest(e)
         \/ msg.type = "SyncRsp" /\ handleSyncResponse(e, msg.list)
    /\ UNCHANGED <<cluster, nodeState, remoteNodes, pendingConn, storing, broken>>

\* The goroutine of handleVerifyOK sees the end of the handshake ...
MutHandshakeOver(e) == TRUE
HandshakeOver(e) == end[e].state # "handshake"

SyncSend(e) ==
    /\ end[e].asking
    /\ HandshakeOver(e)
    /\ end' = [end EXCEPT ![e].asking = FALSE]
    /\ net' = Sent(e, SyncReq)
    /\ UNCHANGED <<cluster, nodeVars, inbound, broken, mishaps>>

\* ... or gives up after five seconds.
SyncGiveUp(e) ==
    /\ end[e].asking
    /\ ~HandshakeOver(e)
    /\ end' = [end EXCEPT ![e].asking = FALSE]
    /\ mishaps' = mishaps \union {"gave up"}
    /\ UNCHANGED <<cluster, nodeVars, net, inbound, broken>>

-----------------------------------------------------------------------------
(* The end of a connection *)

Lose(c) ==
    /\ end[<<c, "in">>].phase = "up" /\ end[<<c, "out">>].phase = "up"
    /\ c \notin broken /\ Cardinality(broken) < cluster.losses
    /\ broken' = broken \union {c}
    /\ mishaps' = mishaps \union {"lost"}
    /\ UNCHANGED <<cluster, nodeVars, end, net, inbound>>

\* Reading fails on a connection that is lost, or that the other end has closed.
MutReadFails(e) == e[1] \in broken
ReadFails(e) == e[1] \in broken \/ end[Other(e)].phase \in {"stopping", "down"}

Interrupt(e) ==
    /\ end[e].phase = "up"
    /\ ReadFails(e)
    /\ Stop(e, end[e])
    /\ UNCHANGED <<cluster, nodeVars, broken, mishaps>>

\* The wait for the goroutines of the end: its handler is not inside handleVerify.
MutHandlerDone(e) == TRUE
HandlerDone(e) == ~end[e].adding

\* tearDown, once the goroutines have ended.  The list is cleared under the Id,
\* whichever end is listed there.
tearDown(e) ==
    LET n == end[e].node
        id == end[e].id
    IN
    /\ end[e].phase = "stopping"
    /\ HandlerDone(e)
    /\ end' = [end EXCEPT ![e] = [Unused EXCEPT !.phase = "down", !.node = n,
                                                !.addr = end[e].addr, !.adding = end[e].adding,
                                                !.id = IF end[e].adding THEN id ELSE NoId]]
    /\ remoteNodes' = IF id = NoId THEN remoteNodes
                      ELSE [remoteNodes EXCEPT ![n][id] = None]
    /\ mishaps' = IF id \in Listed(n) /\ remoteNodes[n][id] # e
                    THEN mishaps \union {"unlisted"}
                    ELSE mishaps
    /\ joinQueue' = IF ~end[e].reconnect THEN joinQueue
                    ELSE [joinQueue EXCEPT ![n] = Append(@, [id |-> id, addr |-> end[e].addr])]
    /\ UNCHANGED <<cluster, nodeState, net, inbound, pendingConn, storing, broken>>

-----------------------------------------------------------------------------
Init ==
    /\ cluster \in Clusters
    /\ nodeState = [n \in Nodes |-> "new"]
    /\ end = [e \in Ends |-> Unused]
    /\ net = [e \in Ends |-> <<>>] /\ inbound = [e \in Ends |-> <<>>]
    /\ remoteNodes = [n \in Nodes |-> [m \in Nodes |-> None]]
    /\ pendingConn = [n \in Nodes |-> {}]
    /\ joinQueue = [n \in Nodes |-> <<>>]
    /\ storing = [n \in Nodes |-> None]
    /\ broken = {} /\ mishaps = {}

NodeStep(n) == Start(n) \/ Started(n) \/ JoinQueueTake(n) \/ PendingStore(n)

EndStep(e) ==
    \/ sendVerify(e) \/ Receive(e) \/ handleMessage(e) \/ VerifyAdd(e)
    \/ SyncSend(e) \/ Interrupt(e) \/ tearDown(e)

System ==
    \/ \E n \in Nodes : NodeStep(n)
    \/ \E c \in Conns : Connect(c)
    \/ \E e \in Ends : EndStep(e)

Next ==
    \/ System
    \/ \E c \in Conns : GiveUp(c) \/ Lose(c)
    \/ \E e \in Ends : SyncGiveUp(e)

Spec == Init /\ [][Next]_vars

\* Some goroutine that can go on does, the nodes are started and the network
\* delivers; connections need not break and timeouts need not expire.
FairSpec == Spec /\ WF_vars(System)

-----------------------------------------------------------------------------
(* Properties *)

\* The nodes n and m list each other, over the same connection.
Linked(n, m) ==
    /\ remoteNodes[n][m] # None
    /\ remoteNodes[m][n] = Other(remoteNodes[n][m])

(* The list names only what is there: an end is listed by its own node,    *)
(* under the Id of the node at the other end, and an end that has been     *)
(* torn down is not listed any more, although the handler may add it while *)
(* the group is being stopped: tearDown waits for the handler.             *)
ListedIsLive ==
    \A n, m \in Nodes : \A e \in Ends : remoteNodes[n][m] = e =>
        /\ end[e].node = n /\ end[e].id = m
        /\ end[Other(e)].node = m
        /\ end[e].phase \in {"up", "stopping"}

(* "node with mode PASSIVE should not be able to connect to each other":   *)
(* no passive node lists another or takes the connection to it for         *)
(* established, whichever of the two VERIFYs is handled first.             *)
PassiveApart ==
    \A e \in Ends : end[e].phase = "up" /\ end[e].state = "connected" =>
        ~(Passive(end[e].node) /\ Passive(end[Other(e)].node))

(* No request for the members and no answer is dropped by the filter of    *)
(* the handshake: the request waits for VERIFYOK and for the own VERIFY.   *)
SyncNotFiltered ==
    \A e \in Ends : \A i \in 1 .. Len(net[e]) :
        net[e][i].type \in {"SyncReq", "SyncRsp"} /\ end[e].phase = "up"
            => end[e].state = "connected"

(* A node never dials itself, although the members it learns from are in   *)
(* touch with it.                                                          *)
NoSelfDial == \A e \in Ends : end[e].phase # "unused" => end[e].addr # end[e].node

HalfOpen == \E e \in Ends : end[e].phase = "up" /\ end[Other(e)].phase \in {"stopping", "down"}

(* Whatever stops one end of a connection stops the other: no node keeps   *)
(* on using a connection that its peer has given up.                       *)
BothEndsGo == HalfOpen ~> ~HalfOpen

Running == {n \in Nodes : nodeState[n] # "new"}

Mesh ==
    \A n, m \in Running : n # m /\ ~(Passive(n) /\ Passive(m)) => Linked(n, m)

(* "[...] so that this node can connect forming a mesh network in the      *)
(* process" (connectToExistingNodes): in the end every two started nodes   *)
(* are linked, unless a connection is lost, a dial or a handshake times    *)
(* out or a node learns of another before it is started.                   *)
MeshForms == <>[](Mesh \/ mishaps \intersect {"early", "gave up", "lost"} # {})

(* That holds for good if no connection is lost, no dial given up, no      *)
(* proposal skipped and no connection to a listed node made: nothing but   *)
(* these keeps two nodes apart.                                            *)
MeshUnlessMishap == <>[](Mesh \/ mishaps # {})

\* No connection can be dialled any more: the bound of the model.
Exhausted == \A c \in Conns : ~Free(c)

(* An active node with ReconnectOnDisconnect is linked to the node it      *)
(* joined again, whenever the connection was lost and whether or not the   *)
(* other end has noticed: nothing but a proposal that was skipped, a dial  *)
(* given up or another connection between the two keeps them apart.        *)
ReconnectsUnlessMishap ==
    <>[](\/ mishaps \intersect {"skipped", "early", "gave up", "unlisted"} # {}
         \/ \A n \in cluster.reconnect : Passive(n) \/ Linked(n, cluster.join[n])
         \/ Exhausted)
=============================================================================
