-------------------------- MODULE MembershipProofs --------------------------
(***************************************************************************)
(* For any number of nodes, connections and losses, and any configuration  *)
(* in which no node is told to join itself: a node lists only live ends,   *)
(* under the right Id; two passive nodes never take each other for         *)
(* connected; and no node dials itself.  None of the three is inductive    *)
(* alone; the invariant is IInv of MembershipInvariant.                    *)
(*                                                                         *)
(* The filter of the handshake drops no request for the members and no     *)
(* answer: SyncInv says what the sender of each message knows of the two   *)
(* ends.  Books has the types that IInv leaves out.                        *)
(***************************************************************************)
EXTENDS MembershipInvariant

LEMMA ReceiveKeeps == ASSUME IInv, NEW e \in Ends, Receive(e) PROVE IInv'
  <1> DEFINE msg == Head(net[e])
  <1>1. /\ end[e].phase = "up" /\ net[e] # <<>> /\ net' = [net EXCEPT ![e] = Tail(net[e])]
        /\ \/ inbound' = inbound
           \/ /\ inbound' = [inbound EXCEPT ![e] = Append(inbound[e], msg)]
              /\ end[e].state # "handshake" \/ msg.type \in {"VERIFY", "VERIFYOK"}
        /\ UNCHANGED <<cluster, end, remoteNodes, joinQueue>>
    BY DEF Receive, nodeVars
  <1>2. Types /\ Owns /\ Pairs /\ Nets /\ Inbounds /\ Lists /\ Queues
    BY DEF IInv
  <1>3. net[e] \in Seq(Message) /\ inbound[e] \in Seq(Message)
    BY <1>2, SMTT(30) DEF Types
  <1>4. /\ msg \in Message /\ 1 \in 1 .. Len(net[e]) /\ msg = net[e][1]
        /\ Tail(net[e]) \in Seq(Message)
        /\ \A i \in 1 .. Len(Tail(net[e])) : \E j \in 1 .. Len(net[e]) : Tail(net[e])[i] = net[e][j]
    BY <1>1, <1>3, TailElements
  <1>5. Right(e, msg)
    BY <1>2, <1>4 DEF Nets
  <1>6. /\ net' \in [Ends -> Seq(Message)] /\ net'[e] = Tail(net[e])
        /\ \A f \in Ends : f # e => net'[f] = net[f]
    BY <1>1, <1>2, <1>4, SMTT(30) DEF Types
  <1>7. Nets'
    <2> SUFFICES ASSUME NEW f \in Ends, NEW i \in 1 .. Len(net'[f]) PROVE Right(f, net[f][i])'
      BY DEF Nets
    <2>1. \E j \in 1 .. Len(net[f]) : net'[f][i] = net[f][j]
      <3>1. CASE f = e
        BY <1>4, <1>6, <3>1, ZenonT(60)
      <3>2. CASE f # e
        BY <1>6, <3>2
      <3> QED BY <3>1, <3>2
    <2>2. Right(f, net'[f][i])
      BY <1>2, <2>1 DEF Nets
    <2> QED BY <1>1, <2>2 DEF Right
  <1>8. end[e].state = "connected" => end[e].id = end[e].addr
    BY <1>2 DEF Owns, Sound
  <1>9. end[e].state \in {"handshake", "connected"}
    BY <1>1, <1>2 DEF Owns, Sound
  <1> HIDE DEF msg
  <1>10. inbound' \in [Ends -> Seq(Message)] /\ Inbounds'
    <2>1. CASE inbound' = inbound
      BY <1>1, <1>2, <2>1, SameUpKept, InboundsSame, SMTT(30) DEF Types
    <2>2. CASE /\ inbound' = [inbound EXCEPT ![e] = Append(inbound[e], msg)]
               /\ end[e].state # "handshake" \/ msg.type \in {"VERIFY", "VERIFYOK"}
      <3>1. /\ Append(inbound[e], msg) \in Seq(Message)
            /\ \A i \in 1 .. Len(Append(inbound[e], msg)) :
                 \/ Append(inbound[e], msg)[i] = msg
                 \/ \E j \in 1 .. Len(inbound[e]) : Append(inbound[e], msg)[i] = inbound[e][j]
        BY <1>3, <1>4, AppendElements
      <3>2. /\ inbound' \in [Ends -> Seq(Message)] /\ inbound'[e] = Append(inbound[e], msg)
            /\ \A f \in Ends : f # e => inbound'[f] = inbound[f]
        BY <1>2, <2>2, <3>1 DEF Types
      <3>3. msg.type = "SyncReq" => end[e].id = end[e].addr
        BY <1>8, <1>9, <2>2
      <3>4. ASSUME NEW f \in Ends, NEW i \in 1 .. Len(inbound'[f])
            PROVE  /\ Right(f, inbound'[f][i])
                   /\ inbound'[f][i].type = "SyncReq" => end[f].id = end[f].addr
        <4>1. \/ f = e /\ inbound'[f][i] = msg
              \/ \E j \in 1 .. Len(inbound[f]) : inbound'[f][i] = inbound[f][j]
          <5>1. CASE f = e
            BY <3>1, <3>2, <5>1, SMTT(30)
          <5>2. CASE f # e
            BY <3>2, <5>2, SMTT(30)
          <5> QED BY <5>1, <5>2
        <4> QED BY <1>2, <1>5, <3>3, <4>1 DEF Inbounds
      <3>5. Inbounds'
        BY <1>1, <3>4, SMTT(30) DEF Inbounds, Right
      <3> QED BY <3>2, <3>5
    <2> QED BY <1>1, <2>1, <2>2
  <1>11. Types' /\ Owns' /\ Pairs' /\ Lists' /\ Queues'
    BY <1>1, <1>2, <1>6, <1>10, SameEnds, SMTT(30) DEF Types, Queues
  <1> QED BY <1>7, <1>10, <1>11 DEF IInv

LEMMA handleVerifyKeeps ==
    ASSUME IInv, NEW e \in Ends, end[e].phase = "up", ~end[e].adding, inbound[e] # <<>>,
           NEW m, m = Head(inbound[e]).id, Head(inbound[e]).type = "VERIFY", handleVerify(e, m),
           UNCHANGED <<cluster, remoteNodes>>
    PROVE  IInv'
  <1> DEFINE r == [end[e] EXCEPT !.id = m]
             q == [r EXCEPT !.adding = TRUE]
  <1>1. Types /\ Owns /\ Pairs /\ Nets /\ Inbounds /\ Lists /\ Queues
    BY DEF IInv
  <1>2. m = end[e].addr
    BY <1>1, FirstInbound, SMTT(30) DEF Right
  <1>3. /\ end[e] \in End /\ Sound(end[e]) /\ end[e].addr \in Nodes
    BY <1>1 DEF Types, Owns, Sound
  <1>4. /\ r \in End /\ r.phase = end[e].phase /\ r.state = end[e].state /\ r.node = end[e].node
        /\ r.addr = end[e].addr /\ r.id = m /\ r.adding = end[e].adding
    BY <1>2, <1>3, SMTT(30) DEF End, Ids
  <1>5. CASE Stop(e, r)
    <2> HIDE DEF r
    <2>1. /\ end' \in [Ends -> End] /\ net' \in [Ends -> Seq(Message)]
          /\ inbound' \in [Ends -> Seq(Message)]
          /\ Owns' /\ Pairs' /\ Nets' /\ Inbounds' /\ Lists'
      BY <1>1, <1>2, <1>4, <1>5, StopKeeps, ZenonT(60)
    <2>2. UNCHANGED joinQueue
      BY SMTT(30) DEF handleVerify
    <2> QED BY <1>1, <2>1, <2>2, Zenon DEF IInv, Types, Queues
  <1>6. CASE /\ ~Refused(end[e].node, m) /\ end' = [end EXCEPT ![e] = q]
             /\ Handled(e) /\ UNCHANGED net
    <2>1. /\ q \in End /\ q.phase = "up" /\ q.state = end[e].state /\ q.node = end[e].node
          /\ q.addr = end[e].addr /\ q.id = m /\ q.adding
      <3> HIDE DEF r
      <3> QED BY <1>4, ZenonT(60) DEF End
    <2> HIDE DEF r, q
    <2>2. ~(Passive(end[e].node) /\ Passive(m))
      BY <1>6, SMTT(30) DEF Refused
    <2>3. Sound(q)
      BY <1>2, <1>3, <2>1, <2>2 DEF Sound
    <2>4. end' \in [Ends -> End] /\ Owns' /\ Pairs' /\ Lists' /\ UpKept
      BY <1>1, <1>2, <1>6, <2>1, <2>3, OneEnd, OneOwns, OnePairs, OneLists, OneUpKept, ZenonT(60) DEF handleVerify
    <2>5. Nets' /\ inbound' \in [Ends -> Seq(Message)] /\ Inbounds'
      BY <1>1, <1>6, <2>4, NetsSame, InboundsHandled
    <2>6. UNCHANGED joinQueue
      BY DEF handleVerify
    <2> QED BY <1>1, <1>6, <2>4, <2>5, <2>6, Zenon DEF IInv, Types, Queues
  <1> QED BY <1>5, <1>6 DEF handleVerify, Identified

LEMMA VerifyAddKeeps == ASSUME IInv, NEW e \in Ends, VerifyAdd(e) PROVE IInv'
  <1> DEFINE n == end[e].node
             m == end[e].id
             r == [end[e] EXCEPT !.adding = FALSE, !.state = "connected",
                                 !.reconnect = Reconnects(e, m)]
             msg == VerifyOK
  <1>1. /\ end[e].adding /\ end' = [end EXCEPT ![e] = r] /\ net' = Sent(e, msg)
        /\ remoteNodes' = [remoteNodes EXCEPT ![n][m] = e]
        /\ UNCHANGED <<cluster, joinQueue, inbound>>
    BY DEF VerifyAdd, eventVerifyRemoteNode
  <1>2. Types /\ Owns /\ Pairs /\ Nets /\ Inbounds /\ Lists /\ Queues
    BY DEF IInv
  <1>3. /\ end[e] \in End /\ n \in Nodes /\ end[e].addr \in Nodes /\ end[e].addr # n
        /\ m = end[e].addr /\ end[e].phase \in {"up", "stopping"}
        /\ ~(Passive(n) /\ Passive(m))
    BY <1>1, <1>2, SMTT(30) DEF Types, Owns, Sound
  <1>4. Reconnects(e, m) \in BOOLEAN
    BY <1>3 DEF Reconnects, End
  <1>5. /\ r \in End /\ r.phase = end[e].phase /\ r.state = "connected" /\ r.node = n
        /\ r.addr = end[e].addr /\ r.id = m /\ ~r.adding
    BY <1>3, <1>4, ZenonT(60) DEF End
  <1>6. msg \in Message /\ msg.type = "VERIFYOK"
    BY DEF VerifyOK, Message
  <1> HIDE DEF r, msg
  <1>7. Sound(r)
    BY <1>3, <1>5 DEF Sound
  <1>8. /\ end' \in [Ends -> End] /\ end'[e] = r /\ \A f \in Ends : f # e => end'[f] = end[f]
    BY <1>1, <1>2, <1>5, OneEnd, Zenon
  <1>9. Owns' /\ Pairs' /\ UpKept
    BY <1>1, <1>2, <1>5, <1>7, OneOwns, OnePairs, OneUpKept, ZenonT(60)
  <1>10. end[e].phase = "up" /\ end[Other(e)].phase = "up" => Right(Other(e), msg)
    BY <1>6 DEF Right
  <1>11. net' \in [Ends -> Seq(Message)] /\ Nets' /\ Inbounds'
    BY <1>1, <1>2, <1>6, <1>9, <1>10, NetsSent, InboundsSame, SMTT(30)
  <1>12. /\ remoteNodes' \in [Nodes -> [Nodes -> Ends \union {None}]]
         /\ remoteNodes'[n][m] = e
         /\ \A n1, m1 \in Nodes : n1 # n \/ m1 # m => remoteNodes'[n1][m1] = remoteNodes[n1][m1]
    BY <1>1, <1>2, <1>3, Zenon DEF Types
  <1>13. Lists'
    <2> SUFFICES ASSUME NEW n1 \in Nodes, NEW m1 \in Nodes, NEW f \in Ends, remoteNodes'[n1][m1] = f
                 PROVE  /\ end'[f].node = n1 /\ end'[f].addr = m1 /\ end'[f].id = m1
                        /\ end'[f].phase \in {"up", "stopping"}
      BY SMTT(30) DEF Lists
    <2>1. CASE n1 = n /\ m1 = m
      BY <1>3, <1>5, <1>8, <1>12, <2>1, SMTT(30)
    <2>2. CASE n1 # n \/ m1 # m
      <3>1. remoteNodes[n1][m1] = f
        BY <1>12, <2>2, SMTT(30)
      <3>2. /\ end[f].node = n1 /\ end[f].addr = m1 /\ end[f].id = m1
            /\ end[f].phase \in {"up", "stopping"}
        BY <1>2, <3>1, SMTT(30) DEF Lists
      <3> QED BY <1>5, <1>8, <3>2
    <2> QED BY <2>1, <2>2
  <1>14. Types' /\ Queues'
    BY <1>1, <1>2, <1>8, <1>11, <1>12, SMTT(30) DEF Types, Queues
  <1> QED BY <1>9, <1>11, <1>13, <1>14 DEF IInv

LEMMA handleVerifyOKKeeps ==
    ASSUME IInv, NEW e \in Ends, inbound[e] # <<>>, handleVerifyOK(e),
           UNCHANGED <<cluster, remoteNodes>>
    PROVE  IInv'
  <1> DEFINE b == end[e].asking \/ end[e].sync
             r == [end[e] EXCEPT !.asking = b]
  <1>1. end' = [end EXCEPT ![e] = r] /\ Handled(e) /\ UNCHANGED <<net, joinQueue>>
    BY DEF handleVerifyOK
  <1>2. b \in BOOLEAN
    OBVIOUS
  <1> HIDE DEF b
  <1>3. /\ r \in End /\ r.phase = end[e].phase /\ r.node = end[e].node /\ r.addr = end[e].addr
        /\ r.id = end[e].id /\ r.state = end[e].state /\ r.adding = end[e].adding
    BY <1>2, EndTyped, SMTT(30) DEF End
  <1> HIDE DEF r
  <1>4. end' \in [Ends -> End] /\ Owns' /\ Pairs' /\ Lists' /\ UpKept
    BY <1>1, <1>3, FlagsKeep, Zenon
  <1>5. Nets' /\ inbound' \in [Ends -> Seq(Message)] /\ Inbounds'
    BY <1>1, <1>4, NetsSame, InboundsHandled DEF IInv
  <1> QED BY <1>1, <1>4, <1>5 DEF IInv, Types, Queues

\* The end that asks is not proposed to itself: the asker is known by its Id.
LEMMA handleSyncRequestKeeps ==
    ASSUME IInv, NEW e \in Ends, inbound[e] # <<>>, Head(inbound[e]).type = "SyncReq",
           handleSyncRequest(e), UNCHANGED <<cluster, remoteNodes>>
    PROVE  IInv'
  <1> DEFINE list == Proposed(end[e].node, end[e].id)
             msg == SyncRsp(list)
  <1>1. /\ net' = net \/ net' = Sent(e, msg)
        /\ Handled(e) /\ UNCHANGED <<end, joinQueue>>
    BY DEF handleSyncRequest
  <1>2. Types /\ Owns /\ Pairs /\ Nets /\ Inbounds /\ Lists /\ Queues
    BY DEF IInv
  <1>3. end[e].id = end[e].addr
    BY <1>2, FirstInbound
  <1>4. list \in SUBSET Nodes /\ end[e].addr \notin list
    BY <1>3 DEF Proposed, Listed
  <1> HIDE DEF list
  <1>5. msg \in Message /\ msg.type = "SyncRsp" /\ msg.list = list
    BY <1>4 DEF SyncRsp, Message
  <1> HIDE DEF msg
  <1>6. end[e].phase = "up" /\ end[Other(e)].phase = "up" => Right(Other(e), msg)
    BY <1>2, <1>4, <1>5 DEF Pairs, Links, Right
  <1>7. UpKept
    BY <1>1, SameUpKept
  <1>8. net' \in [Ends -> Seq(Message)] /\ Nets'
    <2>1. CASE net' = net
      BY <1>2, <1>7, <2>1, NetsSame, SMTT(30) DEF Types
    <2>2. CASE net' = Sent(e, msg)
      BY <1>2, <1>5, <1>6, <1>7, <2>2, NetsSent, SMTT(30)
    <2> QED BY <1>1, <2>1, <2>2
  <1>9. inbound' \in [Ends -> Seq(Message)] /\ Inbounds'
    BY <1>1, <1>2, <1>7, InboundsHandled, SMTT(30)
  <1>10. Owns' /\ Pairs' /\ Lists' /\ Queues'
    BY <1>1, <1>2, SameEnds DEF Queues
  <1>11. Types'
    BY <1>1, <1>2, <1>8, <1>9, SMTT(30) DEF Types
  <1> QED BY <1>8, <1>9, <1>10, <1>11, SMTT(30) DEF IInv

Peers(order) == [i \in DOMAIN order |-> [id |-> order[i], addr |-> order[i]]]

LEMMA ProposedPeers ==
    ASSUME NEW list \in SUBSET Nodes, NEW order \in Orders(list)
    PROVE  /\ Peers(order) \in Seq(Peer)
           /\ \A i \in 1 .. Len(Peers(order)) :
                Peers(order)[i].addr \in list /\ Peers(order)[i].id = Peers(order)[i].addr
  <1>1. Cardinality(list) \in Nat
    BY MembershipAssumption
  <1>2. order \in [1 .. Cardinality(list) -> list]
    BY DEF Orders
  <1>3. DOMAIN order = 1 .. Cardinality(list) /\ \A i \in DOMAIN order : order[i] \in list
    BY <1>2
  <1>4. /\ DOMAIN Peers(order) = 1 .. Cardinality(list)
        /\ \A i \in 1 .. Cardinality(list) : Peers(order)[i] = [id |-> order[i], addr |-> order[i]]
    BY <1>3 DEF Peers
  <1>5. \A i \in 1 .. Cardinality(list) : Peers(order)[i] \in Peer
    BY <1>3, <1>4 DEF Peer, Ids
  <1>6. Peers(order) \in [1 .. Cardinality(list) -> Peer]
    BY <1>3, <1>5 DEF Peers
  <1>7. Peers(order) \in Seq(Peer) /\ Len(Peers(order)) = Cardinality(list)
    BY <1>1, <1>6
  <1> QED BY <1>3, <1>4, <1>7

LEMMA handleSyncResponseKeeps ==
    ASSUME IInv, NEW e \in Ends, inbound[e] # <<>>, Head(inbound[e]).type = "SyncRsp",
           handleSyncResponse(e, Head(inbound[e]).list), UNCHANGED <<cluster, remoteNodes>>
    PROVE  IInv'
  <1> DEFINE list == Head(inbound[e]).list
             n == end[e].node
  <1>1. Types /\ Owns /\ Pairs /\ Nets /\ Inbounds /\ Lists /\ Queues
    BY SMTT(30) DEF IInv
  <1>2. list \in SUBSET Nodes /\ n \notin list /\ n \in Nodes
    <2>1. Head(inbound[e]) \in Message /\ Right(e, Head(inbound[e]))
      BY <1>1, FirstInbound
    <2>2. list \in SUBSET Nodes
      BY <2>1, SMTT(30) DEF Message
    <2> QED BY <1>1, <2>1, <2>2 DEF Right, Owns, Sound
  <1>3. PICK s \in Orders(list) : joinQueue' = [joinQueue EXCEPT ![n] = joinQueue[n] \o Peers(s)]
    BY ZenonT(60) DEF handleSyncResponse, Peers
  <1>4. Handled(e) /\ UNCHANGED <<end, net>>
    BY DEF handleSyncResponse
  <1> DEFINE order == Peers(s)
  <1> HIDE DEF list
  <1>5. /\ order \in Seq(Peer)
        /\ \A i \in 1 .. Len(order) : order[i].addr \in list /\ order[i].id = order[i].addr
    BY <1>2, ProposedPeers, Zenon
  <1>6. PICK q \in Seq(Peer) : joinQueue[n] = q
    BY <1>1, <1>2, SMTT(30) DEF Types
  <1>7. /\ q \o order \in Seq(Peer)
        /\ \A i \in 1 .. Len(q \o order) :
             \/ \E j \in 1 .. Len(q) : (q \o order)[i] = q[j]
             \/ \E j \in 1 .. Len(order) : (q \o order)[i] = order[j]
    BY <1>5, ConcatElements, SMTT(30)
  <1>8. /\ joinQueue' \in [Nodes -> Seq(Peer)] /\ joinQueue'[n] = q \o order
        /\ \A m \in Nodes : m # n => joinQueue'[m] = joinQueue[m]
    BY <1>1, <1>2, <1>3, <1>6, <1>7, SMTT(30) DEF Types, order
  <1>9. Queues'
    <2> SUFFICES ASSUME NEW m \in Nodes, NEW i \in 1 .. Len(joinQueue'[m])
                 PROVE  joinQueue'[m][i].addr # m /\ joinQueue'[m][i].id \in {NoId, joinQueue'[m][i].addr}
      BY SMTT(30) DEF Queues
    <2>1. CASE m # n
      BY <1>1, <1>8, <2>1, SMTT(30) DEF Queues
    <2>2. CASE m = n
      <3>1. \/ \E j \in 1 .. Len(q) : joinQueue'[m][i] = q[j]
            \/ \E j \in 1 .. Len(order) : joinQueue'[m][i] = order[j]
        BY <1>7, <1>8, <2>2, ZenonT(60)
      <3>2. CASE \E j \in 1 .. Len(q) : joinQueue'[m][i] = q[j]
        BY <1>1, <1>2, <1>6, <2>2, <3>2 DEF Queues
      <3>3. CASE \E j \in 1 .. Len(order) : joinQueue'[m][i] = order[j]
        BY <1>2, <1>5, <2>2, <3>3, SMTT(30)
      <3> QED BY <3>1, <3>2, <3>3, ZenonT(60)
    <2> QED BY <2>1, <2>2, SMTT(30)
  <1>10. Nets' /\ inbound' \in [Ends -> Seq(Message)] /\ Inbounds'
    BY <1>1, <1>4, SameUpKept, NetsSame, InboundsHandled, SMTT(30)
  <1>11. Owns' /\ Pairs' /\ Lists'
    BY <1>1, <1>4, SameEnds, SMTT(30)
  <1>12. Types'
    BY <1>1, <1>4, <1>8, <1>10, Zenon DEF Types
  <1> QED BY <1>9, <1>10, <1>11, <1>12 DEF IInv

LEMMA handleMessageKeeps == ASSUME IInv, NEW e \in Ends, handleMessage(e) PROVE IInv'
  <1> DEFINE msg == Head(inbound[e])
  <1>1. /\ end[e].phase = "up" /\ ~end[e].adding /\ inbound[e] # <<>>
        /\ UNCHANGED <<cluster, remoteNodes>>
    BY SMTT(30) DEF handleMessage
  <1>2. \/ msg.type = "VERIFY" /\ handleVerify(e, msg.id)
        \/ msg.type = "VERIFYOK" /\ handleVerifyOK(e)
        \/ msg.type = "SyncReq" /\ handleSyncRequest(e)
        \/ msg.type = "SyncRsp" /\ handleSyncResponse(e, msg.list)
    BY Zenon DEF handleMessage
  <1> QED BY <1>1, <1>2, handleVerifyKeeps, handleVerifyOKKeeps, handleSyncRequestKeeps,
             handleSyncResponseKeeps, SMTT(30)

LEMMA InterruptKeeps == ASSUME IInv, NEW e \in Ends, Interrupt(e) PROVE IInv'
  <1>1. end[e].phase = "up" /\ Stop(e, end[e]) /\ UNCHANGED <<cluster, remoteNodes, joinQueue>>
    BY SMTT(30) DEF Interrupt, nodeVars
  <1>2. /\ end' \in [Ends -> End] /\ net' \in [Ends -> Seq(Message)]
        /\ inbound' \in [Ends -> Seq(Message)]
        /\ Owns' /\ Pairs' /\ Nets' /\ Inbounds' /\ Lists'
    BY <1>1, EndTyped, StopKeeps, ZenonT(60) DEF IInv
  <1> QED BY <1>1, <1>2, Zenon DEF IInv, Types, Queues

\* The list is cleared under the only Id the end can be listed under.
LEMMA tearDownKeeps == ASSUME IInv, NEW e \in Ends, tearDown(e) PROVE IInv'
  <1> DEFINE n == end[e].node
             id == end[e].id
             r == [Unused EXCEPT !.phase = "down", !.node = n, !.addr = end[e].addr,
                                 !.adding = end[e].adding,
                                 !.id = IF end[e].adding THEN id ELSE NoId]
             peer == [id |-> id, addr |-> end[e].addr]
  <1>1. /\ end[e].phase = "stopping" /\ ~end[e].adding /\ end' = [end EXCEPT ![e] = r]
        /\ remoteNodes' = IF id = NoId THEN remoteNodes ELSE [remoteNodes EXCEPT ![n][id] = None]
        /\ \/ joinQueue' = joinQueue
           \/ joinQueue' = [joinQueue EXCEPT ![n] = Append(joinQueue[n], peer)]
        /\ UNCHANGED <<cluster, net, inbound>>
    BY Zenon DEF tearDown, HandlerDone
  <1>2. Types /\ Owns /\ Pairs /\ Nets /\ Inbounds /\ Lists /\ Queues
    BY DEF IInv
  <1>3. /\ end[e] \in End /\ n \in Nodes /\ end[e].addr \in Nodes /\ end[e].addr # n
        /\ id \in {NoId, end[e].addr}
    BY <1>1, <1>2, Zenon DEF Types, Owns, Sound
  <1>4. /\ r \in End /\ r.phase = "down" /\ r.node = n /\ r.addr = end[e].addr
        /\ r.id = NoId /\ r.state = "disconnected" /\ r.adding = end[e].adding
    BY <1>1, <1>3, UnusedEnd, ZenonT(60) DEF End, Ids
  <1>5. peer \in Peer /\ peer.addr = end[e].addr /\ peer.id = id
    BY <1>3 DEF Peer, Ids
  <1> HIDE DEF r, peer
  <1>6. Sound(r)
    BY <1>1, <1>3, <1>4, Zenon DEF Sound
  <1>7. end' \in [Ends -> End] /\ end'[e] = r /\ \A f \in Ends : f # e => end'[f] = end[f]
    BY <1>1, <1>2, <1>4, OneEnd, Zenon
  <1>8. Owns' /\ Pairs' /\ UpKept
    BY <1>1, <1>2, <1>4, <1>6, OneOwns, OnePairs, OneUpKept, ZenonT(60)
  <1>9. Nets' /\ Inbounds'
    BY <1>1, <1>2, <1>8, NetsSame, InboundsSame, ZenonT(60)
  <1>10. /\ remoteNodes' \in [Nodes -> [Nodes -> Ends \union {None}]]
         /\ \A n1, m1 \in Nodes : \/ remoteNodes'[n1][m1] = remoteNodes[n1][m1] /\ (n1 # n \/ m1 # id)
                                  \/ remoteNodes'[n1][m1] = None
    <2>1. remoteNodes \in [Nodes -> [Nodes -> Ends \union {None}]]
      BY <1>2, SMTT(30) DEF Types
    <2>2. CASE id = NoId
      BY ONLY <1>1, <1>3, <2>1, <2>2, MembershipAssumption, Zenon
    <2>3. CASE id # NoId
      BY ONLY <1>1, <1>3, <2>1, <2>3, MembershipAssumption, Zenon
    <2> QED BY <2>2, <2>3, Zenon
  <1>11. Lists'
    <2> SUFFICES ASSUME NEW n1 \in Nodes, NEW m1 \in Nodes, NEW f \in Ends, remoteNodes'[n1][m1] = f
                 PROVE  /\ end'[f].node = n1 /\ end'[f].addr = m1 /\ end'[f].id = m1
                        /\ end'[f].phase \in {"up", "stopping"}
      BY DEF Lists
    <2>1. f # None
      BY MembershipAssumption
    <2>2. remoteNodes[n1][m1] = f /\ (n1 # n \/ m1 # id)
      BY <1>10, <2>1
    <2>3. /\ end[f].node = n1 /\ end[f].addr = m1 /\ end[f].id = m1
          /\ end[f].phase \in {"up", "stopping"}
      BY <1>2, <2>2 DEF Lists
    <2>4. f # e
      BY <2>2, <2>3
    <2> QED BY <1>7, <2>3, <2>4
  <1>12. joinQueue[n] \in Seq(Peer)
    BY <1>2, <1>3, SMTT(30) DEF Types
  <1>13. /\ Append(joinQueue[n], peer) \in Seq(Peer)
         /\ \A i \in 1 .. Len(Append(joinQueue[n], peer)) :
              \/ Append(joinQueue[n], peer)[i] = peer
              \/ \E j \in 1 .. Len(joinQueue[n]) : Append(joinQueue[n], peer)[i] = joinQueue[n][j]
    BY <1>5, <1>12, AppendElements, SMTT(30)
  <1>14. joinQueue' \in [Nodes -> Seq(Peer)]
    BY <1>1, <1>2, <1>13, ZenonT(60) DEF Types
  <1>15. Queues'
    <2>1. CASE joinQueue' = joinQueue
      BY <1>2, <2>1 DEF Queues
    <2>2. CASE joinQueue' = [joinQueue EXCEPT ![n] = Append(joinQueue[n], peer)]
      <3>1. /\ joinQueue'[n] = Append(joinQueue[n], peer)
            /\ \A m \in Nodes : m # n => joinQueue'[m] = joinQueue[m]
        BY <1>2, <1>3, <2>2, Zenon DEF Types
      <3> SUFFICES ASSUME NEW m \in Nodes, NEW i \in 1 .. Len(joinQueue'[m])
                   PROVE  joinQueue'[m][i].addr # m /\ joinQueue'[m][i].id \in {NoId, joinQueue'[m][i].addr}
        BY Zenon DEF Queues
      <3>2. CASE m # n
        BY <1>2, <3>1, <3>2, Zenon DEF Queues
      <3>3. CASE m = n
        <4>1. \/ joinQueue'[m][i] = peer
              \/ \E j \in 1 .. Len(joinQueue[n]) : joinQueue'[m][i] = joinQueue[n][j]
          BY <1>13, <3>1, <3>3, ZenonT(60)
        <4>2. CASE joinQueue'[m][i] = peer
          BY <1>3, <1>5, <3>3, <4>2, SMTT(30)
        <4>3. CASE \E j \in 1 .. Len(joinQueue[n]) : joinQueue'[m][i] = joinQueue[n][j]
          BY <1>2, <1>3, <3>3, <4>3 DEF Queues
        <4> QED BY <4>1, <4>2, <4>3, Zenon
      <3> QED BY <3>2, <3>3, SMTT(30)
    <2> QED BY <1>1, <2>1, <2>2, Zenon
  <1>16. Types'
    BY <1>1, <1>2, <1>7, <1>10, <1>14, ZenonT(60) DEF Types
  <1> QED BY <1>8, <1>9, <1>11, <1>15, <1>16, SMTT(30) DEF IInv

-----------------------------------------------------------------------------
(* The invariant and what follows from it *)

LEMMA InitHolds == Init => IInv
  <1> SUFFICES ASSUME Init PROVE IInv
    OBVIOUS
  <1>1. Types
    BY UnusedEnd, SMTT(30) DEF Init, Types
  <1>2. \A e \in Ends : end[e].phase = "unused" /\ end[e].state = "disconnected" /\ ~end[e].adding
    BY SMTT(30) DEF Init, Unused
  <1>3. Owns /\ Pairs
    BY <1>2, SMTT(30) DEF Owns, Sound, Pairs, Links
  <1>4. Nets /\ Inbounds /\ Queues
    BY SMTT(30) DEF Init, Nets, Inbounds, Queues
  <1>5. Lists
    BY MembershipAssumption DEF Init, Lists
  <1> QED BY <1>1, <1>3, <1>4, <1>5 DEF IInv

LEMMA NextKeeps == IInv /\ [Next]_vars => IInv'
  <1> SUFFICES ASSUME IInv, [Next]_vars PROVE IInv'
    OBVIOUS
  <1>1. ASSUME NEW n \in Nodes, NodeStep(n) PROVE IInv'
    <2>1. CASE Start(n)
      BY <2>1, StartKeeps
    <2>2. CASE Started(n)
      BY <2>2, Same, SMTT(30) DEF Started
    <2>3. CASE JoinQueueTake(n)
      BY <2>3, JoinQueueTakeKeeps
    <2>4. CASE PendingStore(n)
      BY <2>4, Same DEF PendingStore
    <2> QED BY <1>1, <2>1, <2>2, <2>3, <2>4 DEF NodeStep
  <1>2. ASSUME NEW c \in Conns, Connect(c) \/ GiveUp(c) \/ Lose(c) PROVE IInv'
    <2>1. CASE Connect(c)
      BY <2>1, ConnectKeeps
    <2>2. CASE GiveUp(c)
      BY <2>2, GiveUpKeeps, SMTT(30)
    <2>3. CASE Lose(c)
      BY <2>3, Same DEF Lose, nodeVars
    <2> QED BY <1>2, <2>1, <2>2, <2>3
  <1>3. ASSUME NEW e \in Ends, EndStep(e) \/ SyncGiveUp(e) PROVE IInv'
    <2>1. CASE sendVerify(e)
      BY <2>1, sendVerifyKeeps
    <2>2. CASE Receive(e)
      BY <2>2, ReceiveKeeps
    <2>3. CASE handleMessage(e)
      BY <2>3, handleMessageKeeps
    <2>4. CASE VerifyAdd(e)
      BY <2>4, VerifyAddKeeps
    <2>5. CASE SyncSend(e) \/ SyncGiveUp(e)
      BY <2>5, SyncKeeps, SMTT(30)
    <2>6. CASE Interrupt(e)
      BY <2>6, InterruptKeeps
    <2>7. CASE tearDown(e)
      BY <2>7, tearDownKeeps
    <2> QED BY <1>3, <2>1, <2>2, <2>3, <2>4, <2>5, <2>6, <2>7, SMTT(30) DEF EndStep
  <1>4. CASE UNCHANGED vars
    BY <1>4, Same DEF vars, nodeVars
  <1> QED BY <1>1, <1>2, <1>3, <1>4 DEF Next, System

LEMMA Invariance == Spec => []IInv
  BY InitHolds, NextKeeps, PTL DEF Spec

(* An end is listed only by its own node, under the Id of the node at the   *)
(* other end, and never once tearDown is over, for any number of nodes,     *)
(* connections, losses and repeated connections between the same two nodes. *)
THEOREM ListsOnlyLiveEnds == Spec => []ListedIsLive
  <1>1. IInv => ListedIsLive
    BY OtherEnd, SMTT(30) DEF IInv, Lists, Pairs, Links, ListedIsLive
  <1> QED BY <1>1, Invariance, PTL

(* handleVerify keeps passive nodes apart in every interleaving of the two  *)
(* VERIFYs of a connection, however many clients there are.                 *)
THEOREM PassivesStayApart == Spec => []PassiveApart
  <1>1. IInv => PassiveApart
    BY Zenon DEF IInv, Owns, Sound, Pairs, Links, PassiveApart
  <1> QED BY <1>1, Invariance, PTL

(* What a node is told of the members, and what it reconnects to, never     *)
(* leads it to dial itself, if it is not configured to join itself.         *)
THEOREM NobodyDialsItself == Spec => []NoSelfDial
  <1>1. IInv => NoSelfDial
    BY DEF IInv, Owns, Sound, NoSelfDial
  <1> QED BY <1>1, Invariance, PTL

-----------------------------------------------------------------------------
(* The filter of the handshake *)

\* The end has handled the VERIFY of the other end, unless it is stopped.
Established(e) == end[e].phase = "up" => end[e].state = "connected"

\* Who sends VERIFYOK has handled the VERIFY; who asks for the members has been
\* told so by the other end as well, and who answers has been asked.
Agreed(e, msg) ==
    /\ msg.type = "VERIFYOK" => Established(Other(e))
    /\ msg.type = "SyncReq" => Established(e) /\ Established(Other(e))
    /\ msg.type = "SyncRsp" => Established(e)

SyncInv ==
    /\ \A e \in Ends : end[e].asking => end[e].phase = "up" /\ Established(Other(e))
    /\ \A e \in Ends : \A i \in 1 .. Len(net[e]) : Agreed(e, net[e][i])
    /\ \A e \in Ends : \A i \in 1 .. Len(inbound[e]) : Agreed(e, inbound[e][i])

\* What a step does to the ends, and where the messages after it come from.
EndsFrom ==
    \A f \in Ends :
        /\ Established(f) => Established(f)'
        /\ end'[f].asking => end'[f].phase = "up" /\ (end[f].asking \/ Established(Other(f)))

NetFrom ==
    \A f \in Ends : \A i \in 1 .. Len(net'[f]) :
        \/ Agreed(f, net[f][i])'
        \/ \E j \in 1 .. Len(net[f]) : net'[f][i] = net[f][j]

InboundFrom ==
    \A f \in Ends : \A i \in 1 .. Len(inbound'[f]) :
        \/ \E j \in 1 .. Len(inbound[f]) : inbound'[f][i] = inbound[f][j]
        \/ \E j \in 1 .. Len(net[f]) : inbound'[f][i] = net[f][j]

LEMMA AgreedKept ==
    ASSUME EndsFrom, NEW e \in Ends, NEW msg, Agreed(e, msg)
    PROVE  Agreed(e, msg)'
  <1>1. Other(e) \in Ends
    BY OtherEnd
  <1>2. /\ Established(e) => Established(e)'
        /\ Established(Other(e)) => Established(Other(e))'
    BY <1>1 DEF EndsFrom
  <1> QED BY <1>2 DEF Agreed

LEMMA SyncKept == ASSUME SyncInv, EndsFrom, NetFrom, InboundFrom PROVE SyncInv'
  <1>1. ASSUME NEW e \in Ends, end'[e].asking
        PROVE  end'[e].phase = "up" /\ Established(Other(e))'
    <2>1. Other(e) \in Ends
      BY OtherEnd
    <2>2. end'[e].phase = "up" /\ Established(Other(e))
      BY <1>1, Zenon DEF EndsFrom, SyncInv
    <2> QED BY <2>1, <2>2, Zenon DEF EndsFrom
  <1>2. ASSUME NEW e \in Ends, NEW i \in 1 .. Len(net'[e])
        PROVE  Agreed(e, net[e][i])'
    <2>1. CASE \E j \in 1 .. Len(net[e]) : net'[e][i] = net[e][j]
      <3>1. PICK j \in 1 .. Len(net[e]) : net'[e][i] = net[e][j]
        BY <2>1
      <3>2. Agreed(e, net[e][j])
        BY DEF SyncInv
      <3>3. Agreed(e, net'[e][i])
        BY <3>1, <3>2, SMTT(30)
      <3> QED BY <3>3, AgreedKept DEF Agreed
    <2> QED BY <2>1, Zenon DEF NetFrom
  <1>3. ASSUME NEW e \in Ends, NEW i \in 1 .. Len(inbound'[e])
        PROVE  Agreed(e, inbound[e][i])'
    <2>1. Agreed(e, inbound'[e][i])
      BY ZenonT(60) DEF InboundFrom, SyncInv
    <2> QED BY <2>1, AgreedKept, Zenon DEF Agreed
  <1> QED BY <1>1, <1>2, <1>3, Zenon DEF SyncInv

LEMMA EndsSame == ASSUME SyncInv, UNCHANGED end PROVE EndsFrom
  <1>1. \A f \in Ends : Established(f) => Established(f)'
    BY DEF Established
  <1>2. \A f \in Ends : end'[f].asking => end'[f].phase = "up"
    BY DEF SyncInv
  <1> QED BY <1>1, <1>2 DEF EndsFrom

LEMMA OneFrom ==
    ASSUME Types, SyncInv, NEW e \in Ends, NEW r \in End, end' = [end EXCEPT ![e] = r],
           r.phase = "up" => r.state = "connected" \/ (end[e].phase = "up" /\ r.state = end[e].state),
           r.asking => r.phase = "up" /\ (end[e].asking \/ Established(Other(e)))
    PROVE  EndsFrom
  <1>1. end'[e] = r /\ \A f \in Ends : f # e => end'[f] = end[f]
    BY OneEnd, Zenon
  <1> SUFFICES ASSUME NEW f \in Ends
               PROVE  /\ Established(f) => Established(f)'
                      /\ end'[f].asking => /\ end'[f].phase = "up"
                                           /\ end[f].asking \/ Established(Other(f))
    BY Zenon DEF EndsFrom
  <1>2. CASE f = e
    BY <1>1, <1>2, SMTT(30) DEF Established
  <1>3. CASE f # e
    <2>1. end'[f] = end[f]
      BY <1>1, <1>3
    <2> QED BY <2>1, Zenon DEF Established, SyncInv
  <1> QED BY <1>2, <1>3

LEMMA NetSame == ASSUME UNCHANGED net PROVE NetFrom
  BY DEF NetFrom

LEMMA InboundSame == ASSUME UNCHANGED inbound PROVE InboundFrom
  BY SMTT(30) DEF InboundFrom

LEMMA NetSent ==
    ASSUME Types, NEW e \in Ends, NEW msg \in Message, net' = Sent(e, msg),
           end[e].phase = "up" /\ end[Other(e)].phase = "up" => Agreed(Other(e), msg)'
    PROVE  NetFrom
  <1>0. Other(e) \in Ends
    BY OtherEnd
  <1>1. CASE net' = net
    BY <1>1, NetSame, SMTT(30)
  <1>2. CASE /\ net' = [net EXCEPT ![Other(e)] = Append(net[Other(e)], msg)]
             /\ Agreed(Other(e), msg)'
    <2>1. net[Other(e)] \in Seq(Message)
      BY <1>0, SMTT(30) DEF Types
    <2>2. \A i \in 1 .. Len(Append(net[Other(e)], msg)) :
             \/ Append(net[Other(e)], msg)[i] = msg
             \/ \E j \in 1 .. Len(net[Other(e)]) : Append(net[Other(e)], msg)[i] = net[Other(e)][j]
      BY <2>1, AppendElements
    <2> SUFFICES ASSUME NEW f \in Ends, NEW i \in 1 .. Len(net'[f])
                 PROVE  \/ Agreed(f, net[f][i])'
                        \/ \E j \in 1 .. Len(net[f]) : net'[f][i] = net[f][j]
      BY ZenonT(60) DEF NetFrom
    <2>3. CASE f = Other(e)
      <3>1. net'[f] = Append(net[f], msg)
        BY <1>0, <1>2, <2>3, SMTT(30) DEF Types
      <3>2. CASE net'[f][i] = msg
        BY <1>2, <2>3, <3>2, Zenon DEF Agreed
      <3> QED BY <2>2, <2>3, <3>1, <3>2, Zenon
    <2>4. CASE f # Other(e)
      <3>1. net'[f] = net[f]
        BY <1>2, <2>4, SMTT(30) DEF Types
      <3> QED BY <3>1
    <2> QED BY <2>3, <2>4
  <1> QED BY <1>1, <1>2 DEF Sent

LEMMA InboundHandled ==
    ASSUME Types, NEW e \in Ends, inbound[e] # <<>>, Handled(e)
    PROVE  InboundFrom
  <1>1. inbound[e] \in Seq(Message) /\ inbound' = [inbound EXCEPT ![e] = Tail(inbound[e])]
    BY DEF Types, Handled
  <1>2. \A i \in 1 .. Len(Tail(inbound[e])) :
             \E j \in 1 .. Len(inbound[e]) : Tail(inbound[e])[i] = inbound[e][j]
    BY <1>1, TailElements
  <1>3. inbound'[e] = Tail(inbound[e]) /\ \A f \in Ends : f # e => inbound'[f] = inbound[f]
    BY <1>1 DEF Types
  <1> SUFFICES ASSUME NEW f \in Ends, NEW i \in 1 .. Len(inbound'[f])
               PROVE  \E j \in 1 .. Len(inbound[f]) : inbound'[f][i] = inbound[f][j]
    BY Zenon DEF InboundFrom
  <1>4. CASE f = e
    BY <1>2, <1>3, <1>4, Zenon
  <1>5. CASE f # e
    BY <1>3, <1>5
  <1> QED BY <1>4, <1>5

\* Nothing is left for an end that stops.
LEMMA StopFrom ==
    ASSUME IInv, SyncInv, NEW e \in Ends, NEW r \in End, Stop(e, r)
    PROVE  SyncInv'
  <1> DEFINE q == [r EXCEPT !.phase = "stopping", !.state = "disconnected", !.asking = FALSE]
  <1>1. q \in End /\ q.phase = "stopping" /\ ~q.asking /\ end' = [end EXCEPT ![e] = q]
    BY Zenon DEF End, Stop
  <1> HIDE DEF q
  <1>2. EndsFrom
    BY <1>1, OneFrom, ZenonT(60) DEF IInv
  <1>3. /\ net'[e] = <<>> /\ inbound'[e] = <<>>
        /\ \A f \in Ends : f # e => net'[f] = net[f] /\ inbound'[f] = inbound[f]
    BY DEF Stop, IInv, Types
  <1>4. NetFrom
    BY <1>3 DEF NetFrom
  <1>5. InboundFrom
    BY <1>3 DEF InboundFrom
  <1> QED BY <1>2, <1>4, <1>5, SyncKept

LEMMA FirstAgreed ==
    ASSUME Types, SyncInv, NEW e \in Ends, inbound[e] # <<>>
    PROVE  Agreed(e, Head(inbound[e]))
  <1>1. 1 \in 1 .. Len(inbound[e]) /\ Head(inbound[e]) = inbound[e][1]
    BY TailElements DEF Types
  <1> QED BY <1>1 DEF SyncInv

LEMMA DialSync ==
    ASSUME IInv, SyncInv, NEW c \in Conns, NEW n \in Nodes, NEW addr \in Nodes, NEW id \in Ids,
           NEW sync \in BOOLEAN, Dial(c, n, addr, id, sync), UNCHANGED <<net, inbound>>
    PROVE  SyncInv'
  <1> DEFINE e == <<c, "out">>
             r == [Unused EXCEPT !.phase = "dialling", !.node = n, !.addr = addr, !.id = id,
                                 !.state = "connecting", !.sync = sync,
                                 !.reconnect = n \in cluster.reconnect]
  <1>1. e \in Ends /\ end' = [end EXCEPT ![e] = r]
    BY DEF Dial, Ends
  <1>2. (n \in cluster.reconnect) \in BOOLEAN
    OBVIOUS
  <1> HIDE DEF e
  <1>3. r \in End /\ r.phase = "dialling" /\ ~r.asking
    BY <1>2, ZenonT(60) DEF End, Unused, Ids
  <1> HIDE DEF r
  <1>4. EndsFrom
    BY <1>1, <1>3, OneFrom, Zenon DEF IInv
  <1> QED BY <1>4, NetSame, InboundSame, SyncKept

LEMMA StartSync == ASSUME IInv, SyncInv, NEW n \in Nodes, Start(n) PROVE SyncInv'
  <1>1. UNCHANGED <<net, inbound>>
    BY DEF Start
  <1>2. CASE UNCHANGED end
    BY <1>1, <1>2, EndsSame, NetSame, InboundSame, SyncKept
  <1>3. ASSUME NEW c \in Conns, Dial(c, n, cluster.join[n], NoId, TRUE), cluster.join[n] # None
        PROVE  SyncInv'
    <2>1. cluster.join[n] \in Nodes /\ NoId \in Ids
      BY <1>3, MembershipAssumption, Zenon DEF IInv, Types, Ids
    <2> QED BY <1>1, <1>3, <2>1, DialSync, ZenonT(60)
  <1> QED BY <1>2, <1>3, Zenon DEF Start

LEMMA JoinQueueTakeSync == ASSUME IInv, SyncInv, NEW n \in Nodes, JoinQueueTake(n) PROVE SyncInv'
  <1> DEFINE p == Head(joinQueue[n])
  <1>1. UNCHANGED <<net, inbound>> /\ joinQueue[n] # <<>>
    BY Zenon DEF JoinQueueTake
  <1>2. CASE UNCHANGED end
    BY <1>1, <1>2, EndsSame, NetSame, InboundSame, SyncKept
  <1>3. p.addr \in Nodes /\ p.id \in Ids
    <2>1. joinQueue[n] \in Seq(Peer)
      BY DEF IInv, Types
    <2>2. p \in Peer
      BY <1>1, <2>1
    <2> QED BY <2>2 DEF Peer
  <1>4. ASSUME NEW c \in Conns, Dial(c, n, p.addr, p.id, FALSE) PROVE SyncInv'
    BY <1>1, <1>3, <1>4, DialSync, ZenonT(60)
  <1> QED BY <1>2, <1>4, ZenonT(60) DEF JoinQueueTake

\* A connection that is made has carried no message.
LEMMA ConnectSync == ASSUME IInv, SyncInv, NEW c \in Conns, Connect(c) PROVE SyncInv'
  <1> DEFINE out == <<c, "out">>
             in == <<c, "in">>
             q == [end[out] EXCEPT !.phase = "up", !.state = "handshake"]
             r == [Unused EXCEPT !.phase = "up", !.state = "handshake",
                                 !.node = end[out].addr, !.addr = end[out].node]
  <1>1. /\ out \in Ends /\ in \in Ends /\ out # in /\ Other(out) = in /\ Other(in) = out
        /\ \A f \in Ends : f # out /\ f # in => Other(f) # out /\ Other(f) # in
    BY DEF Ends, Other
  <1>2. /\ end[out].phase = "dialling" /\ end' = [end EXCEPT ![out] = q, ![in] = r]
        /\ UNCHANGED <<net, inbound>>
    BY DEF Connect
  <1> HIDE DEF out, in
  <1>3. q.asking = end[out].asking /\ ~r.asking
    <2>1. end[out] \in End
      BY <1>1 DEF IInv, Types
    <2> QED BY <2>1, Zenon DEF End, Unused
  <1> HIDE DEF q, r
  <1>4. /\ end'[out] = q /\ end'[in] = r
        /\ \A f \in Ends : f # out /\ f # in => end'[f] = end[f]
    BY <1>1, <1>2, SMTT(30) DEF IInv, Types
  <1>5. end[in].phase # "up"
    BY <1>1, <1>2, SMTT(30) DEF IInv, Pairs, Links
  <1>6. ~q.asking
    BY <1>1, <1>2, <1>3, Zenon DEF SyncInv
  <1>7. ASSUME NEW f \in Ends, end[f].phase = "up"
        PROVE  /\ end'[f] = end[f] /\ end'[Other(f)] = end[Other(f)]
               /\ Established(f)' = Established(f) /\ Established(Other(f))' = Established(Other(f))
    <2>1. f # out /\ f # in /\ Other(f) \in Ends
      BY <1>2, <1>5, <1>7, OtherEnd, SMTT(30)
    <2>2. end'[f] = end[f] /\ end'[Other(f)] = end[Other(f)]
      BY <1>1, <1>4, <2>1, SMTT(30)
    <2> QED BY <2>2 DEF Established
  <1>8. ASSUME NEW e \in Ends, end'[e].asking
        PROVE  end'[e].phase = "up" /\ Established(Other(e))'
    <2>1. end'[e] = end[e]
      BY <1>3, <1>4, <1>6, <1>8, SMTT(30)
    <2>2. end[e].phase = "up" /\ Established(Other(e))
      BY <1>8, <2>1, SMTT(30) DEF SyncInv
    <2> QED BY <1>7, <2>1, <2>2, SMTT(30)
  <1>9. ASSUME NEW e \in Ends, NEW msg, end[e].phase = "up", Agreed(e, msg)
        PROVE  Agreed(e, msg)'
    BY <1>7, <1>9, SMTT(30) DEF Agreed
  <1>10. ASSUME NEW e \in Ends, NEW i \in 1 .. Len(net'[e])
         PROVE  Agreed(e, net[e][i])'
    <2>1. Agreed(e, net[e][i]) /\ end[e].phase = "up" /\ net'[e][i] = net[e][i]
      BY <1>2, Zenon DEF SyncInv, IInv, Nets, Right
    <2> QED BY <1>9, <2>1, Zenon DEF Agreed
  <1>11. ASSUME NEW e \in Ends, NEW i \in 1 .. Len(inbound'[e])
         PROVE  Agreed(e, inbound[e][i])'
    <2>1. Agreed(e, inbound[e][i]) /\ end[e].phase = "up" /\ inbound'[e][i] = inbound[e][i]
      BY <1>2, Zenon DEF SyncInv, IInv, Inbounds, Right
    <2> QED BY <1>9, <2>1 DEF Agreed
  <1> QED BY <1>8, <1>10, <1>11, Zenon DEF SyncInv

LEMMA QuietSync ==
    ASSUME IInv, SyncInv, NEW e \in Ends, NEW r \in End, end' = [end EXCEPT ![e] = r],
           r.phase # "up", ~r.asking, UNCHANGED <<net, inbound>>
    PROVE  SyncInv'
  <1>1. EndsFrom
    BY OneFrom, ZenonT(60) DEF IInv
  <1> QED BY <1>1, NetSame, InboundSame, SyncKept

LEMMA GiveUpSync == ASSUME IInv, SyncInv, NEW c \in Conns, GiveUp(c) PROVE SyncInv'
  <1> DEFINE out == <<c, "out">>
             r == [Unused EXCEPT !.phase = "down", !.node = end[out].node, !.addr = end[out].addr]
  <1>1. out \in Ends /\ end' = [end EXCEPT ![out] = r] /\ UNCHANGED <<net, inbound>>
    BY ZenonT(60) DEF GiveUp, Ends
  <1> HIDE DEF out
  <1>2. end[out] \in End
    BY <1>1, EndTyped
  <1>3. r \in End /\ r.phase = "down" /\ ~r.asking
    BY <1>2, ZenonT(60) DEF End, Unused, Ids
  <1> HIDE DEF r
  <1> QED BY <1>1, <1>3, QuietSync, Zenon

LEMMA tearDownSync == ASSUME IInv, SyncInv, NEW e \in Ends, tearDown(e) PROVE SyncInv'
  <1> DEFINE i == IF end[e].adding THEN end[e].id ELSE NoId
             r == [Unused EXCEPT !.phase = "down", !.node = end[e].node, !.addr = end[e].addr,
                                 !.adding = end[e].adding, !.id = i]
  <1>1. end' = [end EXCEPT ![e] = r] /\ UNCHANGED <<net, inbound>>
    BY DEF tearDown
  <1>2. end[e] \in End /\ i \in Ids
    BY EndTyped DEF End, Ids
  <1> HIDE DEF i
  <1>3. r \in End /\ r.phase = "down" /\ ~r.asking
    BY <1>2, ZenonT(60) DEF End, Unused
  <1> HIDE DEF r
  <1> QED BY <1>1, <1>3, QuietSync, Zenon

LEMMA ReceiveSync == ASSUME IInv, SyncInv, NEW e \in Ends, Receive(e) PROVE SyncInv'
  <1> DEFINE msg == Head(net[e])
  <1>1. /\ net[e] # <<>> /\ net' = [net EXCEPT ![e] = Tail(net[e])] /\ UNCHANGED end
        /\ inbound' = inbound \/ inbound' = [inbound EXCEPT ![e] = Append(inbound[e], msg)]
    BY DEF Receive
  <1>2. net[e] \in Seq(Message) /\ inbound[e] \in Seq(Message)
    BY DEF IInv, Types
  <1>3. /\ msg \in Message /\ 1 \in 1 .. Len(net[e]) /\ msg = net[e][1]
        /\ \A i \in 1 .. Len(Tail(net[e])) : \E j \in 1 .. Len(net[e]) : Tail(net[e])[i] = net[e][j]
    BY <1>1, <1>2, TailElements, SMTT(30)
  <1> HIDE DEF msg
  <1>4. NetFrom
    <2> SUFFICES ASSUME NEW f \in Ends, NEW i \in 1 .. Len(net'[f])
                 PROVE  \E j \in 1 .. Len(net[f]) : net'[f][i] = net[f][j]
      BY Zenon DEF NetFrom
    <2>1. net'[e] = Tail(net[e]) /\ (f # e => net'[f] = net[f])
      BY <1>1 DEF IInv, Types
    <2>2. CASE f = e
      BY <1>3, <2>1, <2>2, ZenonT(60)
    <2>3. CASE f # e
      BY <2>1, <2>3
    <2> QED BY <2>2, <2>3
  <1>5. CASE inbound' = inbound
    BY <1>1, <1>4, <1>5, EndsSame, InboundSame, SyncKept, SMTT(30)
  <1>6. CASE inbound' = [inbound EXCEPT ![e] = Append(inbound[e], msg)]
    <2>1. \A i \in 1 .. Len(Append(inbound[e], msg)) :
             \/ Append(inbound[e], msg)[i] = msg
             \/ \E j \in 1 .. Len(inbound[e]) : Append(inbound[e], msg)[i] = inbound[e][j]
      BY <1>2, <1>3, AppendElements, SMTT(30)
    <2>2. ASSUME NEW f \in Ends, NEW i \in 1 .. Len(inbound'[f])
          PROVE  \/ \E j \in 1 .. Len(inbound[f]) : inbound'[f][i] = inbound[f][j]
                 \/ \E j \in 1 .. Len(net[f]) : inbound'[f][i] = net[f][j]
      <3>1. inbound'[e] = Append(inbound[e], msg) /\ (f # e => inbound'[f] = inbound[f])
        BY <1>6 DEF IInv, Types
      <3>2. CASE f = e
        BY <1>3, <2>1, <3>1, <3>2, Zenon
      <3>3. CASE f # e
        BY <3>1, <3>3
      <3> QED BY <3>2, <3>3
    <2>3. InboundFrom
      BY <2>2, Zenon DEF InboundFrom
    <2> QED BY <1>1, <1>4, <2>3, EndsSame, SyncKept, SMTT(30)
  <1> QED BY <1>1, <1>5, <1>6

LEMMA sendVerifySync == ASSUME IInv, SyncInv, NEW e \in Ends, sendVerify(e) PROVE SyncInv'
  <1> DEFINE r == [end[e] EXCEPT !.greeted = TRUE]
             msg == Verify(end[e].node)
  <1>1. /\ end[e].phase = "up" /\ end' = [end EXCEPT ![e] = r] /\ net' = Sent(e, msg)
        /\ UNCHANGED inbound
    BY DEF sendVerify
  <1>2. end[e] \in End /\ end[e].node \in Nodes
    BY <1>1, EndTyped DEF IInv, Owns, Sound
  <1>3. /\ r \in End /\ r.phase = end[e].phase /\ r.state = end[e].state
        /\ r.asking = end[e].asking
    BY <1>2, ZenonT(60) DEF End
  <1>4. msg \in Message /\ msg.type = "VERIFY"
    BY <1>2, Zenon DEF Verify, Message
  <1> HIDE DEF r, msg
  <1>5. EndsFrom
    BY <1>1, <1>3, OneFrom, ZenonT(60) DEF IInv
  <1>6. NetFrom
    BY <1>1, <1>4, NetSent DEF Agreed, IInv
  <1> QED BY <1>1, <1>5, <1>6, InboundSame, SyncKept

LEMMA VerifyAddSync == ASSUME IInv, SyncInv, NEW e \in Ends, VerifyAdd(e) PROVE SyncInv'
  <1> DEFINE b == Reconnects(e, end[e].id)
             r == [end[e] EXCEPT !.adding = FALSE, !.state = "connected", !.reconnect = b]
             msg == VerifyOK
  <1>1. /\ end' = [end EXCEPT ![e] = r] /\ net' = Sent(e, msg) /\ UNCHANGED inbound
    BY DEF VerifyAdd
  <1>2. end[e] \in End /\ b \in BOOLEAN
    BY EndTyped DEF Reconnects, End
  <1> HIDE DEF b
  <1>3. r \in End /\ r.phase = end[e].phase /\ r.state = "connected" /\ r.asking = end[e].asking
    BY <1>2, ZenonT(60) DEF End
  <1>4. msg \in Message /\ msg.type = "VERIFYOK"
    BY DEF VerifyOK, Message
  <1> HIDE DEF r, msg
  <1>5. EndsFrom
    <2>1. end[e].asking => end[e].phase = "up"
      BY Zenon DEF SyncInv
    <2> QED BY <1>1, <1>3, <2>1, OneFrom, ZenonT(60) DEF IInv
  <1>6. Established(e)'
    <2>1. end'[e] = r
      BY <1>1, <1>3, OneEnd, ZenonT(60) DEF IInv
    <2> QED BY <1>3, <2>1 DEF Established
  <1>7. Agreed(Other(e), msg)'
    <2>1. Other(Other(e)) = e
      BY OtherEnd
    <2> QED BY <1>4, <1>6, <2>1 DEF Agreed
  <1>8. NetFrom
    BY <1>1, <1>4, <1>7, NetSent DEF IInv
  <1> QED BY <1>1, <1>5, <1>8, InboundSame, SyncKept

\* The request is sent when both ends have handled the VERIFY of the other.
LEMMA SyncSendSync == ASSUME IInv, SyncInv, NEW e \in Ends, SyncSend(e) PROVE SyncInv'
  <1> DEFINE r == [end[e] EXCEPT !.asking = FALSE]
             msg == SyncReq
  <1>1. /\ end[e].asking /\ end[e].state # "handshake" /\ UNCHANGED inbound
        /\ end' = [end EXCEPT ![e] = r] /\ net' = Sent(e, msg)
    BY DEF SyncSend, HandshakeOver
  <1>2. end[e] \in End /\ end[e].phase = "up" /\ end[e].state = "connected"
    BY <1>1, EndTyped DEF SyncInv, IInv, Owns, Sound
  <1>3. r \in End /\ r.phase = end[e].phase /\ r.state = end[e].state /\ ~r.asking
    BY <1>2, Zenon DEF End
  <1>4. msg \in Message /\ msg.type = "SyncReq"
    BY DEF SyncReq, Message
  <1> HIDE DEF r, msg
  <1>5. EndsFrom
    BY <1>1, <1>2, <1>3, OneFrom, ZenonT(60) DEF IInv
  <1>6. Agreed(Other(e), msg)'
    <2>1. Other(e) \in Ends /\ Other(Other(e)) = e
      BY OtherEnd
    <2>2. Established(Other(e)) /\ Established(e)
      BY <1>1, <1>2, Zenon DEF SyncInv, Established
    <2>3. Established(Other(e))' /\ Established(e)'
      BY <1>5, <2>1, <2>2, Zenon DEF EndsFrom
    <2> QED BY <1>4, <2>1, <2>3 DEF Agreed
  <1>7. NetFrom
    BY <1>1, <1>4, <1>6, NetSent DEF IInv
  <1> QED BY <1>1, <1>5, <1>7, InboundSame, SyncKept

LEMMA SyncGiveUpSync == ASSUME IInv, SyncInv, NEW e \in Ends, SyncGiveUp(e) PROVE SyncInv'
  <1> DEFINE r == [end[e] EXCEPT !.asking = FALSE]
  <1>1. /\ end[e].asking /\ end' = [end EXCEPT ![e] = r] /\ UNCHANGED <<net, inbound>>
    BY ZenonT(60) DEF SyncGiveUp
  <1>2. end[e] \in End /\ end[e].phase = "up"
    BY <1>1, EndTyped DEF SyncInv
  <1>3. r \in End /\ r.phase = end[e].phase /\ r.state = end[e].state /\ ~r.asking
    BY <1>2, Zenon DEF End
  <1> HIDE DEF r
  <1>5. EndsFrom
    BY <1>1, <1>2, <1>3, OneFrom, ZenonT(60) DEF IInv
  <1> QED BY <1>1, <1>5, NetSame, InboundSame, SyncKept

LEMMA handleMessageSync == ASSUME IInv, SyncInv, NEW e \in Ends, handleMessage(e) PROVE SyncInv'
  <1> DEFINE msg == Head(inbound[e])
  <1>1. end[e].phase = "up" /\ inbound[e] # <<>>
    BY Zenon DEF handleMessage
  <1>2. Types /\ Inbounds /\ end[e] \in End
    BY EndTyped DEF IInv
  <1>3. msg \in Message /\ Right(e, msg) /\ Agreed(e, msg)
    BY <1>1, <1>2, FirstInbound, FirstAgreed, Zenon
  <1>4. CASE msg.type = "VERIFY" /\ handleVerify(e, msg.id)
    <2> DEFINE r == Identified(e, msg.id)
               q == [r EXCEPT !.adding = TRUE]
    <2>1. msg.id \in Ids
      BY <1>2, <1>3, <1>4, Zenon DEF Right, IInv, Owns, Sound, Ids
    <2>2. /\ r \in End /\ r.phase = end[e].phase /\ r.state = end[e].state
          /\ r.asking = end[e].asking
      BY <1>2, <2>1, ZenonT(60) DEF End, Identified
    <2>3. CASE Stop(e, r)
      <3> HIDE DEF r
      <3> QED BY <2>2, <2>3, StopFrom, Zenon
    <2>4. CASE end' = [end EXCEPT ![e] = q] /\ Handled(e) /\ UNCHANGED net
      <3> HIDE DEF r
      <3>1. /\ q \in End /\ q.phase = end[e].phase /\ q.state = end[e].state
            /\ q.asking = end[e].asking
        BY <2>2, ZenonT(60) DEF End
      <3> HIDE DEF q
      <3>2. EndsFrom
        BY <1>1, <1>2, <2>4, <3>1, OneFrom, ZenonT(60)
      <3> QED BY <1>1, <1>2, <2>4, <3>2, NetSame, InboundHandled, SyncKept
    <2> QED BY <1>4, <2>3, <2>4, Zenon DEF handleVerify
  <1>5. CASE msg.type = "VERIFYOK" /\ handleVerifyOK(e)
    <2> DEFINE b == end[e].asking \/ end[e].sync
               r == [end[e] EXCEPT !.asking = b]
    <2>1. end' = [end EXCEPT ![e] = r] /\ Handled(e) /\ UNCHANGED net
      BY <1>5 DEF handleVerifyOK
    <2>2. b \in BOOLEAN
      OBVIOUS
    <2> HIDE DEF b
    <2>3. r \in End /\ r.phase = end[e].phase /\ r.state = end[e].state
      BY <1>2, <2>2, Zenon DEF End
    <2> HIDE DEF r
    <2>4. Established(Other(e))
      BY <1>3, <1>5 DEF Agreed
    <2>5. EndsFrom
      BY <1>1, <1>2, <2>1, <2>3, <2>4, OneFrom, ZenonT(60)
    <2> QED BY <1>1, <1>2, <2>1, <2>5, NetSame, InboundHandled, SyncKept
  <1>6. CASE msg.type = "SyncReq" /\ handleSyncRequest(e)
    <2> DEFINE list == Proposed(end[e].node, end[e].id)
    <2>1. (net' = net \/ net' = Sent(e, SyncRsp(list))) /\ Handled(e) /\ UNCHANGED end
      BY <1>6 DEF handleSyncRequest
    <2>2. PICK rsp \in Message : rsp.type = "SyncRsp" /\ rsp = SyncRsp(list)
      BY ZenonT(60) DEF SyncRsp, Message, Proposed, Listed
    <2> HIDE DEF list
    <2>3. EndsFrom
      BY <2>1, EndsSame
    <2>4. Agreed(Other(e), rsp)'
      <3>1. Other(e) \in Ends
        BY OtherEnd
      <3>2. Established(Other(e))
        BY <1>3, <1>6 DEF Agreed
      <3>3. Established(Other(e))'
        BY <2>3, <3>1, <3>2, Zenon DEF EndsFrom
      <3> QED BY <2>2, <3>3 DEF Agreed
    <2>5. NetFrom
      BY <1>2, <2>1, <2>2, <2>4, NetSame, NetSent, Zenon
    <2> QED BY <1>1, <1>2, <2>1, <2>3, <2>5, InboundHandled, SyncKept, Zenon
  <1>7. CASE handleSyncResponse(e, msg.list)
    <2>1. UNCHANGED <<end, net>> /\ Handled(e)
      BY <1>7, Zenon DEF handleSyncResponse
    <2> QED BY <1>1, <1>2, <2>1, EndsSame, NetSame, InboundHandled, SyncKept, Zenon
  <1> QED BY <1>4, <1>5, <1>6, <1>7, Zenon DEF handleMessage

LEMMA InterruptSync == ASSUME IInv, SyncInv, NEW e \in Ends, Interrupt(e) PROVE SyncInv'
  BY EndTyped, StopFrom, SMTT(30) DEF Interrupt

LEMMA InitSync == Init => SyncInv
  <1> SUFFICES ASSUME Init PROVE SyncInv
    OBVIOUS
  <1>1. \A e \in Ends : ~end[e].asking /\ net[e] = <<>> /\ inbound[e] = <<>>
    BY Zenon DEF Init, Unused
  <1> QED BY <1>1, SMTT(30) DEF SyncInv

LEMMA SameSync == ASSUME SyncInv, UNCHANGED <<end, net, inbound>> PROVE SyncInv'
  BY EndsSame, NetSame, InboundSame, SyncKept

LEMMA NextSync == IInv /\ SyncInv /\ [Next]_vars => SyncInv'
  <1> SUFFICES ASSUME IInv, SyncInv, [Next]_vars PROVE SyncInv'
    OBVIOUS
  <1>1. CASE UNCHANGED vars
    BY <1>1, SameSync DEF vars
  <1>2. ASSUME NEW n \in Nodes, NodeStep(n) PROVE SyncInv'
    <2>1. CASE Started(n) \/ PendingStore(n)
      BY <2>1, SameSync, Zenon DEF Started, PendingStore
    <2> QED BY <1>2, <2>1, StartSync, JoinQueueTakeSync, SMTT(30) DEF NodeStep
  <1>3. ASSUME NEW c \in Conns, Connect(c) \/ GiveUp(c) \/ Lose(c) PROVE SyncInv'
    <2>1. CASE Lose(c)
      BY <2>1, SameSync, SMTT(30) DEF Lose
    <2> QED BY <1>3, <2>1, ConnectSync, GiveUpSync, SMTT(30)
  <1>4. ASSUME NEW e \in Ends, EndStep(e) \/ SyncGiveUp(e) PROVE SyncInv'
    BY <1>4, sendVerifySync, ReceiveSync, handleMessageSync, VerifyAddSync, SyncSendSync,
       InterruptSync, tearDownSync, SyncGiveUpSync DEF EndStep
  <1> QED BY <1>1, <1>2, <1>3, <1>4, Zenon DEF Next, System

-----------------------------------------------------------------------------
(* What a node keeps beside its ends *)

Books ==
    /\ nodeState \in [Nodes -> {"new", "starting", "started"}]
    /\ pendingConn \in [Nodes -> SUBSET Ids]
    /\ storing \in [Nodes -> Ids \union {None}]
    /\ broken \subseteq Conns /\ mishaps \subseteq Mishap

LEMMA NodeBooks == ASSUME IInv, Books, NEW n \in Nodes, NodeStep(n) PROVE Books'
  <1>1. CASE Start(n) \/ Started(n)
    <2>1. nodeState' = [nodeState EXCEPT ![n] = "starting"] \/ nodeState' = [nodeState EXCEPT ![n] = "started"]
      BY <1>1, Zenon DEF Start, Started
    <2>2. UNCHANGED <<pendingConn, storing, broken, mishaps>>
      BY <1>1, ZenonT(60) DEF Start, Started
    <2> QED BY <2>1, <2>2 DEF Books
  <1>2. CASE JoinQueueTake(n)
    <2>1. joinQueue[n] \in Seq(Peer) /\ joinQueue[n] # <<>>
      BY <1>2, Zenon DEF JoinQueueTake, IInv, Types
    <2>2. Head(joinQueue[n]) \in Peer
      BY <2>1
    <2>3. Head(joinQueue[n]).id \in Ids
      BY <2>2, SMTT(30) DEF Peer
    <2>4. mishaps' \subseteq Mishap
      BY <1>2, ZenonT(60) DEF JoinQueueTake, Books, Mishap
    <2>5. storing' \in [Nodes -> Ids \union {None}]
      BY <1>2, <2>3, ZenonT(60) DEF JoinQueueTake, Books
    <2> QED BY <1>2, <2>4, <2>5, ZenonT(60) DEF JoinQueueTake, Books
  <1>3. CASE PendingStore(n)
    <2>1. storing[n] \in Ids
      BY <1>3 DEF PendingStore, Books
    <2> QED BY <1>3, <2>1, Zenon DEF PendingStore, Books
  <1> QED BY <1>1, <1>2, <1>3, SMTT(30) DEF NodeStep

LEMMA ConnBooks == ASSUME Books, NEW c \in Conns, Connect(c) \/ GiveUp(c) \/ Lose(c) PROVE Books'
  <1>1. CASE Connect(c)
    BY <1>1 DEF Books, Connect, nodeVars
  <1>2. CASE GiveUp(c)
    BY <1>2, ZenonT(60) DEF Books, GiveUp, Mishap
  <1>3. CASE Lose(c)
    BY <1>3, ZenonT(60) DEF Books, Lose, nodeVars, Mishap
  <1> QED BY <1>1, <1>2, <1>3

LEMMA EndBooks == ASSUME Books, NEW e \in Ends, EndStep(e) \/ SyncGiveUp(e) PROVE Books'
  <1>1. CASE sendVerify(e) \/ Receive(e) \/ SyncSend(e) \/ Interrupt(e)
    BY <1>1 DEF Books, sendVerify, Receive, SyncSend, Interrupt, nodeVars
  <1>2. CASE SyncGiveUp(e)
    BY <1>2, ZenonT(60) DEF Books, SyncGiveUp, nodeVars, Mishap
  <1>3. CASE handleMessage(e)
    <2>1. mishaps' \subseteq Mishap
      BY <1>3, ZenonT(60) DEF Books, Mishap, handleMessage, handleVerify, handleVerifyOK, handleSyncRequest,
                  handleSyncResponse
    <2> QED BY <1>3, <2>1, Zenon DEF Books, handleMessage
  <1>4. CASE VerifyAdd(e)
    BY <1>4, ZenonT(60) DEF Books, VerifyAdd, eventVerifyRemoteNode, Mishap
  <1>5. CASE tearDown(e)
    BY <1>5, ZenonT(60) DEF Books, tearDown, Mishap
  <1> QED BY <1>1, <1>2, <1>3, <1>4, <1>5, SMTT(30) DEF EndStep

LEMMA NextBooks == IInv /\ Books /\ [Next]_vars => Books'
  <1> SUFFICES ASSUME IInv, Books, [Next]_vars PROVE Books'
    OBVIOUS
  <1>1. CASE UNCHANGED vars
    BY <1>1, Zenon DEF vars, nodeVars, Books
  <1> QED BY <1>1, NodeBooks, ConnBooks, EndBooks, ZenonT(60) DEF Next, System

(* Every variable has its type, and an end whose handler is adding it to    *)
(* the list knows the Id it adds: handleVerify sets it before Contains.     *)
THEOREM MembershipTypes == Spec => []MembershipTypeOK
  <1>1. Init => Books
    BY SMTT(30) DEF Init, Books
  <1>2. IInv /\ Books => MembershipTypeOK
    <2> SUFFICES ASSUME IInv, Books PROVE MembershipTypeOK
      BY SMTT(30)
    <2>1. \A e \in Ends : end[e].adding => end[e].id \in Nodes
      BY Zenon DEF IInv, Owns, Sound
    <2> QED BY <2>1, Zenon DEF IInv, Types, Books, MembershipTypeOK
  <1> QED BY <1>1, <1>2, NextBooks, Invariance, PTL DEF Spec

(* No request for the members and no answer is dropped by the filter of     *)
(* queueInboundMessage, which lets only VERIFY and VERIFYOK pass during the *)
(* handshake: who sends one of them knows that the other end is past it.    *)
THEOREM SyncPassesFilter == Spec => []SyncNotFiltered
  <1>1. SyncInv => SyncNotFiltered
    BY Zenon DEF SyncInv, SyncNotFiltered, Agreed, Established
  <1> QED BY <1>1, InitSync, NextSync, Invariance, PTL DEF Spec
=============================================================================
