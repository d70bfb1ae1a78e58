------------------------ MODULE MembershipInvariant ------------------------
(***************************************************************************)
(* The inductive invariant behind the theorems of MembershipProofs, and    *)
(* the steps of a connection that is dialled and greeted.                  *)
(*                                                                         *)
(* The invariant ties each end to its other end (Links), says what an end  *)
(* knows of the node there (Sound), what the messages on their way to it   *)
(* may say (Nets, Inbounds), and what the list and the queue of proposals  *)
(* of a node hold (Lists, Queues).                                         *)
(***************************************************************************)
EXTENDS Membership, TLAPS

Types ==
    /\ cluster \in Clusters
    /\ end \in [Ends -> End]
    /\ net \in [Ends -> Seq(Message)]
    /\ inbound \in [Ends -> Seq(Message)]
    /\ remoteNodes \in [Nodes -> [Nodes -> Ends \union {None}]]
    /\ joinQueue \in [Nodes -> Seq(Peer)]

\* The two ends of a connection that has been made name each other.
Links(e) ==
    end[e].phase \in {"up", "stopping"} =>
        /\ end[Other(e)].phase \in {"up", "stopping", "down"}
        /\ end[Other(e)].node = end[e].addr
        /\ end[Other(e)].addr = end[e].node

\* Only the node at the other end is ever taken for the peer.
Sound(r) ==
    /\ r.phase # "unused" => /\ r.node \in Nodes /\ r.addr \in Nodes
                             /\ r.addr # r.node
                             /\ r.id \in {NoId, r.addr}
    /\ r.phase = "up" => r.state \in {"handshake", "connected"}
    /\ r.adding \/ r.state = "connected" =>
         /\ r.phase \in {"up", "stopping"}
         /\ r.id = r.addr
         /\ ~(Passive(r.node) /\ Passive(r.addr))

\* A VERIFY names its sender; nobody is told of themselves.
Right(e, msg) ==
    /\ end[e].phase = "up"
    /\ msg.type = "VERIFY" => msg.id = end[e].addr
    /\ msg.type = "SyncRsp" => end[e].node \notin msg.list

Nets == \A e \in Ends : \A i \in 1 .. Len(net[e]) : Right(e, net[e][i])

Inbounds ==
    \A e \in Ends : \A i \in 1 .. Len(inbound[e]) :
        /\ Right(e, inbound[e][i])
        /\ inbound[e][i].type = "SyncReq" => end[e].id = end[e].addr

Lists ==
    \A n, m \in Nodes : \A e \in Ends : remoteNodes[n][m] = e =>
        /\ end[e].node = n /\ end[e].addr = m /\ end[e].id = m
        /\ end[e].phase \in {"up", "stopping"}

Queues ==
    \A n \in Nodes : \A i \in 1 .. Len(joinQueue[n]) :
        joinQueue[n][i].addr # n /\ joinQueue[n][i].id \in {NoId, joinQueue[n][i].addr}

Owns == \A e \in Ends : Sound(end[e])
Pairs == \A e \in Ends : Links(e)

IInv == Types /\ Owns /\ Pairs /\ Nets /\ Inbounds /\ Lists /\ Queues

-----------------------------------------------------------------------------
LEMMA OtherEnd ==
    ASSUME NEW e \in Ends
    PROVE  Other(e) \in Ends /\ Other(e) # e /\ Other(Other(e)) = e
  BY DEF Ends, Other

LEMMA AppendElements ==
    ASSUME NEW S, NEW s \in Seq(S), NEW x \in S
    PROVE  /\ Append(s, x) \in Seq(S)
           /\ \A i \in 1 .. Len(Append(s, x)) :
                Append(s, x)[i] = x \/ \E j \in 1 .. Len(s) : Append(s, x)[i] = s[j]
  OBVIOUS

LEMMA TailElements ==
    ASSUME NEW S, NEW s \in Seq(S), s # <<>>
    PROVE  /\ Head(s) \in S /\ 1 \in 1 .. Len(s) /\ Head(s) = s[1]
           /\ Tail(s) \in Seq(S)
           /\ \A i \in 1 .. Len(Tail(s)) : \E j \in 1 .. Len(s) : Tail(s)[i] = s[j]
  <1>1. /\ Head(s) \in S /\ 1 \in 1 .. Len(s) /\ Head(s) = s[1] /\ Tail(s) \in Seq(S)
    OBVIOUS
  <1>2. \A i \in 1 .. Len(Tail(s)) : i + 1 \in 1 .. Len(s) /\ Tail(s)[i] = s[i + 1]
    OBVIOUS
  <1> QED BY <1>1, <1>2

LEMMA ConcatElements ==
    ASSUME NEW S, NEW s \in Seq(S), NEW t \in Seq(S)
    PROVE  /\ s \o t \in Seq(S)
           /\ \A i \in 1 .. Len(s \o t) :
                \/ \E j \in 1 .. Len(s) : (s \o t)[i] = s[j]
                \/ \E j \in 1 .. Len(t) : (s \o t)[i] = t[j]
  <1>1. s \o t \in Seq(S) /\ Len(s \o t) = Len(s) + Len(t)
    OBVIOUS
  <1>2. \A i \in 1 .. Len(s) : (s \o t)[i] = s[i]
    OBVIOUS
  <1>3. \A i \in Len(s) + 1 .. Len(s) + Len(t) : i - Len(s) \in 1 .. Len(t) /\ (s \o t)[i] = t[i - Len(s)]
    OBVIOUS
  <1>4. Len(s) \in Nat /\ Len(t) \in Nat
    OBVIOUS
  <1>5. \A i \in 1 .. Len(s) + Len(t) : i \in 1 .. Len(s) \/ i \in Len(s) + 1 .. Len(s) + Len(t)
    BY <1>4
  <1> QED BY <1>1, <1>2, <1>3, <1>5

-----------------------------------------------------------------------------
(* A step that changes one end *)

LEMMA OneEnd ==
    ASSUME Types, NEW e \in Ends, NEW r \in End, end' = [end EXCEPT ![e] = r]
    PROVE  end' \in [Ends -> End] /\ end'[e] = r /\ \A f \in Ends : f # e => end'[f] = end[f]
  BY DEF Types

LEMMA OneOwns ==
    ASSUME Types, Owns, NEW e \in Ends, NEW r \in End, end' = [end EXCEPT ![e] = r],
           cluster' = cluster, Sound(r)
    PROVE  Owns'
  <1>1. \A f \in Ends : Sound(end'[f])
    BY OneEnd DEF Owns
  <1>2. \A f \in Ends : Sound(end'[f]) <=> Sound(end[f])'
    BY DEF Sound, Passive
  <1> QED BY <1>1, <1>2 DEF Owns

LEMMA OnePairs ==
    ASSUME Types, Pairs, NEW e \in Ends, NEW r \in End, end' = [end EXCEPT ![e] = r],
           r.node = end[e].node, r.addr = end[e].addr,
           \/ r.phase = end[e].phase
           \/ end[e].phase \in {"up", "stopping"} /\ r.phase \in {"up", "stopping", "down"}
    PROVE  Pairs'
  <1> SUFFICES ASSUME NEW f \in Ends PROVE Links(f)'
    BY DEF Pairs
  <1>1. end'[e] = r /\ \A g \in Ends : g # e => end'[g] = end[g]
    BY OneEnd, Zenon
  <1>2. Links(f) /\ Links(e) /\ Other(f) \in Ends /\ Other(f) # f /\ Other(Other(f)) = f
    BY OtherEnd DEF Pairs
  <1>3. CASE f = e
    BY <1>1, <1>2, <1>3 DEF Links
  <1>4. CASE Other(f) = e
    BY <1>1, <1>2, <1>4 DEF Links
  <1>5. CASE f # e /\ Other(f) # e
    BY <1>1, <1>2, <1>5 DEF Links
  <1> QED BY <1>3, <1>4, <1>5

LEMMA OneLists ==
    ASSUME Types, Lists, NEW e \in Ends, NEW r \in End, end' = [end EXCEPT ![e] = r],
           UNCHANGED remoteNodes,
           r.node = end[e].node, r.addr = end[e].addr, r.id = end[e].id \/ r.id = r.addr,
           end[e].phase \in {"up", "stopping"} => r.phase \in {"up", "stopping"}
    PROVE  Lists'
  <1> SUFFICES ASSUME NEW n \in Nodes, NEW m \in Nodes, NEW f \in Ends, remoteNodes[n][m] = f
               PROVE  /\ end'[f].node = n /\ end'[f].addr = m /\ end'[f].id = m
                      /\ end'[f].phase \in {"up", "stopping"}
    BY DEF Lists
  <1>1. /\ end[f].node = n /\ end[f].addr = m /\ end[f].id = m
        /\ end[f].phase \in {"up", "stopping"}
    BY DEF Lists
  <1>2. end'[e] = r /\ (f # e => end'[f] = end[f])
    BY OneEnd, Zenon
  <1> QED BY <1>1, <1>2

\* The ends that were up still are, and what is true of them stays so.
UpKept ==
    \A f \in Ends : end[f].phase = "up" =>
        /\ end'[f].phase = "up" /\ end'[f].node = end[f].node /\ end'[f].addr = end[f].addr
        /\ end[f].id = end[f].addr => end'[f].id = end[f].addr

LEMMA OneUpKept ==
    ASSUME Types, NEW e \in Ends, NEW r \in End, end' = [end EXCEPT ![e] = r],
           end[e].phase = "up" =>
             /\ r.phase = "up" /\ r.node = end[e].node /\ r.addr = end[e].addr
             /\ r.id = end[e].id \/ r.id = r.addr
    PROVE  UpKept
  <1>1. end'[e] = r /\ \A f \in Ends : f # e => end'[f] = end[f]
    BY OneEnd, Zenon
  <1> QED BY <1>1 DEF UpKept

LEMMA SameUpKept == ASSUME UNCHANGED end PROVE UpKept
  BY DEF UpKept

LEMMA KeptRight ==
    ASSUME UpKept, NEW e \in Ends, NEW msg, Right(e, msg)
    PROVE  /\ Right(e, msg)' /\ (end[e].id = end[e].addr => end'[e].id = end'[e].addr)
  BY DEF UpKept, Right

LEMMA NetsSame == ASSUME UpKept, Nets, UNCHANGED net PROVE Nets'
  <1> SUFFICES ASSUME NEW e \in Ends, NEW i \in 1 .. Len(net[e]) PROVE Right(e, net[e][i])'
    BY DEF Nets
  <1>1. Right(e, net[e][i])
    BY DEF Nets
  <1>2. net'[e][i] = net[e][i]
    OBVIOUS
  <1> QED BY <1>1, <1>2, KeptRight DEF Right

LEMMA NetsSent ==
    ASSUME Types, UpKept, Nets, NEW e \in Ends, NEW msg \in Message, net' = Sent(e, msg),
           end[e].phase = "up" /\ end[Other(e)].phase = "up" => Right(Other(e), msg)
    PROVE  net' \in [Ends -> Seq(Message)] /\ Nets'
  <1>0. Other(e) \in Ends
    BY OtherEnd
  <1>1. CASE net' = net
    BY <1>1, NetsSame DEF Types
  <1>2. CASE /\ net' = [net EXCEPT ![Other(e)] = Append(net[Other(e)], msg)]
             /\ Right(Other(e), msg)
    <2>1. net[Other(e)] \in Seq(Message)
      BY <1>0 DEF Types
    <2>2. /\ Append(net[Other(e)], msg) \in Seq(Message)
          /\ \A i \in 1 .. Len(Append(net[Other(e)], msg)) :
               \/ Append(net[Other(e)], msg)[i] = msg
               \/ \E j \in 1 .. Len(net[Other(e)]) : Append(net[Other(e)], msg)[i] = net[Other(e)][j]
      BY <2>1, AppendElements
    <2>3. net' \in [Ends -> Seq(Message)]
      BY <1>2, <2>2, Zenon DEF Types
    <2>4. ASSUME NEW f \in Ends, NEW i \in 1 .. Len(net'[f])
          PROVE  Right(f, net'[f][i])
      <3>1. CASE f = Other(e)
        <4>1. net'[f] = Append(net[f], msg)
          BY <1>0, <1>2, <3>1 DEF Types
        <4> QED BY <1>2, <2>2, <3>1, <4>1 DEF Nets
      <3>2. CASE f # Other(e)
        <4>1. net'[f] = net[f]
          BY <1>2, <3>2 DEF Types
        <4> QED BY <4>1 DEF Nets
      <3> QED BY <3>1, <3>2
    <2>5. ASSUME NEW f \in Ends, NEW i \in 1 .. Len(net'[f])
          PROVE  Right(f, net[f][i])'
      BY <2>4, KeptRight, Zenon DEF Right
    <2> QED BY <2>3, <2>5 DEF Nets
  <1> QED BY <1>1, <1>2 DEF Sent

LEMMA InboundsSame == ASSUME UpKept, Inbounds, UNCHANGED inbound PROVE Inbounds'
  <1> SUFFICES ASSUME NEW e \in Ends, NEW i \in 1 .. Len(inbound[e])
               PROVE  /\ Right(e, inbound[e][i])'
                      /\ inbound'[e][i].type = "SyncReq" => end'[e].id = end'[e].addr
    BY DEF Inbounds
  <1>1. Right(e, inbound[e][i]) /\ (inbound[e][i].type = "SyncReq" => end[e].id = end[e].addr)
    BY DEF Inbounds
  <1>2. inbound'[e][i] = inbound[e][i]
    OBVIOUS
  <1> QED BY <1>1, <1>2, KeptRight, Zenon DEF Right

\* The first message at an end, and what is left when it has been handled.
LEMMA InboundsHandled ==
    ASSUME Types, UpKept, Inbounds, NEW e \in Ends, inbound[e] # <<>>, Handled(e)
    PROVE  inbound' \in [Ends -> Seq(Message)] /\ Inbounds'
  <1>1. inbound[e] \in Seq(Message) /\ inbound' = [inbound EXCEPT ![e] = Tail(inbound[e])]
    BY DEF Types, Handled
  <1>2. /\ Tail(inbound[e]) \in Seq(Message)
        /\ \A i \in 1 .. Len(Tail(inbound[e])) :
             \E j \in 1 .. Len(inbound[e]) : Tail(inbound[e])[i] = inbound[e][j]
    BY <1>1, TailElements
  <1>3. inbound' \in [Ends -> Seq(Message)]
    BY <1>1, <1>2 DEF Types
  <1>4. ASSUME NEW f \in Ends, NEW i \in 1 .. Len(inbound'[f])
        PROVE  /\ Right(f, inbound'[f][i])
               /\ inbound'[f][i].type = "SyncReq" => end[f].id = end[f].addr
    <2>1. CASE f = e
      <3>1. inbound'[f] = Tail(inbound[f])
        BY <1>1, <2>1 DEF Types
      <3>2. PICK j \in 1 .. Len(inbound[f]) : inbound'[f][i] = inbound[f][j]
        BY <1>2, <2>1, <3>1
      <3> QED BY <3>2 DEF Inbounds
    <2>2. CASE f # e
      <3>1. inbound'[f] = inbound[f]
        BY <1>1, <2>2, SMTT(30) DEF Types
      <3> QED BY <3>1 DEF Inbounds
    <2> QED BY <2>1, <2>2
  <1>5. ASSUME NEW f \in Ends, NEW i \in 1 .. Len(inbound'[f])
        PROVE  /\ Right(f, inbound[f][i])'
               /\ inbound'[f][i].type = "SyncReq" => end'[f].id = end'[f].addr
    BY <1>4, KeptRight, Zenon DEF Right
  <1> QED BY <1>3, <1>5 DEF Inbounds

LEMMA FirstInbound ==
    ASSUME Types, Inbounds, NEW e \in Ends, inbound[e] # <<>>
    PROVE  LET msg == Head(inbound[e]) IN
           /\ msg \in Message /\ Right(e, msg)
           /\ msg.type = "SyncReq" => end[e].id = end[e].addr
  <1>1. inbound[e] \in Seq(Message)
    BY DEF Types
  <1>2. Head(inbound[e]) \in Message /\ 1 \in 1 .. Len(inbound[e]) /\ Head(inbound[e]) = inbound[e][1]
    BY <1>1, TailElements
  <1> QED BY <1>2 DEF Inbounds

\* An end that stops has no messages left.
LEMMA StopKeeps ==
    ASSUME Types, Owns, Pairs, Nets, Inbounds, Lists, NEW e \in Ends, NEW r \in End,
           end[e].phase = "up", Stop(e, r), UNCHANGED <<cluster, remoteNodes>>,
           r.node = end[e].node, r.addr = end[e].addr, r.id = end[e].id \/ r.id = r.addr,
           r.adding = end[e].adding
    PROVE  /\ end' \in [Ends -> End] /\ net' \in [Ends -> Seq(Message)] /\ inbound' \in [Ends -> Seq(Message)]
           /\ Owns' /\ Pairs' /\ Nets' /\ Inbounds' /\ Lists'
  <1> DEFINE q == [r EXCEPT !.phase = "stopping", !.state = "disconnected", !.asking = FALSE]
  <1>1. /\ q \in End /\ q.phase = "stopping" /\ q.state = "disconnected" /\ q.node = r.node
        /\ q.addr = r.addr /\ q.id = r.id /\ q.adding = r.adding
    BY Zenon DEF End
  <1>2. end' = [end EXCEPT ![e] = q]
    BY DEF Stop
  <1>3. Sound(q)
    BY <1>1 DEF Owns, Sound
  <1> HIDE DEF q
  <1>4. /\ end' \in [Ends -> End] /\ end'[e] = q
        /\ \A f \in Ends : f # e => end'[f] = end[f]
    BY <1>1, <1>2, OneEnd, Zenon
  <1>5. Owns'
    BY <1>1, <1>2, <1>3, OneOwns, Zenon
  <1>6. Pairs'
    BY <1>1, <1>2, OnePairs, Zenon
  <1>7. Lists'
    BY <1>1, <1>2, OneLists, Zenon
  <1>8. net' = [net EXCEPT ![e] = <<>>] /\ inbound' = [inbound EXCEPT ![e] = <<>>]
    BY DEF Stop
  <1>9. net' \in [Ends -> Seq(Message)] /\ inbound' \in [Ends -> Seq(Message)]
    BY <1>8 DEF Types
  <1>10. Nets'
    <2> SUFFICES ASSUME NEW f \in Ends, NEW i \in 1 .. Len(net'[f]) PROVE Right(f, net[f][i])'
      BY DEF Nets
    <2>1. f # e
      BY <1>8 DEF Types
    <2>2. net'[f] = net[f] /\ end'[f] = end[f]
      BY <1>4, <1>8, <2>1, Zenon DEF Types
    <2> QED BY <2>2 DEF Nets, Right
  <1>11. Inbounds'
    <2> SUFFICES ASSUME NEW f \in Ends, NEW i \in 1 .. Len(inbound'[f])
                 PROVE  /\ Right(f, inbound[f][i])'
                        /\ inbound'[f][i].type = "SyncReq" => end'[f].id = end'[f].addr
      BY DEF Inbounds
    <2>1. f # e
      BY <1>8 DEF Types
    <2>2. inbound'[f] = inbound[f] /\ end'[f] = end[f]
      BY <1>4, <1>8, <2>1, Zenon DEF Types
    <2> QED BY <2>2 DEF Inbounds, Right
  <1> QED BY <1>4, <1>5, <1>6, <1>7, <1>9, <1>10, <1>11

-----------------------------------------------------------------------------
(* The steps *)

LEMMA SameEnds ==
    ASSUME Owns, Pairs, Lists, UNCHANGED <<cluster, end, remoteNodes>>
    PROVE  Owns' /\ Pairs' /\ Lists'
  <1>1. Owns'
    BY Zenon DEF Owns, Sound, Passive
  <1>2. Pairs' /\ Lists'
    BY DEF Pairs, Links, Lists
  <1> QED BY <1>1, <1>2

LEMMA Same ==
    ASSUME IInv, UNCHANGED <<cluster, end, net, inbound, remoteNodes, joinQueue>>
    PROVE  IInv'
  <1>1. Types' /\ Owns' /\ Pairs' /\ Lists' /\ Queues'
    BY SameEnds, Zenon DEF IInv, Types, Queues
  <1>2. Nets' /\ Inbounds'
    BY SameUpKept, NetsSame, InboundsSame DEF IInv
  <1> QED BY <1>1, <1>2, SMTT(30) DEF IInv

\* A step that changes only flags the invariant does not mention.
LEMMA FlagsKeep ==
    ASSUME IInv, NEW e \in Ends, NEW r \in End, end' = [end EXCEPT ![e] = r],
           UNCHANGED <<cluster, remoteNodes>>,
           r.phase = end[e].phase, r.node = end[e].node, r.addr = end[e].addr,
           r.id = end[e].id, r.state = end[e].state, r.adding = end[e].adding
    PROVE  end' \in [Ends -> End] /\ Owns' /\ Pairs' /\ Lists' /\ UpKept
  <1>1. Types /\ Owns /\ Pairs /\ Lists
    BY DEF IInv
  <1>2. Sound(r)
    BY <1>1, Zenon DEF Owns, Sound
  <1> QED BY <1>1, <1>2, OneEnd, OneOwns, OnePairs, OneLists, OneUpKept, Zenon

LEMMA UnusedEnd == Unused \in End /\ ~Unused.adding /\ Unused.state = "disconnected" /\ Unused.id = NoId
  BY DEF Unused, End, Ids

LEMMA DialKeeps ==
    ASSUME IInv, NEW c \in Conns, NEW n \in Nodes, NEW addr \in Nodes, NEW id \in {NoId, addr},
           NEW sync \in BOOLEAN, addr # n, Dial(c, n, addr, id, sync),
           UNCHANGED <<cluster, net, inbound, remoteNodes>>
    PROVE  end' \in [Ends -> End] /\ Owns' /\ Pairs' /\ Nets' /\ Inbounds' /\ Lists'
  <1> DEFINE e == <<c, "out">>
             r == [Unused EXCEPT !.phase = "dialling", !.node = n, !.addr = addr, !.id = id,
                                 !.state = "connecting", !.sync = sync,
                                 !.reconnect = n \in cluster.reconnect]
  <1>1. e \in Ends /\ end[e].phase = "unused" /\ end' = [end EXCEPT ![e] = r]
    BY DEF Dial, NextConn, Free, Ends
  <1>3. (n \in cluster.reconnect) \in BOOLEAN
    OBVIOUS
  <1> HIDE DEF e
  <1>4. /\ r \in End
        /\ r.phase = "dialling" /\ r.node = n /\ r.addr = addr /\ r.id = id
        /\ r.state = "connecting" /\ ~r.adding
    BY <1>3, UnusedEnd, ZenonT(60) DEF End, Ids
  <1> HIDE DEF r
  <1>5. Types /\ Owns /\ Pairs /\ Nets /\ Inbounds /\ Lists
    BY DEF IInv
  <1>6. end' \in [Ends -> End] /\ end'[e] = r /\ \A f \in Ends : f # e => end'[f] = end[f]
    BY <1>1, <1>4, <1>5, OneEnd, Zenon
  <1>7. Sound(r)
    BY <1>4 DEF Sound
  <1>8. Owns'
    BY <1>1, <1>4, <1>5, <1>7, OneOwns, Zenon
  <1>9. Pairs'
    <2> SUFFICES ASSUME NEW f \in Ends, end'[f].phase \in {"up", "stopping"}
                 PROVE  /\ end'[Other(f)].phase \in {"up", "stopping", "down"}
                        /\ end'[Other(f)].node = end'[f].addr
                        /\ end'[Other(f)].addr = end'[f].node
      BY Zenon DEF Pairs, Links
    <2>1. f # e /\ end'[f] = end[f]
      BY <1>4, <1>6
    <2>2. /\ end[Other(f)].phase \in {"up", "stopping", "down"}
          /\ end[Other(f)].node = end[f].addr
          /\ end[Other(f)].addr = end[f].node
      BY <1>5, <2>1, Zenon DEF Pairs, Links
    <2>3. Other(f) # e /\ Other(f) \in Ends
      BY <1>1, <2>2, OtherEnd, Zenon
    <2> QED BY <1>6, <2>1, <2>2, <2>3, Zenon
  <1>10. UpKept
    BY <1>1, <1>4, <1>5, OneUpKept, Zenon
  <1>11. Nets' /\ Inbounds'
    BY <1>5, <1>10, NetsSame, InboundsSame
  <1>12. Lists'
    BY <1>1, <1>5, <1>6 DEF Lists
  <1> QED BY <1>6, <1>8, <1>9, <1>11, <1>12, Zenon

LEMMA StartKeeps == ASSUME IInv, NEW n \in Nodes, Start(n) PROVE IInv'
  <1>1. UNCHANGED <<cluster, net, inbound, remoteNodes, joinQueue>>
    BY DEF Start
  <1>2. CASE UNCHANGED end
    BY <1>1, <1>2, Same
  <1>3. ASSUME NEW c \in Conns, Dial(c, n, cluster.join[n], NoId, TRUE), cluster.join[n] # None
        PROVE  IInv'
    <2>1. cluster.join[n] \in Nodes /\ cluster.join[n] # n
      BY <1>3, MembershipAssumption, Zenon DEF IInv, Types
    <2>2. end' \in [Ends -> End] /\ Owns' /\ Pairs' /\ Nets' /\ Inbounds' /\ Lists'
      BY <1>1, <1>3, <2>1, DialKeeps, ZenonT(60)
    <2>3. Types' /\ Queues'
      BY <1>1, <2>2, Zenon DEF IInv, Types, Queues
    <2> QED BY <2>2, <2>3, SMTT(30) DEF IInv
  <1> QED BY <1>2, <1>3, Zenon DEF Start

LEMMA ConnectKeeps == ASSUME IInv, NEW c \in Conns, Connect(c) PROVE IInv'
  <1> DEFINE out == <<c, "out">>
             in == <<c, "in">>
             q == [end[out] EXCEPT !.phase = "up", !.state = "handshake"]
             r == [Unused EXCEPT !.phase = "up", !.state = "handshake",
                                 !.node = end[out].addr, !.addr = end[out].node]
  <1>1. out \in Ends /\ in \in Ends /\ out # in /\ Other(out) = in /\ Other(in) = out
    BY DEF Ends, Other
  <1>2. /\ end[out].phase = "dialling"
        /\ end' = [end EXCEPT ![out] = q, ![in] = r]
        /\ UNCHANGED <<cluster, net, inbound, remoteNodes, joinQueue>>
    BY DEF Connect, nodeVars
  <1>3. Types /\ Owns /\ Pairs /\ Nets /\ Inbounds /\ Lists /\ Queues
    BY DEF IInv
  <1> HIDE DEF out, in
  <1>4. /\ end[out] \in End /\ Sound(end[out])
        /\ end[out].node \in Nodes /\ end[out].addr \in Nodes /\ end[out].addr # end[out].node
        /\ end[out].id \in {NoId, end[out].addr} /\ ~end[out].adding
    BY <1>1, <1>2, <1>3, Zenon DEF Types, Owns, Sound
  <1>5. /\ q \in End /\ q.phase = "up" /\ q.state = "handshake" /\ q.node = end[out].node
        /\ q.addr = end[out].addr /\ q.id = end[out].id /\ ~q.adding
    BY <1>4, Zenon DEF End
  <1>7. /\ r \in End /\ r.phase = "up" /\ r.state = "handshake" /\ r.node = end[out].addr
        /\ r.addr = end[out].node /\ r.id = NoId /\ ~r.adding
    BY <1>4, UnusedEnd, Zenon DEF End, Ids
  <1> HIDE DEF q, r
  <1>8. /\ end' \in [Ends -> End] /\ end'[out] = q /\ end'[in] = r
        /\ \A f \in Ends : f # out /\ f # in => end'[f] = end[f]
    BY <1>1, <1>2, <1>3, <1>5, <1>7, Zenon DEF Types
  <1>9. Owns'
    <2>1. Sound(q) /\ Sound(r)
      BY <1>4, <1>5, <1>7, Zenon DEF Sound
    <2>2. \A f \in Ends : Sound(end'[f])
      BY <1>3, <1>8, <2>1, SMTT(30) DEF Owns
    <2> QED BY <1>2, <2>2, ZenonT(60) DEF Owns, Sound, Passive
  <1>10. end[in].phase \notin {"up", "stopping"}
    BY <1>1, <1>2, <1>3, SMTT(30) DEF Pairs, Links
  <1>11. Pairs'
    <2> SUFFICES ASSUME NEW f \in Ends, end'[f].phase \in {"up", "stopping"}
                 PROVE  /\ end'[Other(f)].phase \in {"up", "stopping", "down"}
                        /\ end'[Other(f)].node = end'[f].addr
                        /\ end'[Other(f)].addr = end'[f].node
      BY DEF Pairs, Links
    <2>1. CASE f = out
      BY <1>1, <1>5, <1>7, <1>8, <2>1, Zenon
    <2>2. CASE f = in
      BY <1>1, <1>5, <1>7, <1>8, <2>2, Zenon
    <2>3. CASE f # out /\ f # in
      <3>1. Other(f) \in Ends /\ Other(f) # out /\ Other(f) # in
        BY <1>1, <2>3, OtherEnd
      <3> QED BY <1>3, <1>8, <2>3, <3>1, Zenon DEF Pairs, Links
    <2> QED BY <2>1, <2>2, <2>3, Zenon
  <1>12. UpKept
    BY <1>2, <1>8, <1>10, Zenon DEF UpKept
  <1>13. Nets' /\ Inbounds'
    BY <1>2, <1>3, <1>12, NetsSame, InboundsSame
  <1>14. Lists'
    BY <1>2, <1>3, <1>8, <1>10 DEF Lists
  <1>15. Types' /\ Queues'
    BY <1>2, <1>3, <1>8, Zenon DEF Types, Queues
  <1> QED BY <1>9, <1>11, <1>13, <1>14, <1>15 DEF IInv

\* An end that goes down, with nothing left of what it knew.
Gone(n, addr) == [Unused EXCEPT !.phase = "down", !.node = n, !.addr = addr]

LEMMA GoneEnd ==
    ASSUME NEW n \in Nodes, NEW addr \in Nodes, addr # n
    PROVE  /\ Gone(n, addr) \in End /\ Sound(Gone(n, addr)) /\ Gone(n, addr).phase = "down"
           /\ Gone(n, addr).node = n /\ Gone(n, addr).addr = addr
  <1> DEFINE r == Gone(n, addr)
  <1>1. /\ r \in End /\ r.phase = "down" /\ r.node = n /\ r.addr = addr
        /\ r.id = NoId /\ r.state = "disconnected" /\ r.adding = Unused.adding
    BY UnusedEnd, Zenon DEF End, Ids, Gone
  <1> HIDE DEF r
  <1>2. Sound(r)
    BY <1>1, UnusedEnd DEF Sound
  <1> QED BY <1>1, <1>2, Zenon DEF r

LEMMA GiveUpKeeps == ASSUME IInv, NEW c \in Conns, GiveUp(c) PROVE IInv'
  <1> DEFINE e == <<c, "out">>
             r == Gone(end[e].node, end[e].addr)
  <1>1. /\ e \in Ends /\ end[e].phase = "dialling" /\ end' = [end EXCEPT ![e] = r]
        /\ UNCHANGED <<cluster, net, inbound, remoteNodes, joinQueue>>
    BY Zenon DEF GiveUp, Ends, Gone
  <1>2. Types /\ Owns /\ Pairs /\ Nets /\ Inbounds /\ Lists /\ Queues
    BY DEF IInv
  <1> HIDE DEF e
  <1>3. end[e].node \in Nodes /\ end[e].addr \in Nodes /\ end[e].addr # end[e].node
    BY <1>1, <1>2, Zenon DEF Owns, Sound
  <1>4. r \in End /\ Sound(r) /\ r.phase = "down"
    BY <1>3, GoneEnd, Zenon
  <1> HIDE DEF r
  <1>5. end' \in [Ends -> End] /\ end'[e] = r /\ \A f \in Ends : f # e => end'[f] = end[f]
    BY <1>1, <1>2, <1>4, OneEnd, Zenon
  <1>6. Owns' /\ UpKept
    BY <1>1, <1>2, <1>4, OneOwns, OneUpKept, Zenon
  <1>7. Pairs'
    <2> SUFFICES ASSUME NEW f \in Ends, end'[f].phase \in {"up", "stopping"}
                 PROVE  /\ end'[Other(f)].phase \in {"up", "stopping", "down"}
                        /\ end'[Other(f)].node = end'[f].addr
                        /\ end'[Other(f)].addr = end'[f].node
      BY DEF Pairs, Links
    <2>1. f # e /\ end'[f] = end[f]
      BY <1>4, <1>5
    <2>2. /\ end[Other(f)].phase \in {"up", "stopping", "down"}
          /\ end[Other(f)].node = end[f].addr
          /\ end[Other(f)].addr = end[f].node
      BY <1>2, <2>1, Zenon DEF Pairs, Links
    <2>3. Other(f) # e /\ Other(f) \in Ends
      BY <1>1, <2>2, OtherEnd, Zenon
    <2> QED BY <1>5, <2>1, <2>2, <2>3, Zenon
  <1>8. Nets' /\ Inbounds'
    BY <1>1, <1>2, <1>6, NetsSame, InboundsSame, SMTT(30)
  <1>9. Lists'
    BY <1>1, <1>2, <1>5, SMTT(30) DEF Lists
  <1>10. Types' /\ Queues'
    BY <1>1, <1>2, <1>5, Zenon DEF Types, Queues
  <1> QED BY <1>6, <1>7, <1>8, <1>9, <1>10 DEF IInv

LEMMA JoinQueueTakeKeeps == ASSUME IInv, NEW n \in Nodes, JoinQueueTake(n) PROVE IInv'
  <1> DEFINE p == Head(joinQueue[n])
  <1>1. /\ joinQueue[n] # <<>> /\ joinQueue' = [joinQueue EXCEPT ![n] = Tail(joinQueue[n])]
        /\ UNCHANGED <<cluster, net, inbound, remoteNodes>>
        /\ UNCHANGED end \/ \E c \in Conns : Dial(c, n, p.addr, p.id, FALSE)
    BY Zenon DEF JoinQueueTake
  <1>2. Types /\ Queues
    BY DEF IInv
  <1>3. joinQueue[n] \in Seq(Peer)
    BY <1>2 DEF Types
  <1>4. /\ p \in Peer /\ 1 \in 1 .. Len(joinQueue[n]) /\ p = joinQueue[n][1]
        /\ Tail(joinQueue[n]) \in Seq(Peer)
        /\ \A i \in 1 .. Len(Tail(joinQueue[n])) :
             \E j \in 1 .. Len(joinQueue[n]) : Tail(joinQueue[n])[i] = joinQueue[n][j]
    BY <1>1, <1>3, TailElements
  <1>5. p.addr \in Nodes /\ p.addr # n /\ p.id \in {NoId, p.addr}
    BY <1>2, <1>4 DEF Queues, Peer
  <1>6. joinQueue' \in [Nodes -> Seq(Peer)]
    BY <1>1, <1>2, <1>4, SMTT(30) DEF Types
  <1>7. Queues'
    <2> SUFFICES ASSUME NEW m \in Nodes, NEW i \in 1 .. Len(joinQueue'[m])
                 PROVE  joinQueue'[m][i].addr # m /\ joinQueue'[m][i].id \in {NoId, joinQueue'[m][i].addr}
      BY Zenon DEF Queues
    <2>1. PICK j \in 1 .. Len(joinQueue[m]) : joinQueue'[m][i] = joinQueue[m][j]
      BY <1>1, <1>2, <1>4, Zenon DEF Types
    <2> QED BY <1>2, <2>1 DEF Queues
  <1> HIDE DEF p
  <1>8. end' \in [Ends -> End] /\ Owns' /\ Pairs' /\ Nets' /\ Inbounds' /\ Lists'
    <2>1. CASE UNCHANGED end
      <3>1. end' \in [Ends -> End] /\ Owns' /\ Pairs' /\ Lists'
        BY <1>1, <2>1, SameEnds, Zenon DEF IInv, Types
      <3> QED BY <1>1, <2>1, <3>1, SameUpKept, NetsSame, InboundsSame, Zenon DEF IInv
    <2>2. ASSUME NEW c \in Conns, Dial(c, n, p.addr, p.id, FALSE)
          PROVE  end' \in [Ends -> End] /\ Owns' /\ Pairs' /\ Nets' /\ Inbounds' /\ Lists'
      BY <1>1, <1>5, <2>2, DialKeeps, Zenon
    <2> QED BY <1>1, <2>1, <2>2, ZenonT(60)
  <1>9. Types'
    BY <1>1, <1>2, <1>6, <1>8, Zenon DEF Types
  <1> QED BY <1>7, <1>8, <1>9 DEF IInv

\* The flags of an end change and a message is sent to the other end.
LEMMA SendKeeps ==
    ASSUME IInv, NEW e \in Ends, NEW r \in End, end' = [end EXCEPT ![e] = r],
           UNCHANGED <<cluster, inbound, remoteNodes, joinQueue>>,
           r.phase = end[e].phase, r.node = end[e].node, r.addr = end[e].addr,
           r.id = end[e].id, r.state = end[e].state, r.adding = end[e].adding,
           NEW msg \in Message, net' = Sent(e, msg) \/ net' = net,
           msg.type = "VERIFY" => msg.id = end[e].node, msg.type # "SyncRsp"
    PROVE  IInv'
  <1>1. Types /\ Owns /\ Pairs /\ Nets /\ Inbounds /\ Lists /\ Queues
    BY Zenon DEF IInv
  <1>2. end' \in [Ends -> End] /\ Owns' /\ Pairs' /\ Lists' /\ UpKept
    BY FlagsKeep, ZenonT(60)
  <1>3. end[e].phase = "up" /\ end[Other(e)].phase = "up" => Right(Other(e), msg)
    BY <1>1, Zenon DEF Pairs, Links, Right
  <1>4. net' \in [Ends -> Seq(Message)] /\ Nets'
    <2>1. CASE net' = net
      BY <1>1, <1>2, <2>1, NetsSame, Zenon DEF Types
    <2>2. CASE net' = Sent(e, msg)
      BY <1>1, <1>2, <1>3, <2>2, NetsSent, Zenon
    <2> QED BY <2>1, <2>2, Zenon
  <1>5. Inbounds'
    BY <1>1, <1>2, InboundsSame, Zenon
  <1>6. Types' /\ Queues'
    BY <1>1, <1>2, <1>4, Zenon DEF Types, Queues
  <1> QED BY <1>2, <1>4, <1>5, <1>6, Zenon DEF IInv

LEMMA EndTyped == ASSUME IInv, NEW e \in Ends PROVE end[e] \in End
  BY DEF IInv, Types

LEMMA sendVerifyKeeps == ASSUME IInv, NEW e \in Ends, sendVerify(e) PROVE IInv'
  <1> DEFINE r == [end[e] EXCEPT !.greeted = TRUE]
             msg == Verify(end[e].node)
  <1>1. /\ end' = [end EXCEPT ![e] = r] /\ net' = Sent(e, msg) /\ end[e].phase = "up"
        /\ UNCHANGED <<cluster, inbound, remoteNodes, joinQueue>>
    BY DEF sendVerify, nodeVars
  <1>2. /\ r \in End /\ r.phase = end[e].phase /\ r.node = end[e].node /\ r.addr = end[e].addr
        /\ r.id = end[e].id /\ r.state = end[e].state /\ r.adding = end[e].adding
    BY EndTyped, ZenonT(60) DEF End
  <1>3. end[e].node \in Nodes
    BY <1>1 DEF IInv, Owns, Sound
  <1>4. msg \in Message /\ msg.type = "VERIFY" /\ msg.id = end[e].node
    BY <1>3, Zenon DEF Verify, Message
  <1> HIDE DEF r, msg
  <1> QED BY <1>1, <1>2, <1>4, SendKeeps, Zenon

LEMMA SyncKeeps == ASSUME IInv, NEW e \in Ends, SyncSend(e) \/ SyncGiveUp(e) PROVE IInv'
  <1> DEFINE r == [end[e] EXCEPT !.asking = FALSE]
             msg == SyncReq
  <1>1. /\ end' = [end EXCEPT ![e] = r]
        /\ net' = Sent(e, msg) \/ net' = net
        /\ UNCHANGED <<cluster, inbound, remoteNodes, joinQueue>>
    BY Zenon DEF SyncSend, SyncGiveUp, nodeVars
  <1>2. /\ r \in End /\ r.phase = end[e].phase /\ r.node = end[e].node /\ r.addr = end[e].addr
        /\ r.id = end[e].id /\ r.state = end[e].state /\ r.adding = end[e].adding
    BY EndTyped, ZenonT(60) DEF End
  <1>3. msg \in Message /\ msg.type = "SyncReq"
    BY Zenon DEF SyncReq, Message
  <1> HIDE DEF r, msg
  <1> QED BY <1>1, <1>2, <1>3, SendKeeps, Zenon
=============================================================================
