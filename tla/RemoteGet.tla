----------------------------- MODULE RemoteGet ------------------------------
(***************************************************************************)
(* ClusteredBigCache.Get for a key the calling node does not hold: the     *)
(* request to every active member, the answers, and the timeout            *)
(* (Cluster/clusteredBigCache.go, Cluster/remoteNode.go).                  *)
(*                                                                         *)
(* One node, the origin, runs several Gets at a time.  Each hands one      *)
(* request per active member to getRequestChan; the sender goroutines take *)
(* them from there, note them in pendingGet and send them.  A member       *)
(* answers every request, with no data when it does not hold the key.      *)
(* replyChan has no buffer: an answer is taken only by a Get that has      *)
(* reached its select.  The members' caches may change at any time, so     *)
(* that a request finds any value under its key, or none.                  *)
(***************************************************************************)
EXTENDS Naturals, Sequences

CONSTANTS Peers, PassivePeers,   \* nodes that may be members; the passive ones
          Gets,                  \* calls of Get
          Senders,               \* requestSenderForGET goroutines
          Keys, Values,
          Empty,                 \* the value of no bytes
          None

ASSUME RemoteGetAssumption ==
    /\ PassivePeers \subseteq Peers
    /\ Empty \in Values /\ None \notin Values
    /\ None \notin Peers

VARIABLES members,         \* the remoteNodes of the origin
          get,             \* each Get: pc, key, peers still to be asked, result
          getRequestChan,
          sender,          \* the request each sender has noted and not yet sent
          pendingGet,      \* per member: pending key -> the Get it belongs to
          requests, responses    \* per connection, in order

channels == <<getRequestChan, sender, requests>>
vars == <<members, get, channels, pendingGet, responses>>

Request == [peer : Peers, get : Gets]
Idle == [peer |-> None, get |-> None]

\* The bytes a member has stored under a key.
Data == [key : Keys, val : Values]

\* One pending request per connection, whatever its key.
MutPendingKeyShared(g) == <<None, None>>

\* key + randStr with the random part left out.
MutPendingKeyNoRandom(g) == <<get[g].key, None>>

\* key + randStr: every call draws a random string of its own.
PendingKey(g) == <<get[g].key, g>>

(* The types; an answered Get has data, an unanswered one has none. *)
RemoteGetTypeOK ==
    /\ members \subseteq Peers
    /\ \A g \in Gets :
         /\ get[g].pc \in {"start", "asking", "waiting", "local", "answered",
                          "notfound", "timedout"}
         /\ get[g].key \in Keys \union {None}
         /\ get[g].todo \subseteq Peers
         /\ IF get[g].pc = "answered" THEN get[g].data \in Data ELSE get[g].data = None
    /\ getRequestChan \in Seq(Request)
    /\ sender \in [Senders -> Request \union {Idle}]
    /\ \A p \in Peers : \A pk \in DOMAIN pendingGet[p] : pendingGet[p][pk] \in Gets

-----------------------------------------------------------------------------
(* Get *)

\* The origin is active and holds the key itself.
GetLocal(g) ==
    /\ get[g].pc = "start"
    /\ get' = [get EXCEPT ![g].pc = "local"]
    /\ UNCHANGED <<members, channels, pendingGet, responses>>

\* It does not; no member at all is ErrNotFound.
GetStart(g, key) ==
    /\ get[g].pc = "start"
    /\ get' = [get EXCEPT ![g] =
         IF members = {} THEN [@ EXCEPT !.pc = "notfound"]
         ELSE [@ EXCEPT !.pc = "asking", !.key = key, !.todo = members \ PassivePeers]]
    /\ UNCHANGED <<members, channels, pendingGet, responses>>

GetAsk(g) ==
    /\ get[g].pc = "asking"
    /\ \E p \in get[g].todo :
         /\ getRequestChan' = Append(getRequestChan, [peer |-> p, get |-> g])
         /\ get' = [get EXCEPT ![g].todo = @ \ {p}]
    /\ UNCHANGED <<members, sender, requests, pendingGet, responses>>

GetWait(g) ==
    /\ get[g].pc = "asking"
    /\ get[g].todo = {}
    /\ get' = [get EXCEPT ![g].pc = "waiting"]
    /\ UNCHANGED <<members, channels, pendingGet, responses>>

\* There is no timeout case in the select.
MutGetTimeout(g) == FALSE /\ UNCHANGED vars

GetTimeout(g) ==
    /\ get[g].pc = "waiting"
    /\ get' = [get EXCEPT ![g].pc = "timedout"]
    /\ UNCHANGED <<members, channels, pendingGet, responses>>

-----------------------------------------------------------------------------
(* requestSenderForGET and getData, on connections that are up *)

SenderTake(s) ==
    /\ sender[s] = Idle
    /\ getRequestChan # <<>>
    /\ LET r == Head(getRequestChan) IN
         /\ sender' = [sender EXCEPT ![s] = r]
         /\ pendingGet' = [pendingGet EXCEPT ![r.peer] =
              [pk \in DOMAIN @ \union {PendingKey(r.get)} |->
                 IF pk = PendingKey(r.get) THEN r.get ELSE @[pk]]]
    /\ getRequestChan' = Tail(getRequestChan)
    /\ UNCHANGED <<members, get, requests, responses>>

SenderSend(s) ==
    /\ sender[s] # Idle
    /\ requests' = [requests EXCEPT ![sender[s].peer] = Append(@, sender[s].get)]
    /\ sender' = [sender EXCEPT ![s] = Idle]
    /\ UNCHANGED <<members, get, getRequestChan, pendingGet, responses>>

-----------------------------------------------------------------------------
(* The members *)

\* A value of no bytes and an absent key are the same answer on the wire.
Wire(key, val) == IF val \in {Empty, None} THEN None ELSE [key |-> key, val |-> val]

handleGetRequest(p) ==
    /\ requests[p] # <<>>
    /\ LET g == Head(requests[p]) IN
         \E val \in Values \union {None} :
           responses' = [responses EXCEPT ![p] =
             Append(@, [pendingKey |-> PendingKey(g), data |-> Wire(get[g].key, val)])]
    /\ requests' = [requests EXCEPT ![p] = Tail(@)]
    /\ UNCHANGED <<members, get, getRequestChan, sender, pendingGet>>

\* The select has no default case: the handler waits for a receiver.
MutOffer(g, data) ==
    /\ get[g].pc = "waiting"
    /\ get' = [get EXCEPT ![g].pc = "answered", ![g].data = data]

\* The select: hand the answer over when the Get is waiting, else drop it, also
\* when the Get is still handing out requests.
Offer(g, data) ==
    IF get[g].pc = "waiting"
      THEN get' = [get EXCEPT ![g].pc = "answered", ![g].data = data]
      ELSE UNCHANGED get

HasData(data) == data # None

handleGetResponse(p) ==
    /\ responses[p] # <<>>
    /\ responses' = [responses EXCEPT ![p] = Tail(@)]
    /\ LET rsp == Head(responses[p])
           found == rsp.pendingKey \in DOMAIN pendingGet[p]
       IN  /\ pendingGet' = [pendingGet EXCEPT ![p] =
                [pk \in DOMAIN @ \ {rsp.pendingKey} |-> @[pk]]]
           /\ IF found /\ HasData(rsp.data)
                THEN Offer(pendingGet[p][rsp.pendingKey], rsp.data)
                ELSE UNCHANGED get
    /\ UNCHANGED <<members, channels>>

-----------------------------------------------------------------------------
Init ==
    /\ members \in SUBSET Peers
    /\ get = [g \in Gets |-> [pc |-> "start", key |-> None, todo |-> {}, data |-> None]]
    /\ getRequestChan = <<>>
    /\ sender = [s \in Senders |-> Idle]
    /\ pendingGet = [p \in Peers |-> <<>>]
    /\ requests = [p \in Peers |-> <<>>]
    /\ responses = [p \in Peers |-> <<>>]

GetCall(g) == GetLocal(g) \/ \E key \in Keys : GetStart(g, key)

Next ==
    \/ \E g \in Gets : GetCall(g) \/ GetAsk(g) \/ GetWait(g) \/ GetTimeout(g)
    \/ \E s \in Senders : SenderTake(s) \/ SenderSend(s)
    \/ \E p \in Peers : handleGetRequest(p) \/ handleGetResponse(p)

Spec == Init /\ [][Next]_vars

\* Every goroutine that can go on does, and time passes; the application need
\* not call.
Fairness ==
    /\ \A g \in Gets : WF_vars(GetAsk(g) \/ GetWait(g) \/ GetTimeout(g))
    /\ \A s \in Senders : WF_vars(SenderTake(s) \/ SenderSend(s))
    /\ \A p \in Peers : WF_vars(handleGetRequest(p)) /\ WF_vars(handleGetResponse(p))

FairSpec == Spec /\ Fairness

-----------------------------------------------------------------------------
(* Properties *)

\* The Gets whose request to p has been noted and not yet answered.
Outstanding(p) ==
    {g \in Gets :
       \/ \E s \in Senders : sender[s] = [peer |-> p, get |-> g]
       \/ \E i \in 1 .. Len(requests[p]) : requests[p][i] = g
       \/ \E i \in 1 .. Len(responses[p]) : responses[p][i].pendingKey = PendingKey(g)}

(* pendingGet of a connection holds exactly the requests getData has noted *)
(* and handleGetResponse has not yet seen an answer to: no answer can miss *)
(* its entry, none finds the entry of another Get, and none is left over.  *)
PendingMatchesRequests ==
    \A p \in Peers :
        pendingGet[p] = [pk \in {PendingKey(g) : g \in Outstanding(p)} |->
                           CHOOSE g \in Outstanding(p) : PendingKey(g) = pk]

(* With any number of Gets under way, a Get returns only data a member had *)
(* stored under the key it asked for, whatever order the answers to the    *)
(* others come in.                                                         *)
AnswerIsForTheKey ==
    \A g \in Gets : get[g].pc = "answered" => get[g].data.key = get[g].key

(* Get always returns, however few of the members answer with data: again  *)
(* and again no Get is under way.                                          *)
EveryGetReturns == []<>(\A g \in Gets : get[g].pc \notin {"asking", "waiting"})

(* An answer nobody waits for never holds up the connection's message      *)
(* handler: what follows it is handled, so that again and again nothing is *)
(* left to be handled.                                                     *)
ResponsesDrain == []<>(\A p \in Peers : responses[p] = <<>>)
=============================================================================
