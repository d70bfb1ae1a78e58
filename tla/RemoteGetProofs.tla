-------------------------- MODULE RemoteGetProofs ---------------------------
(***************************************************************************)
(* For any numbers of members, Gets and senders, and any keys and values:  *)
(* a remote Get returns data stored under its own key, and pendingGet      *)
(* holds exactly the requests that are under way.                          *)
(*                                                                         *)
(* The first is not inductive: whether an answer is the right one was      *)
(* decided when the request was noted in pendingGet and when the member    *)
(* answered it.  The invariant follows a request along its way: a Get that *)
(* is named in any channel has chosen its key, every entry of pendingGet   *)
(* is filed under the pending key of its own Get, and every answer carries *)
(* the pending key of a Get whose key is the one the data is stored under. *)
(* For the second, OnceInv adds that the request of a Get to a member is   *)
(* in one place at a time, and there once.                                 *)
(***************************************************************************)
EXTENDS RemoteGet, TLAPS

States == {"start", "asking", "waiting", "local", "answered", "notfound", "timedout"}

Call == [pc : States, key : Keys \union {None}, todo : SUBSET Peers, data : Data \union {None}]

\* The types as the steps need them: with the domains of the functions.
Types ==
    /\ members \subseteq Peers
    /\ get \in [Gets -> Call]
    /\ getRequestChan \in Seq(Request)
    /\ sender \in [Senders -> Request \union {Idle}]
    /\ DOMAIN pendingGet = Peers
    /\ requests \in [Peers -> Seq(Gets)]
    /\ DOMAIN responses = Peers

\* The Get has chosen its key.
Started(g) == g \in Gets /\ get[g].pc # "start" /\ get[g].key \in Keys

\* Data is there when the Get has been answered, and is its key's; a Get that
\* can still be answered has chosen its key.
AnswersRight ==
    \A g \in Gets :
        /\ IF get[g].pc = "answered" THEN get[g].data \in Data /\ get[g].data.key = get[g].key
           ELSE get[g].data = None
        /\ get[g].pc \in {"asking", "waiting"} => get[g].key \in Keys

ChannelsStarted ==
    /\ \A i \in 1 .. Len(getRequestChan) : Started(getRequestChan[i].get)
    /\ \A s \in Senders : sender[s] # Idle => Started(sender[s].get)
    /\ \A p \in Peers : \A i \in 1 .. Len(requests[p]) : Started(requests[p][i])

PendingRight ==
    \A p \in Peers : \A pk \in DOMAIN pendingGet[p] :
        Started(pendingGet[p][pk]) /\ pk = PendingKey(pendingGet[p][pk])

Answer == [pendingKey : (Keys \union {None}) \X Gets, data : Data \union {None}]

\* What the answer carries belongs to the Get it names.
RightAnswer(rsp) ==
    \E g \in Gets : /\ Started(g)
                    /\ rsp.pendingKey = PendingKey(g)
                    /\ rsp.data # None => rsp.data \in Data /\ rsp.data.key = get[g].key

ResponsesRight ==
    \A p \in Peers : /\ responses[p] \in Seq(Answer)
                     /\ \A i \in 1 .. Len(responses[p]) : RightAnswer(responses[p][i])

IInv == Types /\ AnswersRight /\ ChannelsStarted /\ PendingRight /\ ResponsesRight

-----------------------------------------------------------------------------
LEMMA AppendElements ==
    ASSUME NEW S, NEW s \in Seq(S), NEW e \in S
    PROVE  /\ Append(s, e) \in Seq(S)
           /\ \A i \in 1 .. Len(Append(s, e)) : Append(s, e)[i] = e \/ \E j \in 1 .. Len(s) : Append(s, e)[i] = s[j]
  OBVIOUS

LEMMA TailElements ==
    ASSUME NEW S, NEW s \in Seq(S), s # <<>>
    PROVE  /\ Head(s) \in S /\ 1 \in 1 .. Len(s) /\ Head(s) = s[1]
           /\ Tail(s) \in Seq(S)
           /\ \A i \in 1 .. Len(Tail(s)) : \E j \in 1 .. Len(s) : Tail(s)[i] = s[j]
  <1>1. /\ Head(s) \in S /\ 1 \in 1 .. Len(s) /\ Head(s) = s[1] /\ Tail(s) \in Seq(S)
    OBVIOUS
  <1>2. \A i \in 1 .. Len(Tail(s)) : i + 1 \in 1 .. Len(s) /\ Tail(s)[i] = s[i + 1]
    OBVIOUS
  <1> QED BY <1>1, <1>2

\* A step that changes no Get's key and starts none anew keeps what is known of
\* the pending keys of those that have started.
KeysKept ==
    \A g \in Gets : Started(g) => Started(g)' /\ get'[g].key = get[g].key

LEMMA KeptResponses ==
    ASSUME ResponsesRight, KeysKept, UNCHANGED responses
    PROVE  ResponsesRight'
  BY DEF ResponsesRight, KeysKept, RightAnswer, PendingKey, Started

LEMMA KeptPending ==
    ASSUME PendingRight, KeysKept, UNCHANGED pendingGet
    PROVE  PendingRight'
  <1> SUFFICES ASSUME NEW p \in Peers, NEW pk \in DOMAIN pendingGet[p]
               PROVE  Started(pendingGet[p][pk])' /\ pk = PendingKey(pendingGet[p][pk])'
    BY DEF PendingRight
  <1> Started(pendingGet[p][pk]) /\ pk = PendingKey(pendingGet[p][pk])
    BY DEF PendingRight
  <1> QED BY DEF KeysKept, PendingKey, Started

LEMMA KeptChannels ==
    ASSUME ChannelsStarted, KeysKept, UNCHANGED channels
    PROVE  ChannelsStarted'
  BY DEF ChannelsStarted, KeysKept, Started, channels

-----------------------------------------------------------------------------
LEMMA InitInv == Init => IInv
  BY DEF Init, IInv, Types, AnswersRight, ChannelsStarted, PendingRight, ResponsesRight,
         Call, States, Request, Idle

LEMMA GetCallInv == ASSUME IInv, NEW g \in Gets, GetCall(g) PROVE IInv' /\ KeysKept
  <1>1. Types' /\ AnswersRight' /\ KeysKept /\ UNCHANGED <<channels, pendingGet, responses>>
    <2>1. CASE GetLocal(g)
      BY <2>1, ZenonT(60) DEF GetLocal, IInv, Types, AnswersRight, KeysKept, Started, channels, Call, States
    <2>2. CASE \E key \in Keys : GetStart(g, key)
      <3> PICK key \in Keys : GetStart(g, key)
        BY <2>2
      <3> DEFINE next == IF members = {} THEN [get[g] EXCEPT !.pc = "notfound"]
                         ELSE [get[g] EXCEPT !.pc = "asking", !.key = key, !.todo = members \ PassivePeers]
      <3>1. get' = [get EXCEPT ![g] = next] /\ get[g].pc = "start"
        BY DEF GetStart
      <3>2. next \in Call /\ next.pc # "start" /\ next.pc # "answered" /\ next.data = get[g].data
            /\ (next.pc = "asking" => next.key \in Keys) /\ next.pc # "waiting"
        BY ZenonT(60) DEF IInv, Types, Call, States
      <3> HIDE DEF next
      <3>3. UNCHANGED <<members, channels, pendingGet, responses>>
        BY DEF GetStart
      <3>4. get' \in [Gets -> Call] /\ get'[g] = next /\ \A h \in Gets \ {g} : get'[h] = get[h]
        BY <3>1, <3>2 DEF IInv, Types
      <3>5. Types'
        BY <3>3, <3>4 DEF IInv, Types, channels
      <3>6. AnswersRight' /\ KeysKept
        BY <3>1, <3>2, <3>4 DEF IInv, AnswersRight, KeysKept, Started
      <3> QED BY <3>3, <3>5, <3>6 DEF channels
    <2> QED BY <2>1, <2>2 DEF GetCall
  <1> QED BY <1>1, KeptResponses, KeptPending, KeptChannels DEF IInv

LEMMA GetAskInv == ASSUME IInv, NEW g \in Gets, GetAsk(g) PROVE IInv' /\ KeysKept
  <1> USE DEF IInv
  <1> PICK p \in get[g].todo : /\ getRequestChan' = Append(getRequestChan, [peer |-> p, get |-> g])
                               /\ get' = [get EXCEPT ![g].todo = @ \ {p}]
    BY Zenon DEF GetAsk
  <1>1. p \in Peers /\ [peer |-> p, get |-> g] \in Request
    BY DEF Types, Call, Request
  <1>2. UNCHANGED <<members, sender, requests, pendingGet, responses>>
    BY DEF GetAsk
  <1>3. Types' /\ AnswersRight' /\ KeysKept
    <2>1. getRequestChan' \in Seq(Request)
      BY <1>1, AppendElements DEF Types
    <2>2. get' \in [Gets -> Call]
      BY ZenonT(60) DEF Types, Call
    <2>3. \A h \in Gets : get'[h].pc = get[h].pc /\ get'[h].key = get[h].key /\ get'[h].data = get[h].data
      BY DEF Types, Call
    <2> QED BY <1>2, <2>1, <2>2, <2>3 DEF Types, AnswersRight, KeysKept, Started
  <1>4. ChannelsStarted'
    <2>1. Started(g)'
      BY DEF GetAsk, Types, Call, Started, AnswersRight
    <2>2. \A i \in 1 .. Len(getRequestChan') : Started(getRequestChan[i].get)'
      <3> TAKE i \in 1 .. Len(getRequestChan')
      <3>1. getRequestChan'[i] = [peer |-> p, get |-> g] \/ \E j \in 1 .. Len(getRequestChan) : getRequestChan'[i] = getRequestChan[j]
        BY <1>1, AppendElements DEF Types
      <3>2. CASE getRequestChan'[i] = [peer |-> p, get |-> g]
        BY <2>1, <3>2 DEF Started
      <3>3. CASE \E j \in 1 .. Len(getRequestChan) : getRequestChan'[i] = getRequestChan[j]
        BY <3>3, <1>3, Zenon DEF ChannelsStarted, KeysKept, Started
      <3> QED BY <3>1, <3>2, <3>3
    <2>3. \A h \in Gets : Started(h) => Started(h)'
      BY <1>3 DEF KeysKept
    <2>4. \A t \in Senders : sender'[t] # Idle => Started(sender[t].get)'
      BY <1>2, <2>3, Zenon DEF ChannelsStarted, Started
    <2>5. \A q \in Peers : \A i \in 1 .. Len(requests'[q]) : Started(requests[q][i])'
      BY <1>2, <2>3, Zenon DEF ChannelsStarted, Started
    <2> QED BY <2>2, <2>4, <2>5 DEF ChannelsStarted
  <1> QED BY <1>2, <1>3, <1>4, KeptResponses, KeptPending

LEMMA GetReturnInv == ASSUME IInv, NEW g \in Gets, GetWait(g) \/ GetTimeout(g) PROVE IInv' /\ KeysKept
  <1>1. Types' /\ AnswersRight' /\ KeysKept /\ UNCHANGED <<channels, pendingGet, responses>>
    <2> PICK pc \in {"waiting", "timedout"} : get' = [get EXCEPT ![g].pc = pc]
      BY DEF GetWait, GetTimeout
    <2>1. get[g].pc \in {"asking", "waiting"} /\ UNCHANGED <<members, channels, pendingGet, responses>>
      BY DEF GetWait, GetTimeout
    <2>2. get' \in [Gets -> Call]
      BY ZenonT(60) DEF IInv, Types, Call, States
    <2>3. /\ get'[g].pc = pc /\ get'[g].key = get[g].key /\ get'[g].data = get[g].data
          /\ \A h \in Gets \ {g} : get'[h] = get[h]
      BY DEF IInv, Types, Call
    <2>4. Types'
      BY <2>1, <2>2 DEF IInv, Types, channels
    <2>5. AnswersRight' /\ KeysKept
      BY <2>1, <2>3 DEF IInv, AnswersRight, KeysKept, Started
    <2> QED BY <2>1, <2>4, <2>5 DEF channels
  <1> QED BY <1>1, KeptResponses, KeptPending, KeptChannels DEF IInv

LEMMA SenderTakeInv == ASSUME IInv, NEW s \in Senders, SenderTake(s) PROVE IInv' /\ KeysKept
  <1> USE DEF IInv
  <1> DEFINE r == Head(getRequestChan)
  <1>1. /\ r \in Request /\ Started(r.get) /\ getRequestChan' = Tail(getRequestChan)
        /\ Tail(getRequestChan) \in Seq(Request)
        /\ \A i \in 1 .. Len(getRequestChan') : \E j \in 1 .. Len(getRequestChan) : getRequestChan'[i] = getRequestChan[j]
    <2>1. getRequestChan \in Seq(Request) /\ getRequestChan # <<>> /\ getRequestChan' = Tail(getRequestChan)
      BY DEF SenderTake, Types
    <2>2. /\ r \in Request /\ 1 \in 1 .. Len(getRequestChan) /\ r = getRequestChan[1]
          /\ Tail(getRequestChan) \in Seq(Request)
          /\ \A i \in 1 .. Len(Tail(getRequestChan)) : \E j \in 1 .. Len(getRequestChan) : Tail(getRequestChan)[i] = getRequestChan[j]
      BY <2>1, TailElements
    <2> QED BY <2>1, <2>2, Zenon DEF ChannelsStarted
  <1>2. r.peer \in Peers /\ r.get \in Gets
    BY <1>1 DEF Request
  <1>3. /\ sender' = [sender EXCEPT ![s] = r] /\ UNCHANGED <<members, get, requests, responses>>
        /\ pendingGet' = [pendingGet EXCEPT ![r.peer] =
              [pk \in DOMAIN pendingGet[r.peer] \union {PendingKey(r.get)} |->
                 IF pk = PendingKey(r.get) THEN r.get ELSE pendingGet[r.peer][pk]]]
    BY DEF SenderTake
  <1>4. Types' /\ AnswersRight' /\ KeysKept
    BY <1>1, <1>2, <1>3, Zenon DEF Types, AnswersRight, KeysKept, Started
  <1>5. ChannelsStarted'
    BY <1>1, <1>3, ZenonT(60) DEF ChannelsStarted, Started, Types
  <1>6. PendingRight'
    <2> SUFFICES ASSUME NEW p \in Peers, NEW pk \in DOMAIN pendingGet'[p]
                 PROVE  Started(pendingGet'[p][pk]) /\ pk = PendingKey(pendingGet'[p][pk])
      BY <1>3, ZenonT(60) DEF PendingRight, Started, PendingKey
    <2>1. CASE p # r.peer
      BY <2>1, <1>3 DEF PendingRight, Types
    <2>2. CASE p = r.peer
      <3>1. pendingGet'[p] = [k \in DOMAIN pendingGet[p] \union {PendingKey(r.get)} |->
                 IF k = PendingKey(r.get) THEN r.get ELSE pendingGet[p][k]]
        BY <2>2, <1>2, <1>3, Zenon DEF Types
      <3>2. CASE pk = PendingKey(r.get)
        BY <3>1, <3>2, <1>1
      <3>3. CASE pk # PendingKey(r.get)
        BY <3>1, <3>3 DEF PendingRight
      <3> QED BY <3>2, <3>3
    <2> QED BY <2>1, <2>2
  <1> QED BY <1>3, <1>4, <1>5, <1>6, KeptResponses

LEMMA SenderSendInv == ASSUME IInv, NEW s \in Senders, SenderSend(s) PROVE IInv' /\ KeysKept
  <1> USE DEF IInv
  <1> DEFINE p == sender[s].peer
             g == sender[s].get
  <1>1. p \in Peers /\ Started(g) /\ g \in Gets
    BY Zenon DEF SenderSend, Types, ChannelsStarted, Request, Started
  <1>2. /\ requests' = [requests EXCEPT ![p] = Append(requests[p], g)]
        /\ sender' = [sender EXCEPT ![s] = Idle]
        /\ UNCHANGED <<members, get, getRequestChan, pendingGet, responses>>
    BY DEF SenderSend
  <1> HIDE DEF p, g
  <1>3. /\ Append(requests[p], g) \in Seq(Gets)
        /\ \A i \in 1 .. Len(Append(requests[p], g)) : Append(requests[p], g)[i] = g
                                                   \/ \E j \in 1 .. Len(requests[p]) : Append(requests[p], g)[i] = requests[p][j]
    <2>1. requests[p] \in Seq(Gets)
      BY <1>1, Zenon DEF Types
    <2> DEFINE r == requests[p]
    <2> HIDE DEF r
    <2>2. r \in Seq(Gets)
      BY <2>1 DEF r
    <2>3. /\ Append(r, g) \in Seq(Gets)
          /\ \A i \in 1 .. Len(Append(r, g)) : Append(r, g)[i] = g \/ \E j \in 1 .. Len(r) : Append(r, g)[i] = r[j]
      BY ONLY <1>1, <2>2, AppendElements, SMTT(30)
    <2> QED BY <2>3, Zenon DEF r
  <1>4. Types' /\ AnswersRight' /\ KeysKept
    BY <1>1, <1>2, <1>3 DEF Types, AnswersRight, KeysKept, Started
  <1>5. ChannelsStarted'
    <2>1. \A q \in Peers : \A i \in 1 .. Len(requests'[q]) : Started(requests'[q][i])
      BY <1>1, <1>2, <1>3 DEF Types, ChannelsStarted
    <2>2. \A t \in Senders : sender'[t] # Idle => Started(sender'[t].get)
      BY <1>2 DEF Types, ChannelsStarted
    <2> QED BY <1>2, <2>1, <2>2, Zenon DEF ChannelsStarted, Started
  <1> QED BY <1>2, <1>4, <1>5, KeptResponses, KeptPending

LEMMA RequestInv == ASSUME IInv, NEW p \in Peers, handleGetRequest(p) PROVE IInv' /\ KeysKept
  <1> USE DEF IInv
  <1> DEFINE g == Head(requests[p])
  <1>1. requests[p] \in Seq(Gets) /\ requests[p] # <<>>
    BY DEF handleGetRequest, Types
  <1>2. /\ g \in Gets /\ Started(g) /\ Tail(requests[p]) \in Seq(Gets)
        /\ \A i \in 1 .. Len(Tail(requests[p])) : Started(Tail(requests[p])[i])
    BY <1>1, TailElements DEF ChannelsStarted
  <1>3. PICK val \in Values \union {None} :
          responses' = [responses EXCEPT ![p] =
             Append(responses[p], [pendingKey |-> PendingKey(g), data |-> Wire(get[g].key, val)])]
    BY Zenon DEF handleGetRequest
  <1>4. requests' = [requests EXCEPT ![p] = Tail(requests[p])] /\ UNCHANGED <<members, get, getRequestChan, sender, pendingGet>>
    BY DEF handleGetRequest
  <1> DEFINE rsp == [pendingKey |-> PendingKey(g), data |-> Wire(get[g].key, val)]
  <1> HIDE DEF g
  <1>5. get[g].key \in Keys
    BY <1>2, SMTT(30) DEF Types, Call, Started
  <1>6. rsp \in Answer /\ RightAnswer(rsp)
    <2>1. Wire(get[g].key, val) # None => Wire(get[g].key, val) \in Data /\ Wire(get[g].key, val).key = get[g].key
      <3>1. CASE val \in {Empty, None}
        BY <3>1 DEF Wire
      <3>2. CASE val \notin {Empty, None}
        <4>1. Wire(get[g].key, val) = [key |-> get[g].key, val |-> val]
          BY <3>2 DEF Wire
        <4>2. [key |-> get[g].key, val |-> val] \in Data
          BY <3>2, <1>5 DEF Data
        <4> QED BY <4>1, <4>2
      <3> QED BY <3>1, <3>2
    <2> QED BY <1>2, <1>5, <2>1 DEF Answer, RightAnswer, PendingKey
  <1> HIDE DEF rsp
  <1>7. /\ Append(responses[p], rsp) \in Seq(Answer)
        /\ \A i \in 1 .. Len(Append(responses[p], rsp)) : RightAnswer(Append(responses[p], rsp)[i])
    BY <1>6, AppendElements DEF ResponsesRight
  <1>8. responses' = [responses EXCEPT ![p] = Append(responses[p], rsp)]
    BY <1>3, SMTT(30) DEF rsp
  <1>9. Types' /\ AnswersRight' /\ KeysKept
    BY <1>2, <1>4, <1>8, Zenon DEF Types, AnswersRight, KeysKept, Started
  <1>10. ChannelsStarted'
    BY <1>2, <1>4, Zenon DEF ChannelsStarted, Started, Types
  <1>11. ResponsesRight'
    <2>1. \A q \in Peers : /\ responses'[q] \in Seq(Answer)
                          /\ \A i \in 1 .. Len(responses'[q]) : RightAnswer(responses'[q][i])
      BY <1>7, <1>8, SMTT(30) DEF ResponsesRight, Types
    <2> QED BY <2>1, <1>4, Zenon DEF ResponsesRight, RightAnswer, Started, PendingKey
  <1> QED BY <1>4, <1>9, <1>10, <1>11, KeptPending

LEMMA ResponseInv == ASSUME IInv, NEW p \in Peers, handleGetResponse(p) PROVE IInv' /\ KeysKept
  <1> USE DEF IInv
  <1> DEFINE rsp == Head(responses[p])
             g == pendingGet[p][rsp.pendingKey]
  <1>1. responses[p] \in Seq(Answer) /\ responses[p] # <<>>
    BY DEF handleGetResponse, ResponsesRight
  <1>2. /\ RightAnswer(rsp) /\ Tail(responses[p]) \in Seq(Answer)
        /\ \A i \in 1 .. Len(Tail(responses[p])) : RightAnswer(Tail(responses[p])[i])
    BY <1>1, TailElements DEF ResponsesRight
  <1>3. /\ responses' = [responses EXCEPT ![p] = Tail(responses[p])]
        /\ pendingGet' = [pendingGet EXCEPT ![p] =
                [pk \in DOMAIN pendingGet[p] \ {rsp.pendingKey} |-> pendingGet[p][pk]]]
        /\ UNCHANGED <<members, channels>>
    BY SMTT(30) DEF handleGetResponse
  <1>4. \/ UNCHANGED get
        \/ /\ rsp.pendingKey \in DOMAIN pendingGet[p] /\ rsp.data # None /\ get[g].pc = "waiting"
           /\ get' = [get EXCEPT ![g].pc = "answered", ![g].data = rsp.data]
    BY ZenonT(60) DEF handleGetResponse, Offer, HasData
  <1>5. get' \in [Gets -> Call] /\ AnswersRight' /\ KeysKept
    <2>1. CASE UNCHANGED get
      BY <2>1 DEF Types, AnswersRight, KeysKept, Started
    <2>2. CASE /\ rsp.pendingKey \in DOMAIN pendingGet[p] /\ rsp.data # None /\ get[g].pc = "waiting"
               /\ get' = [get EXCEPT ![g].pc = "answered", ![g].data = rsp.data]
      <3>1. Started(g) /\ rsp.pendingKey = PendingKey(g)
        BY <2>2, Zenon DEF PendingRight
      <3>2. rsp.data \in Data /\ rsp.data.key = get[g].key
        <4> PICK h \in Gets : rsp.pendingKey = PendingKey(h) /\ (rsp.data # None => rsp.data \in Data /\ rsp.data.key = get[h].key)
          BY <1>2, SMTT(30) DEF RightAnswer
        <4>1. g = h
          BY ONLY <3>1, rsp.pendingKey = PendingKey(h), SMTT(30) DEF PendingKey
        <4> QED BY <2>2, <4>1, Zenon
      <3> HIDE DEF rsp, g
      <3>3. get[g] \in Call /\ g \in Gets
        BY <3>1 DEF Types, Started
      <3>4. /\ get' = [get EXCEPT ![g] = [get[g] EXCEPT !.pc = "answered", !.data = rsp.data]]
        BY <2>2, Zenon
      <3>5. [get[g] EXCEPT !.pc = "answered", !.data = rsp.data] \in Call
        BY <3>2, <3>3, Zenon DEF Call, States
      <3>6. get' \in [Gets -> Call]
        BY <3>3, <3>4, <3>5 DEF Types
      <3>7. /\ get'[g].pc = "answered" /\ get'[g].key = get[g].key /\ get'[g].data = rsp.data
            /\ \A h \in Gets \ {g} : get'[h] = get[h]
        BY <3>3, <3>4 DEF Types, Call
      <3> QED BY <2>2, <3>2, <3>6, <3>7, SMTT(30) DEF AnswersRight, KeysKept, Started
    <2> QED BY <1>4, <2>1, <2>2, Zenon
  <1> HIDE DEF rsp, g
  <1>6. Types'
    BY <1>3, <1>5 DEF Types, channels
  <1>7. PendingRight'
    <2> SUFFICES ASSUME NEW q \in Peers, NEW pk \in DOMAIN pendingGet'[q]
                 PROVE  Started(pendingGet[q][pk])' /\ pk = PendingKey(pendingGet[q][pk])'
      BY DEF PendingRight
    <2>1. pk \in DOMAIN pendingGet[q] /\ pendingGet'[q][pk] = pendingGet[q][pk]
      <3>1. CASE q # p
        BY <3>1, <1>3 DEF Types
      <3>2. CASE q = p
        <4>1. pendingGet'[p] = [k \in DOMAIN pendingGet[p] \ {rsp.pendingKey} |-> pendingGet[p][k]]
          BY <1>3 DEF Types
        <4> QED BY <3>2, <4>1
      <3> QED BY <3>1, <3>2
    <2>2. Started(pendingGet[q][pk]) /\ pk = PendingKey(pendingGet[q][pk])
      BY <2>1, SMTT(30) DEF PendingRight
    <2> QED BY <1>5, <2>1, <2>2, Zenon DEF KeysKept, PendingKey, Started
  <1>8. ResponsesRight'
    <2>1. \A q \in Peers : /\ responses'[q] \in Seq(Answer)
                          /\ \A i \in 1 .. Len(responses'[q]) : RightAnswer(responses'[q][i])
      BY <1>2, <1>3 DEF ResponsesRight, Types
    <2> QED BY <2>1, <1>5 DEF ResponsesRight, RightAnswer, KeysKept, Started, PendingKey
  <1> QED BY <1>3, <1>5, <1>6, <1>7, <1>8, KeptChannels

LEMMA NextInv == IInv /\ [Next]_vars => IInv' /\ KeysKept
  <1> SUFFICES ASSUME IInv, [Next]_vars PROVE IInv' /\ KeysKept
    OBVIOUS
  <1>1. CASE \E g \in Gets : GetCall(g) \/ GetAsk(g) \/ GetWait(g) \/ GetTimeout(g)
    BY <1>1, GetCallInv, GetAskInv, GetReturnInv
  <1>2. CASE \E s \in Senders : SenderTake(s) \/ SenderSend(s)
    BY <1>2, SenderTakeInv, SenderSendInv
  <1>3. CASE \E p \in Peers : handleGetRequest(p) \/ handleGetResponse(p)
    BY <1>3, RequestInv, ResponseInv
  <1>4. CASE UNCHANGED vars
    <2>1. KeysKept /\ UNCHANGED <<channels, pendingGet, responses>>
      BY <1>4 DEF KeysKept, Started, vars, channels
    <2>2. Types' /\ AnswersRight'
      BY <1>4 DEF IInv, Types, AnswersRight, vars, channels
    <2> QED BY <2>1, <2>2, KeptResponses, KeptPending, KeptChannels DEF IInv
  <1> QED BY <1>1, <1>2, <1>3, <1>4 DEF Next

-----------------------------------------------------------------------------
(* The types hold: Gets, requests and pending entries stay what they are,  *)
(* and a Get has data exactly when it has been answered (Get and           *)
(* handleGetResponse).                                                     *)
THEOREM RemoteGetTypeCorrect == Spec => []RemoteGetTypeOK
  <1>1. IInv => RemoteGetTypeOK
    <2> SUFFICES ASSUME IInv PROVE RemoteGetTypeOK
      OBVIOUS
    <2>1. \A p \in Peers : \A pk \in DOMAIN pendingGet[p] : pendingGet[p][pk] \in Gets
      BY DEF IInv, PendingRight, Started
    <2> QED BY <2>1 DEF IInv, Types, AnswersRight, Call, States, RemoteGetTypeOK
  <1> QED BY <1>1, InitInv, NextInv, PTL DEF Spec

(* However many Gets, members and senders there are, a Get returns data    *)
(* that a member had stored under the key it asked for (the pending key of *)
(* Get, getData and handleGetResponse).                                    *)
THEOREM AnswersMatchKeys == Spec => []AnswerIsForTheKey
  <1>1. IInv => AnswerIsForTheKey
    BY DEF IInv, AnswersRight, AnswerIsForTheKey
  <1> QED BY <1>1, InitInv, NextInv, PTL DEF Spec

-----------------------------------------------------------------------------
(* One request per member and Get *)

Elements(s) == {s[i] : i \in 1 .. Len(s)}
NoRepeats(s) == \A i, j \in 1 .. Len(s) : s[i] = s[j] => i = j

\* The Gets that answers name.
Named(s) == [i \in 1 .. Len(s) |-> s[i].pendingKey[2]]

\* Where a request can be, from the Get that is to hand it out to its answer.
Stages == {"todo", "queued", "noted", "sent", "answered"}

At(k, p, g) ==
    \/ k = "todo" /\ p \in get[g].todo
    \/ k = "queued" /\ [peer |-> p, get |-> g] \in Elements(getRequestChan)
    \/ k = "noted" /\ \E s \in Senders : sender[s] = [peer |-> p, get |-> g]
    \/ k = "sent" /\ g \in Elements(requests[p])
    \/ k = "answered" /\ g \in Elements(Named(responses[p]))

\* It is at one of them only, and there once.
OneStage ==
    \A p \in Peers, g \in Gets : \A k, l \in Stages : At(k, p, g) /\ At(l, p, g) => k = l

Distinct ==
    /\ NoRepeats(getRequestChan)
    /\ \A s, t \in Senders : sender[s] = sender[t] /\ sender[s] # Idle => s = t
    /\ \A p \in Peers : NoRepeats(requests[p]) /\ NoRepeats(Named(responses[p]))

\* The Gets a member is being asked for and whose answer has not been handled.
Asked(p) == {g \in Gets : At("noted", p, g) \/ At("sent", p, g) \/ At("answered", p, g)}

Noted ==
    \A p \in Peers :
        /\ pendingGet[p] \in [DOMAIN pendingGet[p] -> Gets]
        /\ DOMAIN pendingGet[p] = {PendingKey(g) : g \in Asked(p)}

OnceInv == OneStage /\ Distinct /\ Noted

LEMMA AppendOnce ==
    ASSUME NEW S, NEW s \in Seq(S), NEW e \in S
    PROVE  /\ Elements(Append(s, e)) = Elements(s) \union {e}
           /\ NoRepeats(s) /\ e \notin Elements(s) => NoRepeats(Append(s, e))
  <1> DEFINE t == Append(s, e)
  <1>1. Len(s) \in Nat /\ Len(t) = Len(s) + 1 /\ t[Len(s) + 1] = e /\ \A i \in 1 .. Len(s) : t[i] = s[i]
    OBVIOUS
  <1> HIDE DEF t
  <1>2. \A i \in 1 .. Len(t) : i \in 1 .. Len(s) \/ i = Len(s) + 1
    BY <1>1
  <1>3. \A i \in 1 .. Len(s) : i \in 1 .. Len(t)
    BY <1>1
  <1>4. Len(s) + 1 \in 1 .. Len(t)
    BY <1>1
  <1>5. Elements(t) = Elements(s) \union {e}
    BY <1>1, <1>2, <1>3, <1>4 DEF Elements
  <1>6. NoRepeats(s) /\ e \notin Elements(s) => NoRepeats(t)
    BY <1>1, <1>2 DEF NoRepeats, Elements
  <1> QED BY <1>5, <1>6 DEF t

LEMMA TailOnce ==
    ASSUME NEW S, NEW s \in Seq(S), s # <<>>, NoRepeats(s)
    PROVE  /\ Head(s) \in Elements(s) /\ NoRepeats(Tail(s))
           /\ Elements(Tail(s)) = Elements(s) \ {Head(s)}
  <1> DEFINE t == Tail(s)
  <1>1. /\ Len(s) \in Nat /\ Len(s) > 0 /\ Len(t) = Len(s) - 1 /\ Head(s) = s[1]
        /\ \A i \in 1 .. Len(t) : t[i] = s[i + 1]
    OBVIOUS
  <1> HIDE DEF t
  <1>2. Head(s) \in Elements(s)
    BY <1>1 DEF Elements
  <1>3. NoRepeats(t)
    BY <1>1 DEF NoRepeats
  <1>4. ASSUME NEW x \in Elements(t) PROVE x \in Elements(s) /\ x # Head(s)
    BY <1>1 DEF Elements, NoRepeats
  <1>5. ASSUME NEW x \in Elements(s), x # Head(s) PROVE x \in Elements(t)
    <2>1. PICK i \in 1 .. Len(s) : x = s[i]
      BY DEF Elements
    <2>2. i # 1
      BY <1>1, <1>5, <2>1
    <2>3. i - 1 \in 1 .. Len(t) /\ (i - 1) + 1 = i
      BY <1>1, <2>2
    <2>4. t[i - 1] = s[i]
      BY <1>1, <2>3
    <2> QED BY <2>1, <2>3, <2>4 DEF Elements
  <1>6. Elements(t) = Elements(s) \ {Head(s)}
    BY <1>4, <1>5
  <1> QED BY <1>2, <1>3, <1>6 DEF t

LEMMA NamedSeq ==
    ASSUME NEW s \in Seq(Answer)
    PROVE  /\ Named(s) \in Seq(Gets) /\ Len(Named(s)) = Len(s)
           /\ \A i \in 1 .. Len(s) : Named(s)[i] = s[i].pendingKey[2]
  <1>1. \A a \in Answer : a.pendingKey[2] \in Gets
    BY DEF Answer
  <1>2. Len(s) \in Nat /\ \A i \in 1 .. Len(s) : s[i] \in Answer
    OBVIOUS
  <1>3. Named(s) \in [1 .. Len(s) -> Gets]
    BY <1>1, <1>2 DEF Named
  <1> QED BY <1>2, <1>3 DEF Named

LEMMA NamedAppend ==
    ASSUME NEW s \in Seq(Answer), NEW r \in Answer
    PROVE  /\ Named(s) \in Seq(Gets) /\ r.pendingKey[2] \in Gets
           /\ Named(Append(s, r)) = Append(Named(s), r.pendingKey[2])
  <1>1. \A a \in Answer : a.pendingKey[2] \in Gets
    BY DEF Answer
  <1>2. Len(s) \in Nat /\ \A i \in 1 .. Len(s) : s[i] \in Answer
    OBVIOUS
  <1>4. Named(s) \in Seq(Gets) /\ Len(Named(s)) = Len(s)
    BY NamedSeq
  <1>5. Named(Append(s, r)) \in Seq(Gets) /\ Len(Named(Append(s, r))) = Len(s) + 1
    <2>1. Append(s, r) \in Seq(Answer) /\ Len(Append(s, r)) = Len(s) + 1
      OBVIOUS
    <2>2. Named(Append(s, r)) \in [1 .. Len(s) + 1 -> Gets]
      <3>1. \A i \in 1 .. Len(s) + 1 : Append(s, r)[i] \in Answer
        BY <2>1
      <3> QED BY <1>1, <2>1, <3>1 DEF Named
    <2> QED BY <1>2, <2>2
  <1>6. Append(Named(s), r.pendingKey[2]) \in Seq(Gets) /\ Len(Append(Named(s), r.pendingKey[2])) = Len(s) + 1
    BY <1>1, <1>4
  <1>7. \A i \in 1 .. Len(s) + 1 : Named(Append(s, r))[i] = Append(Named(s), r.pendingKey[2])[i]
    BY <1>2, <1>4 DEF Named
  <1> QED BY <1>1, <1>4, <1>5, <1>6, <1>7

LEMMA NamedTail ==
    ASSUME NEW s \in Seq(Answer), s # <<>>
    PROVE  /\ Named(s) \in Seq(Gets) /\ Named(s) # <<>> /\ Head(Named(s)) = Head(s).pendingKey[2]
           /\ Named(Tail(s)) = Tail(Named(s))
  <1>1. \A a \in Answer : a.pendingKey[2] \in Gets
    BY DEF Answer
  <1>2. Len(s) \in Nat /\ Len(s) > 0 /\ Head(s) = s[1] /\ \A i \in 1 .. Len(s) : s[i] \in Answer
    OBVIOUS
  <1>4. Named(s) \in Seq(Gets) /\ Len(Named(s)) = Len(s) /\ Named(s) # <<>>
    BY <1>2, NamedSeq
  <1>5. Head(Named(s)) = Head(s).pendingKey[2]
    BY <1>2, <1>4 DEF Named
  <1>6. Tail(s) \in Seq(Answer) /\ Len(Tail(s)) = Len(s) - 1 /\ \A i \in 1 .. Len(s) - 1 : Tail(s)[i] = s[i + 1]
    BY <1>2
  <1>7. Named(Tail(s)) \in [1 .. Len(s) - 1 -> Gets]
    <2>1. \A i \in 1 .. Len(s) - 1 : Tail(s)[i] \in Answer
      BY <1>6
    <2> QED BY <1>1, <1>6, <2>1 DEF Named
  <1>8. Named(Tail(s)) \in Seq(Gets) /\ Len(Named(Tail(s))) = Len(s) - 1
    BY <1>2, <1>7
  <1>9. Tail(Named(s)) \in Seq(Gets) /\ Len(Tail(Named(s))) = Len(s) - 1
    BY <1>4
  <1>10. \A i \in 1 .. Len(s) - 1 : Named(Tail(s))[i] = Tail(Named(s))[i]
    BY <1>2, <1>4, <1>6 DEF Named
  <1> QED BY <1>4, <1>5, <1>8, <1>9, <1>10, SMTT(30)

-----------------------------------------------------------------------------
LEMMA AtStarted ==
    ASSUME IInv, NEW p \in Peers, NEW g \in Gets, NEW k \in Stages, k # "todo", At(k, p, g)
    PROVE  Started(g)
  <1>1. CASE [peer |-> p, get |-> g] \in Elements(getRequestChan)
    BY <1>1 DEF IInv, ChannelsStarted, Elements
  <1>2. CASE \E s \in Senders : sender[s] = [peer |-> p, get |-> g]
    <2>1. PICK s \in Senders : sender[s] = [peer |-> p, get |-> g]
      BY <1>2
    <2>2. sender[s].peer = p /\ sender[s].get = g
      BY <2>1
    <2>3. sender[s] # Idle
      BY <2>2, RemoteGetAssumption DEF Idle
    <2> QED BY <2>2, <2>3 DEF IInv, ChannelsStarted
  <1>3. CASE g \in Elements(requests[p])
    BY <1>3 DEF IInv, ChannelsStarted, Elements
  <1>4. CASE g \in Elements(Named(responses[p]))
    <2>1. responses[p] \in Seq(Answer)
      BY DEF IInv, ResponsesRight
    <2>2. PICK i \in 1 .. Len(responses[p]) : responses[p][i].pendingKey[2] = g
      BY <1>4, <2>1, NamedSeq DEF Elements
    <2>3. PICK h \in Gets : Started(h) /\ responses[p][i].pendingKey = PendingKey(h)
      BY <2>2 DEF IInv, ResponsesRight, RightAnswer
    <2> QED BY <2>2, <2>3 DEF PendingKey
  <1> QED BY <1>1, <1>2, <1>3, <1>4 DEF At, Stages

LEMMA AskedStarted == ASSUME IInv, NEW p \in Peers, NEW g \in Asked(p) PROVE g \in Gets /\ Started(g)
  BY AtStarted DEF Asked, Stages

LEMMA NotedKept ==
    ASSUME IInv, Noted, KeysKept, UNCHANGED pendingGet, \A p \in Peers : Asked(p)' = Asked(p)
    PROVE  Noted'
  <1> SUFFICES ASSUME NEW p \in Peers
               PROVE  DOMAIN pendingGet[p] = {PendingKey(g)' : g \in Asked(p)}
    BY Zenon DEF Noted
  <1>1. \A g \in Asked(p) : PendingKey(g)' = PendingKey(g)
    BY AskedStarted DEF KeysKept, PendingKey
  <1> QED BY <1>1 DEF Noted

(* A request that is at one stage is at no other.                          *)
LEMMA OnlyThere ==
    ASSUME OnceInv, NEW p \in Peers, NEW g \in Gets, NEW k \in Stages, At(k, p, g)
    PROVE  \A l \in Stages : At(l, p, g) => l = k
  BY Zenon DEF OnceInv, OneStage

LEMMA Moves ==
    ASSUME OneStage, NEW p0 \in Peers, NEW g0 \in Gets, NEW from \in Stages, NEW to \in Stages,
           At(from, p0, g0), ~At(from, p0, g0)',
           \A p \in Peers, g \in Gets, k \in Stages :
               At(k, p, g)' => At(k, p, g) \/ (p = p0 /\ g = g0 /\ k = to)
    PROVE  OneStage'
  <1> SUFFICES ASSUME NEW p \in Peers, NEW g \in Gets, NEW k \in Stages, NEW l \in Stages,
                      At(k, p, g)', At(l, p, g)'
               PROVE  k = l
    BY Zenon DEF OneStage
  <1>1. CASE p = p0 /\ g = g0
    <2>1. \A j \in Stages : At(j, p, g) => j = from
      BY <1>1 DEF OneStage
    <2> QED BY <1>1, <2>1
  <1>2. CASE ~(p = p0 /\ g = g0)
    <2>1. At(k, p, g) /\ At(l, p, g)
      BY <1>2
    <2> QED BY <2>1 DEF OneStage
  <1> QED BY <1>1, <1>2

\* A step that only changes the state of a Get.
LEMMA QuietOnce ==
    ASSUME IInv, OnceInv, KeysKept, UNCHANGED <<channels, pendingGet, responses>>,
           \A g \in Gets : Started(g) => get'[g].todo = get[g].todo
    PROVE  OnceInv'
  <1>1. \A p \in Peers, g \in Gets : \A k \in Stages \ {"todo"} : At(k, p, g)' <=> At(k, p, g)
    BY DEF At, channels, Stages
  <1>2. OneStage'
    <2> SUFFICES ASSUME NEW p \in Peers, NEW g \in Gets, NEW k \in Stages, NEW l \in Stages,
                        At(k, p, g)', At(l, p, g)'
                 PROVE  k = l
      BY Zenon DEF OneStage
    <2>1. CASE Started(g)
      <3>1. At("todo", p, g)' <=> At("todo", p, g)
        BY <2>1 DEF At
      <3>2. At(k, p, g) /\ At(l, p, g)
        BY <1>1, <3>1
      <3> QED BY <3>2 DEF OneStage, OnceInv
    <2>2. CASE ~Started(g)
      BY <1>1, <2>2, AtStarted
    <2> QED BY <2>1, <2>2
  <1>3. Distinct'
    BY DEF OnceInv, Distinct, channels
  <1>4. \A p \in Peers : Asked(p)' = Asked(p)
    BY <1>1, Zenon DEF Asked, Stages
  <1>5. Noted'
    BY <1>4, NotedKept DEF OnceInv
  <1> QED BY <1>2, <1>3, <1>5 DEF OnceInv

LEMMA CallOnce ==
    ASSUME IInv, OnceInv, KeysKept, NEW g \in Gets, GetCall(g) \/ GetWait(g) \/ GetTimeout(g)
    PROVE  OnceInv'
  <1>1. UNCHANGED <<channels, pendingGet, responses>>
    BY ZenonT(60) DEF GetCall, GetLocal, GetStart, GetWait, GetTimeout
  <1>2. ASSUME NEW h \in Gets, Started(h) PROVE get'[h].todo = get[h].todo
    <2>1. get \in [Gets -> Call]
      BY DEF IInv, Types
    <2>2. CASE GetLocal(g) \/ GetWait(g) \/ GetTimeout(g)
      BY <2>1, <2>2 DEF GetLocal, GetWait, GetTimeout, Call
    <2>3. ASSUME NEW key \in Keys, GetStart(g, key) PROVE get'[h].todo = get[h].todo
      <3>1. h # g
        BY <1>2, <2>3 DEF GetStart, Started
      <3>2. get'[h] = get[h]
        BY <2>1, <2>3, <3>1 DEF GetStart
      <3> QED BY <3>2
    <2> QED BY <2>2, <2>3 DEF GetCall
  <1> QED BY <1>1, <1>2, QuietOnce, SMTT(30)

LEMMA AskOnce ==
    ASSUME IInv, OnceInv, KeysKept, NEW g \in Gets, GetAsk(g)
    PROVE  OnceInv'
  <1>1. PICK p \in get[g].todo : /\ getRequestChan' = Append(getRequestChan, [peer |-> p, get |-> g])
                                 /\ get' = [get EXCEPT ![g].todo = @ \ {p}]
    BY Zenon DEF GetAsk
  <1>2. UNCHANGED <<sender, requests, pendingGet, responses>>
    BY SMTT(30) DEF GetAsk
  <1> DEFINE r == [peer |-> p, get |-> g]
  <1>3. get \in [Gets -> Call] /\ getRequestChan \in Seq(Request) /\ p \in Peers /\ r \in Request
    BY Zenon DEF IInv, Types, Call, Request
  <1>4. /\ \A h \in Gets : get'[h].todo = IF h = g THEN get[g].todo \ {p} ELSE get[h].todo
    BY <1>1, <1>3 DEF Call
  <1>5. At("todo", p, g) /\ ~At("todo", p, g)'
    BY <1>3, <1>4, SMTT(30) DEF At
  <1>6. r \notin Elements(getRequestChan)
    <2>1. ~At("queued", p, g)
      BY <1>3, <1>5, OnlyThere DEF Stages
    <2> QED BY <2>1 DEF At
  <1>7. Elements(getRequestChan') = Elements(getRequestChan) \union {r} /\ NoRepeats(getRequestChan')
    BY <1>1, <1>3, <1>6, AppendOnce DEF OnceInv, Distinct
  <1>8. ASSUME NEW q \in Peers, NEW h \in Gets, NEW k \in Stages, At(k, q, h)'
        PROVE  At(k, q, h) \/ (q = p /\ h = g /\ k = "queued")
    <2>1. CASE k = "todo"
      BY <1>4, <1>8, <2>1 DEF At
    <2>2. CASE k = "queued"
      BY <1>7, <1>8, <2>2 DEF At
    <2>3. CASE k \in Stages \ {"todo", "queued"}
      BY <1>2, <1>8, <2>3, Zenon DEF At, Stages
    <2> QED BY <2>1, <2>2, <2>3
  <1>9. OneStage'
    BY <1>3, <1>5, <1>8, Moves, Zenon DEF OnceInv, Stages
  <1>10. Distinct'
    BY <1>2, <1>7, Zenon DEF OnceInv, Distinct
  <1>11. \A q \in Peers : Asked(q)' = Asked(q)
    BY <1>2 DEF Asked, At
  <1>12. Noted'
    BY <1>2, <1>11, NotedKept DEF OnceInv
  <1> QED BY <1>9, <1>10, <1>12 DEF OnceInv

LEMMA TakeOnce ==
    ASSUME IInv, OnceInv, KeysKept, NEW s \in Senders, SenderTake(s)
    PROVE  OnceInv'
  <1>1. /\ sender[s] = Idle /\ getRequestChan # <<>> /\ getRequestChan' = Tail(getRequestChan)
        /\ sender' = [sender EXCEPT ![s] = Head(getRequestChan)]
        /\ UNCHANGED <<get, requests, responses>>
    BY DEF SenderTake
  <1>2. getRequestChan \in Seq(Request) /\ sender \in [Senders -> Request \union {Idle}]
    BY Zenon DEF IInv, Types
  <1>3. PICK p \in Peers, g \in Gets : Head(getRequestChan) = [peer |-> p, get |-> g]
    <2>1. Head(getRequestChan) \in Request
      BY <1>1, <1>2
    <2> QED BY <2>1 DEF Request
  <1> DEFINE r == [peer |-> p, get |-> g]
  <1>4. /\ r \in Elements(getRequestChan) /\ NoRepeats(getRequestChan')
        /\ Elements(getRequestChan') = Elements(getRequestChan) \ {r}
    BY <1>1, <1>2, <1>3, TailOnce DEF OnceInv, Distinct
  <1>5. At("queued", p, g) /\ ~At("queued", p, g)'
    BY <1>4, Zenon DEF At
  <1>6. \A t \in Senders : sender'[t] = IF t = s THEN r ELSE sender[t]
    BY <1>1, <1>2, <1>3, SMTT(30)
  <1>7. \A t \in Senders : sender[t] # r
    <2>1. ~At("noted", p, g)
      BY <1>5, OnlyThere DEF Stages
    <2> QED BY <2>1, Zenon DEF At
  <1>8. ASSUME NEW q \in Peers, NEW h \in Gets, NEW k \in Stages, At(k, q, h)'
        PROVE  At(k, q, h) \/ (q = p /\ h = g /\ k = "noted")
    <2>1. CASE k = "noted"
      <3>1. PICK t \in Senders : sender'[t] = [peer |-> q, get |-> h]
        BY <1>8, <2>1, Zenon DEF At
      <3>2. CASE t = s
        BY <1>6, <2>1, <3>1, <3>2
      <3>3. CASE t # s
        BY <1>6, <2>1, <3>1, <3>3, Zenon DEF At
      <3> QED BY <3>2, <3>3
    <2>2. CASE k = "queued"
      BY <1>4, <1>8, <2>2, Zenon DEF At
    <2>3. CASE k \in Stages \ {"noted", "queued"}
      BY <1>1, <1>8, <2>3, Zenon DEF At, Stages
    <2> QED BY <2>1, <2>2, <2>3
  <1>9. OneStage'
    BY <1>5, <1>8, Moves, Zenon DEF OnceInv, Stages
  <1>10. Distinct'
    BY <1>1, <1>4, <1>6, <1>7 DEF OnceInv, Distinct
  <1>11. ASSUME NEW q \in Peers
         PROVE  Asked(q)' = IF q = p THEN Asked(q) \union {g} ELSE Asked(q)
    <2>1. \A h \in Gets : At("noted", q, h)' <=> (At("noted", q, h) \/ (q = p /\ h = g))
      <3> SUFFICES ASSUME NEW h \in Gets
                   PROVE  (\E t \in Senders : sender'[t] = [peer |-> q, get |-> h])
                            <=> (\/ \E t \in Senders : sender[t] = [peer |-> q, get |-> h]
                                 \/ q = p /\ h = g)
        BY Zenon DEF At
      <3>1. sender[s] # [peer |-> q, get |-> h]
        BY <1>1, RemoteGetAssumption DEF Idle
      <3> QED BY <1>6, <3>1
    <2>2. \A h \in Gets : \A k \in {"sent", "answered"} : At(k, q, h)' <=> At(k, q, h)
      BY <1>1, Zenon DEF At
    <2> QED BY <2>1, <2>2 DEF Asked
  <1>12. Noted'
    <2>1. pendingGet' = [pendingGet EXCEPT ![p] =
              [pk \in DOMAIN pendingGet[p] \union {PendingKey(g)} |->
                 IF pk = PendingKey(g) THEN g ELSE pendingGet[p][pk]]]
      <3>1. Head(getRequestChan).peer = p /\ Head(getRequestChan).get = g
        BY <1>3
      <3> QED BY <3>1, Zenon DEF SenderTake
    <2>2. \A h : PendingKey(h)' = PendingKey(h)
      BY <1>1 DEF PendingKey
    <2>3. ASSUME NEW q \in Peers
          PROVE  /\ pendingGet'[q] \in [DOMAIN pendingGet'[q] -> Gets]
                 /\ DOMAIN pendingGet'[q] = {PendingKey(h)' : h \in Asked(q)'}
      <3>0. /\ pendingGet[q] \in [DOMAIN pendingGet[q] -> Gets]
            /\ DOMAIN pendingGet[q] = {PendingKey(h) : h \in Asked(q)}
        BY Zenon DEF OnceInv, Noted
      <3>1. CASE q = p
        <4>1. pendingGet'[q] = [pk \in DOMAIN pendingGet[q] \union {PendingKey(g)} |->
                                  IF pk = PendingKey(g) THEN g ELSE pendingGet[q][pk]]
          BY <2>1, <3>1 DEF IInv, Types
        <4>2. DOMAIN pendingGet'[q] = DOMAIN pendingGet[q] \union {PendingKey(g)}
          BY <4>1, Zenon
        <4>3. {PendingKey(h)' : h \in Asked(q)'} = {PendingKey(h) : h \in Asked(q)} \union {PendingKey(g)}
          BY <1>11, <2>2, <3>1
        <4> QED BY <3>0, <4>1, <4>2, <4>3, Zenon
      <3>2. CASE q # p
        <4>1. pendingGet'[q] = pendingGet[q]
          BY <2>1, <3>2 DEF IInv, Types
        <4>2. Asked(q)' = Asked(q)
          BY <1>11, <3>2
        <4> QED BY <2>2, <3>0, <4>1, <4>2, Zenon
      <3> QED BY <3>1, <3>2, Zenon
    <2> QED BY <2>3, Zenon DEF Noted
  <1> QED BY <1>9, <1>10, <1>12 DEF OnceInv

LEMMA SendOnce ==
    ASSUME IInv, OnceInv, KeysKept, NEW s \in Senders, SenderSend(s)
    PROVE  OnceInv'
  <1>1. sender \in [Senders -> Request \union {Idle}] /\ requests \in [Peers -> Seq(Gets)]
    BY DEF IInv, Types
  <1>2. PICK p \in Peers, g \in Gets : sender[s] = [peer |-> p, get |-> g]
    BY <1>1, Zenon DEF SenderSend, Request
  <1>3. /\ requests' = [requests EXCEPT ![p] = Append(requests[p], g)]
        /\ sender' = [sender EXCEPT ![s] = Idle]
        /\ UNCHANGED <<get, getRequestChan, pendingGet, responses>>
    BY <1>2 DEF SenderSend
  <1>4. /\ \A t \in Senders : sender'[t] = IF t = s THEN Idle ELSE sender[t]
        /\ \A q \in Peers : requests'[q] = IF q = p THEN Append(requests[p], g) ELSE requests[q]
    BY <1>1, <1>3
  <1>5. \A q \in Peers, h \in Gets : Idle # [peer |-> q, get |-> h]
    BY RemoteGetAssumption, SMTT(30) DEF Idle
  <1>6. At("noted", p, g) /\ ~At("noted", p, g)'
    <2>1. At("noted", p, g)
      BY <1>2, Zenon DEF At
    <2>2. \A t \in Senders : sender'[t] # [peer |-> p, get |-> g]
      BY <1>2, <1>4, <1>5, SMTT(30) DEF OnceInv, Distinct
    <2> QED BY <2>1, <2>2, Zenon DEF At
  <1>7. g \notin Elements(requests[p])
    <2>1. ~At("sent", p, g)
      BY <1>6, OnlyThere DEF Stages
    <2> QED BY <2>1, Zenon DEF At
  <1>8. Elements(requests'[p]) = Elements(requests[p]) \union {g} /\ NoRepeats(requests'[p])
    <2>1. requests[p] \in Seq(Gets) /\ NoRepeats(requests[p])
      BY <1>1 DEF OnceInv, Distinct
    <2> QED BY <1>4, <1>7, <2>1, AppendOnce
  <1>9. ASSUME NEW q \in Peers, NEW h \in Gets
        PROVE  /\ At("noted", q, h)' <=> At("noted", q, h) /\ ~(q = p /\ h = g)
               /\ At("sent", q, h)' <=> At("sent", q, h) \/ (q = p /\ h = g)
    <2>1. At("sent", q, h)' <=> At("sent", q, h) \/ (q = p /\ h = g)
      <3>1. CASE q = p
        BY <1>8, <3>1, Zenon DEF At
      <3>2. CASE q # p
        BY <1>4, <3>2, Zenon DEF At
      <3> QED BY <3>1, <3>2, SMTT(30)
    <2>2. CASE q = p /\ h = g
      BY <1>6, <2>1, <2>2, SMTT(30)
    <2>3. CASE ~(q = p /\ h = g)
      <3>1. sender[s] # [peer |-> q, get |-> h]
        BY <1>2, <2>3
      <3>2. (\E t \in Senders : sender'[t] = [peer |-> q, get |-> h])
              <=> (\E t \in Senders : sender[t] = [peer |-> q, get |-> h])
        BY <1>4, <1>5, <3>1, Zenon
      <3> QED BY <2>1, <2>3, <3>2, Zenon DEF At
    <2> QED BY <2>2, <2>3
  <1>10. \A q \in Peers, h \in Gets : \A k \in Stages \ {"noted", "sent"} : At(k, q, h)' <=> At(k, q, h)
    BY <1>3 DEF At, Stages
  <1>11. OneStage'
    <2>1. \A q \in Peers, h \in Gets, k \in Stages :
              At(k, q, h)' => At(k, q, h) \/ (q = p /\ h = g /\ k = "sent")
      BY <1>9, <1>10
    <2> QED BY <1>6, <2>1, Moves, Zenon DEF OnceInv, Stages
  <1>12. Distinct'
    <2>1. \A t, u \in Senders : sender'[t] = sender'[u] /\ sender'[t] # Idle => t = u
      BY <1>4, Zenon DEF OnceInv, Distinct
    <2>2. \A q \in Peers : NoRepeats(requests'[q])
      BY <1>4, <1>8, Zenon DEF OnceInv, Distinct
    <2> QED BY <1>3, <2>1, <2>2, Zenon DEF OnceInv, Distinct
  <1>13. \A q \in Peers : Asked(q)' = Asked(q)
    <2>1. \A q \in Peers, h \in Gets : At("answered", q, h)' <=> At("answered", q, h)
      BY <1>10 DEF Stages
    <2>2. ASSUME NEW q \in Peers PROVE \A h : h \in Asked(q)' <=> h \in Asked(q)
      BY <1>6, <1>9, <2>1 DEF Asked
    <2> QED BY <2>2, ZenonT(60)
  <1>14. Noted'
    BY <1>3, <1>13, NotedKept DEF OnceInv
  <1> QED BY <1>11, <1>12, <1>14 DEF OnceInv

LEMMA RequestOnce ==
    ASSUME IInv, OnceInv, KeysKept, NEW p \in Peers, handleGetRequest(p)
    PROVE  OnceInv'
  <1>1. /\ requests \in [Peers -> Seq(Gets)] /\ requests[p] # <<>> /\ responses[p] \in Seq(Answer)
        /\ DOMAIN responses = Peers
    BY Zenon DEF IInv, Types, ResponsesRight, handleGetRequest
  <1>2. PICK g \in Gets : g = Head(requests[p])
    BY <1>1
  <1>3. PICK d : responses' = [responses EXCEPT ![p] =
                                 Append(responses[p], [pendingKey |-> PendingKey(g), data |-> d])]
    BY <1>2, Zenon DEF handleGetRequest
  <1>4. requests' = [requests EXCEPT ![p] = Tail(requests[p])] /\ UNCHANGED <<get, getRequestChan, sender, pendingGet>>
    BY DEF handleGetRequest
  <1>5. /\ \A q \in Peers : requests'[q] = IF q = p THEN Tail(requests[p]) ELSE requests[q]
        /\ \A q \in Peers : q # p => responses'[q] = responses[q]
    BY <1>1, <1>3, <1>4
  <1>6. /\ g \in Elements(requests[p]) /\ NoRepeats(requests'[p])
        /\ Elements(requests'[p]) = Elements(requests[p]) \ {g}
    <2>1. requests[p] \in Seq(Gets) /\ NoRepeats(requests[p])
      BY <1>1 DEF OnceInv, Distinct
    <2> QED BY <1>1, <1>2, <1>5, <2>1, TailOnce, Zenon
  <1>7. At("sent", p, g) /\ ~At("sent", p, g)'
    BY <1>6 DEF At
  <1>8. g \notin Elements(Named(responses[p]))
    BY <1>7, ZenonT(60) DEF At, OnceInv, OneStage, Stages
  <1>9. /\ NoRepeats(Named(responses'[p]))
        /\ Elements(Named(responses'[p])) = Elements(Named(responses[p])) \union {g}
    <2>1. Named(responses'[p]) = Append(Named(responses[p]), g) /\ Named(responses[p]) \in Seq(Gets)
      <3> DEFINE rsp == [pendingKey |-> PendingKey(g), data |-> d]
      <3>1. responses'[p] = Append(responses[p], rsp) /\ rsp.pendingKey[2] = g
        BY <1>1, <1>3, Zenon DEF PendingKey
      <3>2. rsp \in Answer
        <4>1. responses'[p] \in Seq(Answer)
          BY RequestInv, Zenon DEF IInv, ResponsesRight
        <4> HIDE DEF rsp
        <4>2. rsp = responses'[p][Len(responses[p]) + 1] /\ Len(responses'[p]) = Len(responses[p]) + 1
          BY <1>1, <3>1
        <4> QED BY <1>1, <4>1, <4>2
      <3> HIDE DEF rsp
      <3> QED BY <1>1, <3>1, <3>2, NamedAppend, Zenon
    <2>2. NoRepeats(Named(responses[p]))
      BY DEF OnceInv, Distinct
    <2> QED BY <1>8, <2>1, <2>2, AppendOnce
  <1>10. ASSUME NEW q \in Peers, NEW h \in Gets
         PROVE  /\ At("sent", q, h)' <=> At("sent", q, h) /\ ~(q = p /\ h = g)
                /\ At("answered", q, h)' <=> At("answered", q, h) \/ (q = p /\ h = g)
    <2>1. CASE q = p
      BY <1>6, <1>9, <2>1, Zenon DEF At
    <2>2. CASE q # p
      BY <1>5, <2>2, Zenon DEF At
    <2> QED BY <2>1, <2>2
  <1>11. \A q \in Peers, h \in Gets : \A k \in Stages \ {"sent", "answered"} : At(k, q, h)' <=> At(k, q, h)
    BY <1>4 DEF At, Stages
  <1>12. OneStage'
    <2>1. \A q \in Peers, h \in Gets, k \in Stages :
              At(k, q, h)' => At(k, q, h) \/ (q = p /\ h = g /\ k = "answered")
      BY <1>10, <1>11
    <2> QED BY <1>7, <2>1, Moves, Zenon DEF OnceInv, Stages
  <1>13. Distinct'
    <2>1. \A q \in Peers : NoRepeats(requests'[q]) /\ NoRepeats(Named(responses'[q]))
      BY <1>5, <1>6, <1>9, Zenon DEF OnceInv, Distinct
    <2> QED BY <1>4, <2>1, Zenon DEF OnceInv, Distinct
  <1>14. \A q \in Peers : Asked(q)' = Asked(q)
    <2>1. \A q \in Peers, h \in Gets : At("noted", q, h)' <=> At("noted", q, h)
      BY <1>11 DEF Stages
    <2>2. ASSUME NEW q \in Peers PROVE \A h : h \in Asked(q)' <=> h \in Asked(q)
      BY <1>7, <1>10, <2>1 DEF Asked
    <2> QED BY <2>2
  <1>15. Noted'
    BY <1>4, <1>14, NotedKept DEF OnceInv
  <1> QED BY <1>12, <1>13, <1>15 DEF OnceInv

\* The answer that is handled was the only trace of its request.
LEMMA ResponseOnce ==
    ASSUME IInv, OnceInv, KeysKept, NEW p \in Peers, handleGetResponse(p)
    PROVE  OnceInv'
  <1>1. /\ responses[p] \in Seq(Answer) /\ responses[p] # <<>> /\ DOMAIN responses = Peers
        /\ \A i \in 1 .. Len(responses[p]) : RightAnswer(responses[p][i])
        /\ DOMAIN pendingGet = Peers /\ get \in [Gets -> Call]
    BY Zenon DEF IInv, Types, ResponsesRight, handleGetResponse
  <1> DEFINE rsp == Head(responses[p])
  <1>2. PICK g \in Gets : Started(g) /\ rsp.pendingKey = PendingKey(g)
    <2>1. RightAnswer(rsp)
      BY <1>1
    <2> QED BY <2>1 DEF RightAnswer
  <1>3. /\ responses' = [responses EXCEPT ![p] = Tail(responses[p])]
        /\ pendingGet' = [pendingGet EXCEPT ![p] =
             [pk \in DOMAIN pendingGet[p] \ {PendingKey(g)} |-> pendingGet[p][pk]]]
        /\ UNCHANGED <<getRequestChan, sender, requests>>
    BY <1>2, ZenonT(60) DEF handleGetResponse, channels
  <1>4. \A h \in Gets : get'[h].todo = get[h].todo
    <2>1. UNCHANGED get \/ \E k, d : get' = [get EXCEPT ![k].pc = "answered", ![k].data = d]
      BY Zenon DEF handleGetResponse, Offer
    <2>2. ASSUME NEW h \in Gets, NEW k, NEW d,
                 get' = [get EXCEPT ![k].pc = "answered", ![k].data = d]
          PROVE  get'[h].todo = get[h].todo
      <3>1. get \in [Gets -> Call] /\ get[h] \in Call
        BY <1>1
      <3>2. CASE h = k
        BY <2>2, <3>1, <3>2 DEF Call
      <3>3. CASE h # k
        BY <2>2, <3>1, <3>3
      <3> QED BY <3>2, <3>3
    <2> QED BY <2>1, <2>2, Zenon
  <1>5. /\ g \in Elements(Named(responses[p])) /\ NoRepeats(Named(responses'[p]))
        /\ Elements(Named(responses'[p])) = Elements(Named(responses[p])) \ {g}
    <2>1. rsp.pendingKey[2] = g
      BY <1>2 DEF PendingKey
    <2>2. /\ Named(responses[p]) \in Seq(Gets) /\ Named(responses[p]) # <<>>
          /\ Head(Named(responses[p])) = g /\ Named(Tail(responses[p])) = Tail(Named(responses[p]))
      BY <1>1, <2>1, NamedTail, Zenon
    <2>3. responses'[p] = Tail(responses[p]) /\ NoRepeats(Named(responses[p]))
      BY <1>1, <1>3 DEF OnceInv, Distinct
    <2> QED BY <2>2, <2>3, TailOnce, ZenonT(60)
  <1>6. \A q \in Peers : q # p => responses'[q] = responses[q]
    BY <1>1, <1>3
  <1>7. ASSUME NEW q \in Peers, NEW h \in Gets
        PROVE  At("answered", q, h)' <=> At("answered", q, h) /\ ~(q = p /\ h = g)
    <2>1. CASE q = p
      BY <1>5, <2>1, Zenon DEF At
    <2>2. CASE q # p
      BY <1>6, <2>2, Zenon DEF At
    <2> QED BY <2>1, <2>2
  <1>8. \A q \in Peers, h \in Gets : \A k \in Stages \ {"answered"} : At(k, q, h)' <=> At(k, q, h)
    BY <1>3, <1>4 DEF At, Stages
  <1>9. OneStage'
    <2>1. \A q \in Peers, h \in Gets, k \in Stages : At(k, q, h)' => At(k, q, h)
      BY <1>7, <1>8
    <2> QED BY <2>1, Zenon DEF OnceInv, OneStage
  <1>10. Distinct'
    <2>1. \A q \in Peers : NoRepeats(Named(responses'[q]))
      BY <1>5, <1>6, Zenon DEF OnceInv, Distinct
    <2> QED BY <1>3, <2>1, Zenon DEF OnceInv, Distinct
  <1>11. ASSUME NEW q \in Peers
         PROVE  Asked(q)' = IF q = p THEN Asked(q) \ {g} ELSE Asked(q)
    <2>1. \A h \in Gets : \A k \in {"noted", "sent"} : At(k, q, h)' <=> At(k, q, h)
      BY <1>8, SMTT(30) DEF Stages
    <2>2. ~At("noted", p, g) /\ ~At("sent", p, g)
      <3>1. At("answered", p, g)
        BY <1>5 DEF At
      <3> QED BY <3>1, OnlyThere DEF Stages
    <2>3. \A h : h \in Asked(q)' <=> h \in Asked(q) /\ ~(q = p /\ h = g)
      BY <1>7, <2>1, <2>2 DEF Asked
    <2> QED BY <2>3
  <1>12. Noted'
    <2>1. ASSUME NEW q \in Peers
          PROVE  /\ pendingGet'[q] \in [DOMAIN pendingGet'[q] -> Gets]
                 /\ DOMAIN pendingGet'[q] = {PendingKey(h)' : h \in Asked(q)'}
      <3>0. /\ pendingGet[q] \in [DOMAIN pendingGet[q] -> Gets]
            /\ DOMAIN pendingGet[q] = {PendingKey(h) : h \in Asked(q)}
        BY Zenon DEF OnceInv, Noted
      <3>1. \A h \in Asked(q) : PendingKey(h)' = PendingKey(h)
        BY AskedStarted, Zenon DEF KeysKept, PendingKey
      <3>2. CASE q = p
        <4>1. pendingGet'[q] = [pk \in DOMAIN pendingGet[q] \ {PendingKey(g)} |-> pendingGet[q][pk]]
          BY <1>1, <1>3, <3>2
        <4>2. \A h : PendingKey(h) = PendingKey(g) => h = g
          BY DEF PendingKey
        <4>3. {PendingKey(h)' : h \in Asked(q)'} = {PendingKey(h) : h \in Asked(q)} \ {PendingKey(g)}
          BY <1>11, <3>1, <3>2, <4>2
        <4> QED BY <3>0, <4>1, <4>3, ZenonT(60)
      <3>3. CASE q # p
        <4>1. pendingGet'[q] = pendingGet[q] /\ Asked(q)' = Asked(q)
          BY <1>1, <1>3, <1>11, <3>3, Zenon
        <4> QED BY <3>0, <3>1, <4>1, Zenon
      <3> QED BY <3>2, <3>3, Zenon
    <2> QED BY <2>1, Zenon DEF Noted
  <1> QED BY <1>9, <1>10, <1>12 DEF OnceInv

LEMMA InitOnce == Init => OnceInv
  <1> SUFFICES ASSUME Init PROVE OnceInv
    OBVIOUS
  <1>1. /\ \A g \in Gets : get[g].todo = {}
        /\ getRequestChan = <<>> /\ \A s \in Senders : sender[s] = Idle
        /\ \A p \in Peers : pendingGet[p] = <<>> /\ requests[p] = <<>> /\ responses[p] = <<>>
    BY Zenon DEF Init
  <1>2. Elements(<<>>) = {} /\ NoRepeats(<<>>)
    BY DEF Elements, NoRepeats
  <1>3. Named(<<>>) = <<>>
    BY DEF Named
  <1>4. \A q \in Peers, h \in Gets : Idle # [peer |-> q, get |-> h]
    BY RemoteGetAssumption, Zenon DEF Idle
  <1>5. \A p \in Peers, g \in Gets, k \in Stages : ~At(k, p, g)
    BY <1>1, <1>2, <1>3, <1>4, Zenon DEF At
  <1>6. OneStage
    BY <1>5, SMTT(30) DEF OneStage
  <1>7. Distinct
    BY <1>1, <1>2, <1>3, Zenon DEF Distinct
  <1>8. \A p \in Peers : Asked(p) = {}
    BY <1>5, ZenonT(60) DEF Asked, Stages
  <1>9. Noted
    <2>1. DOMAIN <<>> = {} /\ <<>> \in [{} -> Gets]
      OBVIOUS
    <2> SUFFICES ASSUME NEW p \in Peers
                 PROVE  /\ pendingGet[p] \in [DOMAIN pendingGet[p] -> Gets]
                        /\ DOMAIN pendingGet[p] = {PendingKey(g) : g \in Asked(p)}
      BY Zenon DEF Noted
    <2>2. {PendingKey(g) : g \in Asked(p)} = {}
      BY <1>8
    <2> QED BY <1>1, <2>1, <2>2, ZenonT(60)
  <1> QED BY <1>6, <1>7, <1>9 DEF OnceInv

LEMMA NextOnce == IInv /\ OnceInv /\ [Next]_vars => OnceInv'
  <1> SUFFICES ASSUME IInv, OnceInv, [Next]_vars PROVE OnceInv'
    OBVIOUS
  <1>1. KeysKept
    BY NextInv
  <1>2. CASE UNCHANGED vars
    <2>1. UNCHANGED <<get, channels, pendingGet, responses>>
      BY <1>2, Zenon DEF vars
    <2> QED BY <1>1, <2>1, QuietOnce
  <1> QED BY <1>1, <1>2, CallOnce, AskOnce, TakeOnce, SendOnce, RequestOnce, ResponseOnce, Zenon DEF Next

(* Whatever the order in which requests are noted, sent, answered and the  *)
(* answers handled, pendingGet of a connection holds exactly the requests  *)
(* under way on it, each under its own pending key: no answer misses its   *)
(* entry and none is left over (getData, handleGetResponse).  A member is  *)
(* asked once for each Get, and its request is in one place at a time.     *)
THEOREM PendingMatches == Spec => []PendingMatchesRequests
  <1>1. IInv /\ OnceInv => PendingMatchesRequests
    <2> SUFFICES ASSUME IInv, OnceInv, NEW p \in Peers
                 PROVE  pendingGet[p] = [pk \in {PendingKey(g) : g \in Outstanding(p)} |->
                                           CHOOSE g \in Outstanding(p) : PendingKey(g) = pk]
      BY Zenon DEF PendingMatchesRequests
    <2>1. responses[p] \in Seq(Answer) /\ \A i \in 1 .. Len(responses[p]) : RightAnswer(responses[p][i])
      BY DEF IInv, ResponsesRight
    <2>2. ASSUME NEW g \in Gets, NEW i \in 1 .. Len(responses[p])
          PROVE  responses[p][i].pendingKey = PendingKey(g) <=> responses[p][i].pendingKey[2] = g
      <3>1. PICK h \in Gets : responses[p][i].pendingKey = PendingKey(h)
        BY <2>1, Zenon DEF RightAnswer
      <3> QED BY <3>1 DEF PendingKey
    <2>3. ASSUME NEW g \in Gets
          PROVE  At("answered", p, g) <=> \E i \in 1 .. Len(responses[p]) : responses[p][i].pendingKey = PendingKey(g)
      <3>1. At("answered", p, g) <=> \E i \in 1 .. Len(responses[p]) : responses[p][i].pendingKey[2] = g
        BY <2>1, NamedSeq, SMTT(30) DEF At, Elements
      <3> QED BY <2>2, <3>1, Zenon
    <2>4. \A g \in Gets : At("sent", p, g) <=> \E i \in 1 .. Len(requests[p]) : requests[p][i] = g
      BY Zenon DEF At, Elements
    <2>5. \A g \in Gets : At("noted", p, g) <=> \E s \in Senders : sender[s] = [peer |-> p, get |-> g]
      BY Zenon DEF At
    <2>6. Outstanding(p) = Asked(p)
      BY <2>3, <2>4, <2>5, Zenon DEF Outstanding, Asked
    <2>7. ASSUME NEW pk \in DOMAIN pendingGet[p]
          PROVE  pendingGet[p][pk] = CHOOSE g \in Outstanding(p) : PendingKey(g) = pk
      <3>1. PICK g \in Outstanding(p) : PendingKey(g) = pk
        BY <2>6, Zenon DEF OnceInv, Noted
      <3>2. \A h : PendingKey(h) = pk => h = g
        BY <3>1 DEF PendingKey
      <3>3. PendingKey(pendingGet[p][pk]) = pk
        BY Zenon DEF IInv, PendingRight
      <3> QED BY <3>1, <3>2, <3>3
    <2> QED BY <2>6, <2>7, ZenonT(60) DEF OnceInv, Noted
  <1> QED BY <1>1, InitInv, NextInv, InitOnce, NextOnce, PTL DEF Spec
=============================================================================
