------------------------- MODULE ReplicationProofs --------------------------
(***************************************************************************)
(* For any numbers of nodes, callers, replication goroutines, keys and     *)
(* calls, and any times to live: nothing is addressed to a passive node, a *)
(* replica keeps the expiry of its entry, and no replica is forgotten.     *)
(*                                                                         *)
(* The invariant says of every message, wherever it is on its way, that    *)
(* some Put or Delete made it and that it goes to an active node; of a     *)
(* duration handlePut has computed, that it was right when it was          *)
(* computed, so that it is now too long by the time gone by and never too  *)
(* short; and of every entry, that some Put made it.                       *)
(***************************************************************************)
EXTENDS Replication, TLAPS

Call == [todo : SUBSET Nodes, msg : Message \union {None}]

\* The types as the steps need them.
Types ==
    /\ now \in Nat /\ now > 1
    /\ cache \in [Active -> [Keys -> Entry \union Gap]]
    /\ caller \in [Callers -> Call]
    /\ calls \in [Callers -> 0 .. MaxCalls]
    /\ replicationChan \in [Nodes -> Seq(Envelope)]
    /\ worker \in [Nodes -> [Workers -> Envelope \union {Nothing}]]
    /\ link \in [Nodes -> [Nodes -> Seq(Message)]]
    /\ handling \in [Nodes -> [Nodes -> Int \union {None}]]
    /\ writes \in [Keys -> Seq(Message)] /\ contended \subseteq Keys

\* A Put or a Delete has made the message.
Written(msg) == msg \in Message /\ \E i \in 1 .. Len(writes[msg.key]) : writes[msg.key][i] = msg

\* An envelope in the replication channel or in a worker's hands.
Addressed(e) == e \in Envelope /\ e.to \in Active /\ Written(e.msg)

OnTheWay ==
    /\ \A c \in Callers : caller[c].todo \subseteq Active \ {HomeOf[c]}
    /\ \A c \in Callers : caller[c].todo # {} => Written(caller[c].msg)
    /\ \A n \in Nodes : \A i \in 1 .. Len(replicationChan[n]) : Addressed(replicationChan[n][i])
    /\ \A n \in Nodes, w \in Workers : worker[n][w] # Nothing => Addressed(worker[n][w])
    /\ \A n \in Nodes, m \in Nodes : \A i \in 1 .. Len(link[n][m]) : m \in Active /\ Written(link[n][m][i])

\* The clock has not gone back since handlePut read it.
DurationsRight ==
    \A n, m \in Nodes : handling[n][m] # None =>
        /\ handling[n][m] \in Int
        /\ link[n][m] # <<>> /\ Timed(Head(link[n][m]))
        /\ handling[n][m] >= 2 * Head(link[n][m]).exp - now

\* A Put has made the entry, and its expiry is right.
RightEntry(k, e) ==
    /\ e.val \in Values /\ e.exp \in Nat /\ e.due \in Nat
    /\ Written([key |-> k, val |-> e.val, exp |-> e.due])
    /\ IF e.due = NO_EXPIRY \/ e.instant THEN e.exp = NO_EXPIRY
       ELSE e.exp >= e.due - 1 /\ e.exp # NO_EXPIRY

EntriesRight ==
    \A m \in Active, k \in Keys : cache[m][k].val # None => RightEntry(k, cache[m][k])

IInv == Types /\ OnTheWay /\ DurationsRight /\ EntriesRight

-----------------------------------------------------------------------------
(* Sequences and seconds *)

LEMMA AppendElements ==
    ASSUME NEW S, NEW s \in Seq(S), NEW e \in S
    PROVE  /\ Append(s, e) \in Seq(S)
           /\ \A i \in 1 .. Len(Append(s, e)) :
                Append(s, e)[i] = e \/ \E j \in 1 .. Len(s) : Append(s, e)[i] = s[j]
           /\ \E i \in 1 .. Len(Append(s, e)) : Append(s, e)[i] = e
           /\ \A j \in 1 .. Len(s) : \E i \in 1 .. Len(Append(s, e)) : Append(s, e)[i] = s[j]
           /\ s # <<>> => Append(s, e) # <<>> /\ Head(Append(s, e)) = Head(s)
  <1>1. /\ Append(s, e) \in Seq(S) /\ Len(Append(s, e)) = Len(s) + 1 /\ Len(s) \in Nat
        /\ Append(s, e)[Len(s) + 1] = e
        /\ \A j \in 1 .. Len(s) : Append(s, e)[j] = s[j]
    OBVIOUS
  <1>2. s # <<>> => Append(s, e) # <<>> /\ Head(Append(s, e)) = Head(s)
    OBVIOUS
  <1>3. \A i \in 1 .. Len(s) + 1 : i = Len(s) + 1 \/ i \in 1 .. Len(s)
    BY <1>1
  <1>4. Len(s) + 1 \in 1 .. Len(s) + 1 /\ \A j \in 1 .. Len(s) : j \in 1 .. Len(s) + 1
    BY <1>1
  <1> QED BY <1>1, <1>2, <1>3, <1>4

\* The same of messages, one fact at a time.
LEMMA AppendMessage ==
    \A s \in Seq(Message), e \in Message :
        /\ Append(s, e) \in Seq(Message)
        /\ \E i \in 1 .. Len(Append(s, e)) : Append(s, e)[i] = e
  BY AppendElements

LEMMA AppendOld ==
    \A s \in Seq(Message), e \in Message :
        \A j \in 1 .. Len(s) : \E i \in 1 .. Len(Append(s, e)) : Append(s, e)[i] = s[j]
  BY AppendElements

LEMMA AppendFrom ==
    \A s \in Seq(Message), e \in Message :
        \A i \in 1 .. Len(Append(s, e)) : Append(s, e)[i] = e \/ \E j \in 1 .. Len(s) : Append(s, e)[i] = s[j]
  BY AppendElements

LEMMA AppendEnvelope ==
    \A s \in Seq(Envelope), e \in Envelope :
        /\ \E i \in 1 .. Len(Append(s, e)) : Append(s, e)[i] = e
        /\ \A j \in 1 .. Len(s) : \E i \in 1 .. Len(Append(s, e)) : Append(s, e)[i] = s[j]
  BY AppendElements

LEMMA AppendHead ==
    \A s \in Seq(Message), e \in Message :
        s # <<>> => Append(s, e) # <<>> /\ Head(Append(s, e)) = Head(s)
  BY AppendElements

LEMMA TailElements ==
    ASSUME NEW S, NEW s \in Seq(S), s # <<>>
    PROVE  /\ Head(s) \in S /\ 1 \in 1 .. Len(s) /\ Head(s) = s[1]
           /\ Tail(s) \in Seq(S)
           /\ \A i \in 1 .. Len(Tail(s)) : \E j \in 1 .. Len(s) : Tail(s)[i] = s[j]
           /\ \A j \in 1 .. Len(s) : s[j] = Head(s) \/ \E i \in 1 .. Len(Tail(s)) : Tail(s)[i] = s[j]
  <1>1. /\ Head(s) \in S /\ 1 \in 1 .. Len(s) /\ Head(s) = s[1] /\ Tail(s) \in Seq(S)
    OBVIOUS
  <1>2. \A i \in 1 .. Len(Tail(s)) : i + 1 \in 1 .. Len(s) /\ Tail(s)[i] = s[i + 1]
    OBVIOUS
  <1>3. \A j \in 1 .. Len(s) : j = 1 \/ (j - 1 \in 1 .. Len(Tail(s)) /\ Tail(s)[j - 1] = s[j])
    OBVIOUS
  <1> QED BY <1>1, <1>2, <1>3

LEMMA LaterBound ==
    ASSUME NEW d \in Int, NEW x \in Nat, NEW t \in Nat, d >= 2 * x - t
    PROVE  d >= 2 * x - (t + 1)
  OBVIOUS

\* The timestamp of a duration that was right some time ago.
LEMMA ExpiryBound ==
    ASSUME now \in Nat, now > 1, NEW due \in Nat, due # NO_EXPIRY,
           NEW d \in Int, d >= 2 * due - now, NEW exp \in Expiry(d)
    PROVE  /\ exp \in Nat
           /\ IF d = 0 THEN exp = NO_EXPIRY ELSE exp >= due - 1 /\ exp # NO_EXPIRY
  <1>1. CASE d = 0
    BY <1>1 DEF Expiry, NO_EXPIRY
  <1>2. CASE d > 0
    BY <1>2 DEF Expiry, NO_EXPIRY, Seconds
  <1>3. CASE d < 0
    BY <1>3 DEF Expiry, NO_EXPIRY, Seconds
  <1> QED BY <1>1, <1>2, <1>3

LEMMA ExpiryOfPut ==
    ASSUME now \in Nat, now > 1, NEW d \in Nat, NEW exp \in Expiry(d)
    PROVE  exp \in Nat
  BY SMTT(30) DEF Expiry, NO_EXPIRY, Seconds

LEMMA AbsentGap == Absent \in Gap /\ Absent.val = None
  BY DEF Absent, NoEntry, Gap, NO_EXPIRY

LEMMA GapFields == \A g \in Gap : g.val = None /\ g.exp = NO_EXPIRY
  BY Zenon DEF Gap

LEMMA EntryFields == \A e \in Entry : e.val \in Values /\ e.due \in Nat
  BY Zenon DEF Entry

-----------------------------------------------------------------------------
(* The steps.  First, what a step leaves alone. *)

LEMMA KeptEntries ==
    ASSUME EntriesRight, UNCHANGED <<cache, writes>>
    PROVE  EntriesRight'
  <1>1. \A w : Written(w)' <=> Written(w)
    BY DEF Written
  <1> QED BY <1>1, SMTT(30) DEF EntriesRight, RightEntry

LEMMA KeptDurations ==
    ASSUME DurationsRight, UNCHANGED <<now, link, handling>>
    PROVE  DurationsRight'
  BY DEF DurationsRight, Timed

LEMMA KeptOnTheWay ==
    ASSUME OnTheWay, UNCHANGED <<caller, replicationChan, worker, link, writes>>
    PROVE  OnTheWay'
  <1>1. \A m : Written(m)' <=> Written(m)
    BY DEF Written
  <1>2. \A x : Addressed(x)' <=> Addressed(x)
    BY <1>1 DEF Addressed
  <1> QED BY <1>1, <1>2, SMTT(30) DEF OnTheWay

LEMMA InitInv == Init => IInv
  <1> SUFFICES ASSUME Init PROVE IInv
    OBVIOUS
  <1> USE ReplicationAssumption DEF Init
  <1>1. Types
    BY AbsentGap DEF Types, Call
  <1>2. OnTheWay
    BY DEF OnTheWay
  <1> QED BY <1>1, <1>2, AbsentGap DEF IInv, DurationsRight, EntriesRight

LEMMA TickInv == ASSUME IInv, Tick PROVE IInv'
  <1> USE DEF IInv, Tick, history
  <1>1. Types'
    BY DEF Types
  <1>2. OnTheWay'
    BY KeptOnTheWay
  <1>3. DurationsRight'
    <2> SUFFICES ASSUME NEW n \in Nodes, NEW m \in Nodes, handling[n][m] # None
                 PROVE  /\ handling[n][m] \in Int /\ link[n][m] # <<>> /\ Timed(Head(link[n][m]))
                        /\ handling[n][m] >= 2 * Head(link[n][m]).exp - (now + 1)
      BY DEF DurationsRight, Timed
    <2>1. /\ handling[n][m] \in Int /\ link[n][m] # <<>> /\ Timed(Head(link[n][m]))
          /\ handling[n][m] >= 2 * Head(link[n][m]).exp - now
      BY DEF DurationsRight
    <2>2. Head(link[n][m]).exp \in Nat /\ now \in Nat
      <3>1. link[n][m] \in Seq(Message)
        BY DEF Types
      <3>2. Head(link[n][m]) \in Message
        BY <2>1, <3>1, TailElements
      <3> QED BY <3>2 DEF Types, Message
    <2> QED BY <2>1, <2>2, LaterBound, Zenon
  <1> QED BY <1>1, <1>2, <1>3, KeptEntries

\* An entry that is evicted is one that a Put with an expiry has made.
LEMMA EvictDoes ==
    ASSUME IInv, NEW n \in Active, NEW k \in Keys, Evict(n, k)
    PROVE  /\ RightEntry(k, cache[n][k]) /\ cache[n][k].due # NO_EXPIRY /\ cache[n][k].val # None
           /\ cache'[n][k] \in Gap /\ cache'[n][k].val = None /\ cache'[n][k].due = cache[n][k].due
           /\ cache' \in [Active -> [Keys -> Entry \union Gap]]
           /\ \A m \in Active, j \in Keys : (m # n \/ j # k) => cache'[m][j] = cache[m][j]
           /\ UNCHANGED <<now, caller, calls, replicationChan, worker, link, handling, writes, contended>>
  <1> DEFINE e == cache[n][k]
             gap == NoEntry(e.due)
  <1>1. /\ e.exp # NO_EXPIRY /\ cache' = [cache EXCEPT ![n][k] = gap]
        /\ UNCHANGED <<now, caller, calls, replicationChan, worker, link, handling, writes, contended>>
    BY Zenon DEF Evict, history
  <1>2. cache \in [Active -> [Keys -> Entry \union Gap]] /\ e \in Entry \union Gap
    BY ZenonT(60) DEF IInv, Types
  <1> HIDE DEF e
  <1>3. e \in Entry
    BY <1>1, <1>2, GapFields, Zenon
  <1>4. e.val \in Values /\ e.due \in Nat
    BY <1>3, EntryFields, Zenon
  <1>5. e.val # None
    BY <1>4, ReplicationAssumption, Zenon
  <1>6. RightEntry(k, e)
    BY <1>5, Zenon DEF IInv, EntriesRight, e
  <1>7. e.due # NO_EXPIRY
    BY <1>1, <1>6, Zenon DEF RightEntry
  <1>8. gap \in Gap /\ gap.val = None /\ gap.due = e.due
    BY <1>4, Zenon DEF Gap, NoEntry
  <1> HIDE DEF gap
  <1>9. cache'[n][k] = gap /\ \A m \in Active, j \in Keys : (m # n \/ j # k) => cache'[m][j] = cache[m][j]
    BY <1>1, <1>2, Zenon
  <1>10. cache' \in [Active -> [Keys -> Entry \union Gap]]
    BY <1>1, <1>2, <1>8, Zenon
  <1> QED BY <1>1, <1>5, <1>6, <1>7, <1>8, <1>9, <1>10, Zenon DEF e

LEMMA EvictInv == ASSUME IInv, NEW n \in Active, NEW k \in Keys, Evict(n, k) PROVE IInv'
  <1>1. /\ cache' \in [Active -> [Keys -> Entry \union Gap]] /\ cache'[n][k].val = None
        /\ \A m \in Active, j \in Keys : (m # n \/ j # k) => cache'[m][j] = cache[m][j]
        /\ UNCHANGED <<now, caller, calls, replicationChan, worker, link, handling, writes, contended>>
    BY EvictDoes, Zenon
  <1> USE DEF IInv
  <1>2. Types'
    BY <1>1, Zenon DEF Types
  <1>3. OnTheWay'
    BY <1>1, KeptOnTheWay, SMTT(30)
  <1>4. EntriesRight'
    <2> SUFFICES ASSUME NEW m \in Active, NEW j \in Keys, cache'[m][j].val # None
                 PROVE  RightEntry(j, cache[m][j])'
      BY Zenon DEF EntriesRight
    <2>1. cache'[m][j] = cache[m][j]
      BY <1>1, Zenon
    <2>2. RightEntry(j, cache[m][j])
      BY <2>1, Zenon DEF EntriesRight
    <2>3. \A w : Written(w)' <=> Written(w)
      BY <1>1 DEF Written
    <2> QED BY <2>1, <2>2, <2>3, Zenon DEF RightEntry
  <1> QED BY <1>1, <1>2, <1>3, <1>4, KeptDurations

\* What Put and Delete hand to Write.
Fits(msg, entry) ==
    /\ msg \in Message /\ entry.val = msg.val
    /\ \/ entry = Absent
       \/ /\ entry \in Entry
          /\ entry.exp = msg.exp /\ entry.due = msg.exp /\ entry.instant = FALSE

LEMMA WriteInv ==
    ASSUME IInv, NEW c \in Callers, NEW msg, NEW entry, Fits(msg, entry), Write(c, msg, entry)
    PROVE  IInv'
  <1> USE DEF IInv
  <1>1. /\ cache' = IF HomeOf[c] \in Active THEN [cache EXCEPT ![HomeOf[c]][msg.key] = entry] ELSE cache
        /\ caller' = [caller EXCEPT ![c] = [todo |-> Replicas(HomeOf[c]), msg |-> msg]]
        /\ writes' = [writes EXCEPT ![msg.key] = Append(writes[msg.key], msg)]
        /\ calls' = [calls EXCEPT ![c] = calls[c] + 1] /\ calls[c] < MaxCalls
        /\ UNCHANGED <<now, replicationChan, worker, link, handling>>
    BY DEF Write, history
  <1>2. msg \in Message /\ msg.key \in Keys /\ entry \in Entry \union Gap
    BY AbsentGap DEF Fits, Message
  <1>3. /\ HomeOf[c] \in Nodes
        /\ Replicas(HomeOf[c]) \subseteq Active \ {HomeOf[c]}
    BY ReplicationAssumption DEF Replicas, Peers, Active
  <1>4. /\ Append(writes[msg.key], msg) \in Seq(Message)
        /\ \E i \in 1 .. Len(Append(writes[msg.key], msg)) : Append(writes[msg.key], msg)[i] = msg
        /\ \A j \in 1 .. Len(writes[msg.key]) : \E i \in 1 .. Len(Append(writes[msg.key], msg)) :
              Append(writes[msg.key], msg)[i] = writes[msg.key][j]
    <2>1. writes[msg.key] \in Seq(Message)
      BY <1>2 DEF Types
    <2> QED BY <1>2, <2>1, AppendMessage, AppendOld, ZenonT(60)
  <1>5. Written(msg)' /\ \A x : Written(x) => Written(x)'
    <2>1. Written(msg)'
      BY <1>1, <1>2, <1>4, Zenon DEF Written, Types
    <2>2. ASSUME NEW x, Written(x) PROVE Written(x)'
      <3>1. x.key \in Keys
        BY <2>2, SMTT(30) DEF Written, Message
      <3>2. CASE x.key = msg.key
        BY <1>1, <1>2, <1>4, <2>2, <3>2, Zenon DEF Written, Types
      <3>3. CASE x.key # msg.key
        BY <1>1, <2>2, <3>1, <3>3, Zenon DEF Written, Types
      <3> QED BY <3>2, <3>3
    <2> QED BY <2>1, <2>2
  <1>6. Types'
    <2>1. caller' \in [Callers -> Call]
      <3>1. [todo |-> Replicas(HomeOf[c]), msg |-> msg] \in Call
        BY <1>2, <1>3 DEF Call, Active
      <3> QED BY <1>1, <3>1 DEF Types
    <2>2. calls' \in [Callers -> 0 .. MaxCalls]
      BY <1>1, ReplicationAssumption DEF Types
    <2>3. cache' \in [Active -> [Keys -> Entry \union Gap]]
      BY <1>1, <1>2, Zenon DEF Types
    <2>4. writes' \in [Keys -> Seq(Message)]
      BY <1>1, <1>2, <1>4, Zenon DEF Types
    <2>5. contended' \subseteq Keys
      BY <1>2 DEF Types, Write
    <2> QED BY <1>1, <2>1, <2>2, <2>3, <2>4, <2>5, Zenon DEF Types
  <1>7. OnTheWay'
    <2>1. caller'[c].todo = Replicas(HomeOf[c]) /\ caller'[c].msg = msg /\ \A d \in Callers \ {c} : caller'[d] = caller[d]
      BY <1>1, Zenon DEF Types
    <2>2. \A d \in Callers : caller'[d].todo \subseteq Active \ {HomeOf[d]}
      BY <2>1, <1>3, Zenon DEF OnTheWay
    <2>3. \A d \in Callers : caller'[d].todo # {} => Written(caller[d].msg)'
      BY <2>1, <1>5, Zenon DEF OnTheWay
    <2>4. \A e : Addressed(e) => Addressed(e)'
      BY <1>5, SMTT(30) DEF Addressed
    <2>5. \A n \in Nodes : \A i \in 1 .. Len(replicationChan[n]) : Addressed(replicationChan[n][i])'
      BY <1>1, <2>4 DEF OnTheWay
    <2>6. \A n \in Nodes, w \in Workers : worker[n][w] # Nothing => Addressed(worker[n][w])'
      BY <1>1, <2>4 DEF OnTheWay
    <2>7. \A n \in Nodes, m \in Nodes : \A i \in 1 .. Len(link[n][m]) : m \in Active /\ Written(link[n][m][i])'
      BY <1>1, <1>5 DEF OnTheWay
    <2> QED BY <1>1, <2>2, <2>3, <2>5, <2>6, <2>7, Zenon DEF OnTheWay
  <1>8. EntriesRight'
    <2> SUFFICES ASSUME NEW m \in Active, NEW k \in Keys, cache'[m][k].val # None
                 PROVE  RightEntry(k, cache[m][k])'
      BY SMTT(30) DEF EntriesRight
    <2>1. CASE cache'[m][k] = cache[m][k]
      BY <2>1, <1>5, Zenon DEF EntriesRight, RightEntry
    <2>2. CASE cache'[m][k] # cache[m][k]
      <3>1. cache'[m][k] = entry /\ k = msg.key
        BY <2>2, <1>1, <1>2, Zenon DEF Types
      <3>2. /\ entry.val \in Values /\ entry.exp \in Nat /\ entry.due \in Nat
            /\ entry.val = msg.val /\ entry.exp = msg.exp /\ entry.due = msg.exp
        BY <3>1, AbsentGap DEF Fits, Entry
      <3>3. entry.instant = FALSE
        BY <3>1, AbsentGap DEF Fits
      <3>4. [key |-> k, val |-> entry.val, exp |-> entry.due] = msg
        BY <1>2, <3>1, <3>2 DEF Message
      <3> QED BY <1>5, <3>1, <3>2, <3>3, <3>4, SMTT(30) DEF RightEntry, NO_EXPIRY
    <2> QED BY <2>1, <2>2
  <1> QED BY <1>1, <1>6, <1>7, <1>8, KeptDurations

LEMMA CallInv ==
    ASSUME IInv, NEW c \in Callers, NEW k \in Keys,
           Delete(c, k) \/ \E v \in Values, d \in Durations : Put(c, k, v, d)
    PROVE  \E msg, entry : Fits(msg, entry) /\ Write(c, msg, entry)
  <1>1. CASE Delete(c, k)
    <2>1. Fits([key |-> k, val |-> None, exp |-> NO_EXPIRY], Absent)
      BY AbsentGap DEF Fits, Message, NO_EXPIRY
    <2> QED BY <1>1, <2>1 DEF Delete
  <1>2. CASE \E v \in Values, d \in Durations : Put(c, k, v, d)
    <2> PICK v \in Values, d \in Durations : Put(c, k, v, d)
      BY <1>2
    <2> PICK exp \in Expiry(d) : Write(c, [key |-> k, val |-> v, exp |-> exp],
                                      [val |-> v, exp |-> exp, due |-> exp, instant |-> FALSE])
      BY Zenon DEF Put
    <2>1. exp \in Nat
      BY ExpiryOfPut, ReplicationAssumption DEF IInv, Types
    <2>2. Fits([key |-> k, val |-> v, exp |-> exp], [val |-> v, exp |-> exp, due |-> exp, instant |-> FALSE])
      BY <2>1 DEF Fits, Message, Entry
    <2> QED BY <2>2
  <1> QED BY <1>1, <1>2

LEMMA ReplicateInv == ASSUME IInv, NEW c \in Callers, Replicate(c) PROVE IInv'
  <1> USE DEF IInv
  <1> DEFINE n == HomeOf[c]
  <1> PICK peer \in caller[c].todo :
         /\ replicationChan' = [replicationChan EXCEPT ![n] =
                                  Append(replicationChan[n], [to |-> peer, msg |-> caller[c].msg])]
         /\ caller' = [caller EXCEPT ![c].todo = caller[c].todo \ {peer}]
         /\ UNCHANGED <<now, cache, calls, worker, link, handling, writes, contended>>
    BY Zenon DEF Replicate, history
  <1> DEFINE e == [to |-> peer, msg |-> caller[c].msg]
  <1>1. n \in Nodes /\ replicationChan[n] \in Seq(Envelope)
    BY ReplicationAssumption, Zenon DEF Types
  <1>2. Addressed(e) /\ e \in Envelope
    <2>1. peer \in Active /\ peer \in Nodes /\ Written(caller[c].msg) /\ caller[c].msg \in Message
      BY Zenon DEF OnTheWay, Active, Written
    <2>2. e \in Envelope
      BY <2>1 DEF Envelope
    <2> QED BY <2>1, <2>2, ZenonT(60) DEF Addressed
  <1> HIDE DEF e
  <1>3. /\ Append(replicationChan[n], e) \in Seq(Envelope)
        /\ \A i \in 1 .. Len(Append(replicationChan[n], e)) : Addressed(Append(replicationChan[n], e)[i])
    <2>1. \A i \in 1 .. Len(replicationChan[n]) : Addressed(replicationChan[n][i])
      BY <1>1 DEF OnTheWay
    <2> HIDE DEF n
    <2>2. /\ Append(replicationChan[n], e) \in Seq(Envelope)
          /\ \A i \in 1 .. Len(Append(replicationChan[n], e)) :
               \/ Append(replicationChan[n], e)[i] = e
               \/ \E j \in 1 .. Len(replicationChan[n]) : Append(replicationChan[n], e)[i] = replicationChan[n][j]
      BY <1>1, <1>2, AppendElements
    <2> QED BY <1>2, <2>1, <2>2
  <1>4. replicationChan' = [replicationChan EXCEPT ![n] = Append(replicationChan[n], e)]
    BY DEF e
  <1> HIDE DEF n
  <1>5. Types'
    <2>1. caller' \in [Callers -> Call]
      <3>1. caller[c] \in Call
        BY DEF Types
      <3>2. [caller[c] EXCEPT !.todo = caller[c].todo \ {peer}] \in Call
        BY <3>1 DEF Call
      <3>3. caller' = [caller EXCEPT ![c] = [caller[c] EXCEPT !.todo = caller[c].todo \ {peer}]]
        OBVIOUS
      <3> QED BY <3>2, <3>3, SMTT(30) DEF Types
    <2>2. replicationChan' \in [Nodes -> Seq(Envelope)]
      BY <1>1, <1>3, <1>4 DEF Types
    <2> QED BY <2>1, <2>2 DEF Types
  <1>6. OnTheWay'
    <2>1. \A d \in Callers : caller'[d].todo \subseteq caller[d].todo /\ caller'[d].msg = caller[d].msg
      BY DEF Types, Call
    <2>2. \A x : Written(x)' <=> Written(x)
      BY DEF Written
    <2>3. \A x : Addressed(x)' <=> Addressed(x)
      BY <2>2 DEF Addressed
    <2>4. \A m \in Nodes : \A i \in 1 .. Len(replicationChan'[m]) : Addressed(replicationChan[m][i])'
      <3>1. \A m \in Nodes : \A i \in 1 .. Len(replicationChan'[m]) : Addressed(replicationChan'[m][i])
        BY <1>1, <1>3, <1>4, Zenon DEF OnTheWay, Types
      <3> QED BY <2>3, <3>1
    <2>5. \A d \in Callers : caller'[d].todo # {} => Written(caller[d].msg)'
      BY <2>1, <2>2 DEF OnTheWay
    <2>6. \A m \in Nodes, w \in Workers : worker[m][w] # Nothing => Addressed(worker[m][w])'
      BY <2>3 DEF OnTheWay
    <2>7. \A q \in Nodes, m \in Nodes : \A i \in 1 .. Len(link[q][m]) : m \in Active /\ Written(link[q][m][i])'
      BY <2>2 DEF OnTheWay
    <2> QED BY <2>1, <2>4, <2>5, <2>6, <2>7 DEF OnTheWay
  <1> QED BY <1>5, <1>6, KeptDurations, KeptEntries

LEMMA TakeInv == ASSUME IInv, NEW n \in Nodes, NEW w \in Workers, ReplicationTake(n, w) PROVE IInv'
  <1> USE DEF IInv
  <1>1. /\ worker' = [worker EXCEPT ![n][w] = Head(replicationChan[n])]
        /\ replicationChan' = [replicationChan EXCEPT ![n] = Tail(replicationChan[n])]
        /\ replicationChan[n] # <<>> /\ replicationChan[n] \in Seq(Envelope)
        /\ UNCHANGED <<now, cache, caller, calls, link, handling, writes, contended>>
    BY DEF ReplicationTake, Types, history
  <1>2. /\ Head(replicationChan[n]) \in Envelope /\ Addressed(Head(replicationChan[n]))
        /\ Tail(replicationChan[n]) \in Seq(Envelope)
        /\ \A i \in 1 .. Len(Tail(replicationChan[n])) : Addressed(Tail(replicationChan[n])[i])
    BY <1>1, TailElements DEF OnTheWay
  <1>3. Types'
    <2>1. worker' \in [Nodes -> [Workers -> Envelope \union {Nothing}]]
      BY <1>1, <1>2 DEF Types
    <2>2. replicationChan' \in [Nodes -> Seq(Envelope)]
      BY <1>1, <1>2 DEF Types
    <2> QED BY <1>1, <2>1, <2>2 DEF Types
  <1>4. OnTheWay'
    <2>1. \A x : Addressed(x)' <=> Addressed(x)
      BY <1>1 DEF Addressed, Written
    <2>2. \A m \in Nodes : \A i \in 1 .. Len(replicationChan'[m]) : Addressed(replicationChan'[m][i])
      BY <1>1, <1>2, Zenon DEF OnTheWay, Types
    <2>3. \A m \in Nodes, v \in Workers : worker'[m][v] # Nothing => Addressed(worker'[m][v])
      BY <1>1, <1>2, Zenon DEF OnTheWay, Types
    <2>4. \A m \in Nodes : \A i \in 1 .. Len(replicationChan'[m]) : Addressed(replicationChan[m][i])'
      BY <2>1, <2>2
    <2>5. \A m \in Nodes, v \in Workers : worker'[m][v] # Nothing => Addressed(worker[m][v])'
      BY <2>1, <2>3
    <2>6. \A x : Written(x)' <=> Written(x)
      BY <1>1 DEF Written
    <2>7. \A q \in Nodes, m \in Nodes : \A i \in 1 .. Len(link[q][m]) : m \in Active /\ Written(link[q][m][i])'
      BY <1>1, <2>6 DEF OnTheWay
    <2>8. \A c \in Callers : caller'[c].todo # {} => Written(caller[c].msg)'
      BY <1>1, <2>6 DEF OnTheWay
    <2> QED BY <1>1, <2>4, <2>5, <2>7, <2>8, Zenon DEF OnTheWay
  <1> QED BY <1>1, <1>3, <1>4, KeptDurations, KeptEntries

LEMMA SendInv == ASSUME IInv, NEW n \in Nodes, NEW w \in Workers, ReplicationSend(n, w) PROVE IInv'
  <1> USE DEF IInv
  <1> DEFINE m == worker[n][w].to
             msg == worker[n][w].msg
  <1>1. /\ link' = [link EXCEPT ![n][m] = Append(link[n][m], msg)]
        /\ worker' = [worker EXCEPT ![n][w] = Nothing]
        /\ UNCHANGED <<now, cache, caller, calls, replicationChan, handling, writes, contended>>
    BY Zenon DEF ReplicationSend, history
  <1>2. m \in Active /\ m \in Nodes /\ Written(msg) /\ msg \in Message
    BY ZenonT(60) DEF ReplicationSend, OnTheWay, Addressed, Written, Active, history
  <1> HIDE DEF m, msg
  <1>3. link[n][m] \in Seq(Message)
    BY <1>2 DEF Types
  <1>4. /\ Append(link[n][m], msg) \in Seq(Message)
        /\ \A i \in 1 .. Len(Append(link[n][m], msg)) : Written(Append(link[n][m], msg)[i])
        /\ link[n][m] # <<>> => Append(link[n][m], msg) # <<>> /\ Head(Append(link[n][m], msg)) = Head(link[n][m])
    <2>1. \A i \in 1 .. Len(link[n][m]) : Written(link[n][m][i])
      BY <1>2, Zenon DEF OnTheWay
    <2>2. Append(link[n][m], msg) \in Seq(Message)
      BY <1>2, <1>3, AppendMessage, Zenon
    <2>3. \A i \in 1 .. Len(Append(link[n][m], msg)) : Written(Append(link[n][m], msg)[i])
      <3>1. \A i \in 1 .. Len(Append(link[n][m], msg)) :
              Append(link[n][m], msg)[i] = msg \/ \E j \in 1 .. Len(link[n][m]) : Append(link[n][m], msg)[i] = link[n][m][j]
        BY <1>2, <1>3, AppendFrom, Zenon
      <3> QED BY <1>2, <2>1, <3>1, Zenon
    <2>4. link[n][m] # <<>> => Append(link[n][m], msg) # <<>> /\ Head(Append(link[n][m], msg)) = Head(link[n][m])
      BY <1>2, <1>3, AppendHead, Zenon
    <2> QED BY <2>2, <2>3, <2>4, Zenon
  <1>5. link'[n][m] = Append(link[n][m], msg) /\ \A q, r \in Nodes : (q # n \/ r # m) => link'[q][r] = link[q][r]
    BY <1>1, <1>2, Zenon DEF Types
  <1>6. Types'
    <2>1. worker' \in [Nodes -> [Workers -> Envelope \union {Nothing}]]
      BY <1>1 DEF Types
    <2>2. link' \in [Nodes -> [Nodes -> Seq(Message)]]
      BY <1>1, <1>2, <1>4, Zenon DEF Types
    <2> QED BY <1>1, <2>1, <2>2, Zenon DEF Types
  <1>7. OnTheWay'
    <2>1. \A x : Written(x)' <=> Written(x)
      BY <1>1 DEF Written
    <2>2. \A x : Addressed(x)' <=> Addressed(x)
      BY <2>1 DEF Addressed
    <2>3. \A q \in Nodes, r \in Nodes : \A i \in 1 .. Len(link'[q][r]) : r \in Active /\ Written(link'[q][r][i])
      <3> TAKE q \in Nodes, r \in Nodes
      <3>1. CASE q = n /\ r = m
        BY <3>1, <1>2, <1>4, <1>5, Zenon
      <3>2. CASE q # n \/ r # m
        <4>1. link'[q][r] = link[q][r]
          BY <3>2, <1>5, Zenon
        <4> QED BY <4>1, Zenon DEF OnTheWay
      <3> QED BY <3>1, <3>2, Zenon
    <2>4. \A q \in Nodes, r \in Nodes : \A i \in 1 .. Len(link'[q][r]) : r \in Active /\ Written(link[q][r][i])'
      BY <2>1, <2>3, ZenonT(60)
    <2>5. \A q \in Nodes, v \in Workers : worker'[q][v] # Nothing => Addressed(worker'[q][v])
      BY <1>1, Zenon DEF OnTheWay, Types
    <2>6. \A q \in Nodes, v \in Workers : worker'[q][v] # Nothing => Addressed(worker[q][v])'
      BY <2>2, <2>5
    <2>7. \A q \in Nodes : \A i \in 1 .. Len(replicationChan[q]) : Addressed(replicationChan[q][i])'
      BY <1>1, <2>2, Zenon DEF OnTheWay
    <2>8. \A c \in Callers : caller'[c].todo # {} => Written(caller[c].msg)'
      BY <1>1, <2>1, ZenonT(60) DEF OnTheWay
    <2> QED BY <1>1, <2>4, <2>6, <2>7, <2>8, Zenon DEF OnTheWay
  <1>8. DurationsRight'
    BY <1>1, <1>4, <1>5, SMTT(30) DEF DurationsRight, Timed
  <1> QED BY <1>1, <1>6, <1>7, <1>8, KeptEntries, Zenon

LEMMA RemainingInv == ASSUME IInv, NEW n \in Nodes, NEW m \in Nodes, Remaining(n, m) PROVE IInv'
  <1> USE DEF IInv
  <1>1. /\ link[n][m] # <<>> /\ Timed(Head(link[n][m]))
        /\ handling' = [handling EXCEPT ![n][m] = 2 * Head(link[n][m]).exp - now]
        /\ UNCHANGED <<now, cache, caller, calls, replicationChan, worker, link, writes, contended>>
    BY DEF Remaining, history
  <1>2. now \in Nat /\ Head(link[n][m]).exp \in Nat
    <2>1. link[n][m] \in Seq(Message)
      BY DEF Types
    <2>2. Head(link[n][m]) \in Message
      BY <1>1, <2>1, TailElements
    <2> QED BY <2>2 DEF Types, Message
  <1> DEFINE d == 2 * Head(link[n][m]).exp - now
  <1>3. d \in Int /\ d >= 2 * Head(link[n][m]).exp - now /\ handling' = [handling EXCEPT ![n][m] = d]
    BY <1>1, <1>2, SMTT(30)
  <1> HIDE DEF d
  <1>4. Types'
    <2>1. handling' \in [Nodes -> [Nodes -> Int \union {None}]]
      BY <1>3, Zenon DEF Types
    <2> QED BY <1>1, <2>1, Zenon DEF Types
  <1>5. DurationsRight'
    <2>1. handling'[n][m] = d /\ \A q, r \in Nodes : (q # n \/ r # m) => handling'[q][r] = handling[q][r]
      BY <1>3 DEF Types
    <2> QED BY <1>1, <1>3, <2>1 DEF DurationsRight, Timed
  <1> QED BY <1>1, <1>4, <1>5, KeptOnTheWay, KeptEntries

\* What handlePut stores.
LEMMA StoredEntry ==
    ASSUME IInv, NEW m \in Active, NEW msg, Written(msg), msg.val # None, NEW d \in Int,
           Timed(msg) => d >= 2 * msg.exp - now,
           ~Timed(msg) => d = NO_EXPIRY,
           Store(m, msg, d)
    PROVE  \E e \in Entry : cache' = [cache EXCEPT ![m][msg.key] = e] /\ RightEntry(msg.key, e)
                             /\ e.val = msg.val /\ e.due = msg.exp
  <1> PICK exp \in Expiry(d) :
        cache' = [cache EXCEPT ![m][msg.key] =
                    [val |-> msg.val, exp |-> exp, due |-> msg.exp, instant |-> msg.exp # NO_EXPIRY /\ d = 0]]
    BY Zenon DEF Store
  <1> DEFINE instant == msg.exp # NO_EXPIRY /\ d = 0
             e == [val |-> msg.val, exp |-> exp, due |-> msg.exp, instant |-> instant]
  <1>1. msg \in Message /\ msg.val \in Values /\ msg.exp \in Nat /\ msg.key \in Keys
    BY SMTT(30) DEF Written, Message
  <1>2. now \in Nat /\ now > 1
    BY DEF IInv, Types
  <1>3. /\ exp \in Nat
        /\ IF msg.exp = NO_EXPIRY \/ instant THEN exp = NO_EXPIRY ELSE exp >= msg.exp - 1 /\ exp # NO_EXPIRY
    <2>1. CASE msg.exp = NO_EXPIRY
      <3>1. d = NO_EXPIRY
        BY <2>1 DEF Timed
      <3>2. exp = NO_EXPIRY
        BY <3>1 DEF Expiry, NO_EXPIRY
      <3> QED BY <2>1, <3>2 DEF NO_EXPIRY
    <2>2. CASE msg.exp # NO_EXPIRY
      <3>1. d >= 2 * msg.exp - now
        BY <2>2 DEF Timed
      <3>2. /\ exp \in Nat
            /\ IF d = 0 THEN exp = NO_EXPIRY ELSE exp >= msg.exp - 1 /\ exp # NO_EXPIRY
        BY <1>1, <1>2, <2>2, <3>1, ExpiryBound
      <3> QED BY <2>2, <3>2
    <2> QED BY <2>1, <2>2
  <1>4. instant \in BOOLEAN
    OBVIOUS
  <1> HIDE DEF instant
  <1>5. e \in Entry
    BY <1>1, <1>3, <1>4 DEF Entry
  <1>6. [key |-> msg.key, val |-> e.val, exp |-> e.due] = msg
    BY <1>1 DEF Message
  <1>7. e.val = msg.val /\ e.exp = exp /\ e.due = msg.exp /\ e.instant = instant
    OBVIOUS
  <1>8. cache' = [cache EXCEPT ![m][msg.key] = e]
    BY SMTT(30) DEF instant
  <1> HIDE DEF e
  <1>9. RightEntry(msg.key, e)
    BY <1>1, <1>3, <1>6, <1>7, Zenon DEF RightEntry
  <1> QED BY <1>5, <1>7, <1>8, <1>9, Zenon

\* What a step of the message handler does: the message is taken off the
\* connection, and the cache has the entry of its Put, or none.
Handled(n, m, msg, e) ==
    /\ m \in Active /\ link[n][m] # <<>> /\ msg = Head(link[n][m]) /\ Written(msg) /\ msg.key \in Keys
    /\ e \in Entry \union Gap
    /\ e.val # None => RightEntry(msg.key, e)
    /\ e.val = msg.val /\ (msg.val # None => e.due = msg.exp)
    /\ cache' = [cache EXCEPT ![m][msg.key] = e]
    /\ link' = [link EXCEPT ![n][m] = Tail(link[n][m])]
    /\ handling' = [handling EXCEPT ![n][m] = None]
    /\ UNCHANGED <<now, caller, calls, replicationChan, worker, writes, contended>>

LEMMA HandleDoes ==
    ASSUME IInv, NEW n \in Nodes, NEW m \in Nodes, Handle(n, m)
    PROVE  \E msg, e : Handled(n, m, msg, e)
  <1> USE DEF IInv
  <1> DEFINE msg == Head(link[n][m])
  <1>1. link[n][m] \in Seq(Message) /\ link[n][m] # <<>> /\ m \in Active
    BY Zenon DEF Handle, Types, history
  <1>2. Written(msg) /\ msg.key \in Keys
    <2>1. 1 \in 1 .. Len(link[n][m]) /\ msg = link[n][m][1] /\ msg \in Message
      BY <1>1, TailElements, Zenon
    <2> QED BY <2>1 DEF OnTheWay, Message
  <1>3. /\ link' = [link EXCEPT ![n][m] = Tail(link[n][m])]
        /\ handling' = [handling EXCEPT ![n][m] = None]
        /\ UNCHANGED <<now, caller, calls, replicationChan, worker, writes, contended>>
    BY ZenonT(60) DEF Handle, history
  <1>4. \/ Timed(msg) /\ handling[n][m] # None /\ Store(m, msg, handling[n][m])
        \/ ~Timed(msg) /\ msg.val # None /\ Store(m, msg, NO_EXPIRY)
        \/ msg.val = None /\ cache' = [cache EXCEPT ![m][msg.key] = Absent]
    BY Zenon DEF Handle, history
  <1>5. CASE Timed(msg) /\ handling[n][m] # None /\ Store(m, msg, handling[n][m])
    <2>1. handling[n][m] \in Int /\ handling[n][m] >= 2 * msg.exp - now /\ msg.val # None
      BY <1>5, Zenon DEF DurationsRight, Timed
    <2> HIDE DEF msg
    <2>2. PICK e \in Entry : /\ cache' = [cache EXCEPT ![m][msg.key] = e] /\ RightEntry(msg.key, e)
                              /\ e.val = msg.val /\ e.due = msg.exp
      BY <1>1, <1>2, <1>5, <2>1, StoredEntry
    <2> QED BY <1>1, <1>2, <1>3, <2>2, Zenon DEF Handled, msg
  <1>6. CASE ~Timed(msg) /\ msg.val # None /\ Store(m, msg, NO_EXPIRY)
    <2>1. NO_EXPIRY \in Int
      BY DEF NO_EXPIRY
    <2> HIDE DEF msg
    <2>2. PICK e \in Entry : /\ cache' = [cache EXCEPT ![m][msg.key] = e] /\ RightEntry(msg.key, e)
                              /\ e.val = msg.val /\ e.due = msg.exp
      BY <1>1, <1>2, <1>6, <2>1, StoredEntry
    <2> QED BY <1>1, <1>2, <1>3, <2>2, Zenon DEF Handled, msg
  <1>7. CASE msg.val = None /\ cache' = [cache EXCEPT ![m][msg.key] = Absent]
    <2>1. Handled(n, m, msg, Absent)
      BY <1>1, <1>2, <1>3, <1>7, AbsentGap, ZenonT(60) DEF Handled
    <2> QED BY <2>1
  <1> QED BY <1>4, <1>5, <1>6, <1>7, Zenon

LEMMA HandleInv == ASSUME IInv, NEW n \in Nodes, NEW m \in Nodes, Handle(n, m) PROVE IInv'
  <1> USE DEF IInv
  <1> PICK msg, e : Handled(n, m, msg, e)
    BY HandleDoes, Zenon
  <1> USE DEF Handled
  <1>1. link[n][m] \in Seq(Message) /\ link[n][m] # <<>>
    BY Zenon DEF Types
  <1>2. /\ Tail(link[n][m]) \in Seq(Message)
        /\ \A i \in 1 .. Len(Tail(link[n][m])) : \E j \in 1 .. Len(link[n][m]) : Tail(link[n][m])[i] = link[n][m][j]
    BY <1>1, TailElements, Zenon
  <1>3. link'[n][m] = Tail(link[n][m]) /\ \A q, r \in Nodes : (q # n \/ r # m) => link'[q][r] = link[q][r]
    BY Zenon DEF Types
  <1>4. handling'[n][m] = None /\ \A q, r \in Nodes : (q # n \/ r # m) => handling'[q][r] = handling[q][r]
    BY Zenon DEF Types
  <1>5. Types'
    <2>1. cache' \in [Active -> [Keys -> Entry \union Gap]]
      BY Zenon DEF Types
    <2>2. link' \in [Nodes -> [Nodes -> Seq(Message)]]
      BY <1>2, Zenon DEF Types
    <2>3. handling' \in [Nodes -> [Nodes -> Int \union {None}]]
      BY Zenon DEF Types
    <2> QED BY <2>1, <2>2, <2>3, Zenon DEF Types
  <1>6. OnTheWay'
    <2>1. \A x : Written(x)' <=> Written(x)
      BY Zenon DEF Written
    <2>2. \A x : Addressed(x)' <=> Addressed(x)
      BY <2>1, ZenonT(60) DEF Addressed
    <2>3. \A q \in Nodes, r \in Nodes : \A i \in 1 .. Len(link'[q][r]) : r \in Active /\ Written(link'[q][r][i])
      <3> TAKE q \in Nodes, r \in Nodes
      <3>1. CASE q = n /\ r = m
        BY <3>1, <1>2, <1>3 DEF OnTheWay
      <3>2. CASE q # n \/ r # m
        <4>1. link'[q][r] = link[q][r]
          BY <3>2, <1>3, Zenon
        <4> QED BY <4>1, Zenon DEF OnTheWay
      <3> QED BY <3>1, <3>2, Zenon
    <2>4. \A q \in Nodes, r \in Nodes : \A i \in 1 .. Len(link'[q][r]) : r \in Active /\ Written(link[q][r][i])'
      BY <2>1, <2>3, Zenon
    <2>5. \A q \in Nodes, v \in Workers : worker'[q][v] # Nothing => Addressed(worker[q][v])'
      BY <2>2, Zenon DEF OnTheWay
    <2>6. \A q \in Nodes : \A i \in 1 .. Len(replicationChan'[q]) : Addressed(replicationChan[q][i])'
      BY <2>2, ZenonT(60) DEF OnTheWay
    <2>7. \A c \in Callers : caller'[c].todo # {} => Written(caller[c].msg)'
      BY <2>1, Zenon DEF OnTheWay
    <2> QED BY <2>4, <2>5, <2>6, <2>7, Zenon DEF OnTheWay
  <1>7. DurationsRight'
    <2> SUFFICES ASSUME NEW q \in Nodes, NEW r \in Nodes, handling'[q][r] # None
                 PROVE  (/\ handling[q][r] \in Int /\ link[q][r] # <<>> /\ Timed(Head(link[q][r]))
                         /\ handling[q][r] >= 2 * Head(link[q][r]).exp - now)'
      BY ZenonT(60) DEF DurationsRight
    <2>1. handling'[q][r] = handling[q][r] /\ link'[q][r] = link[q][r]
      BY <1>3, <1>4, Zenon
    <2>2. /\ handling[q][r] \in Int /\ link[q][r] # <<>> /\ Timed(Head(link[q][r]))
          /\ handling[q][r] >= 2 * Head(link[q][r]).exp - now
      BY <2>1, Zenon DEF DurationsRight
    <2> QED BY <2>1, <2>2, Zenon DEF Timed
  <1>8. EntriesRight'
    <2> SUFFICES ASSUME NEW q \in Active, NEW k \in Keys, cache'[q][k].val # None
                 PROVE  RightEntry(k, cache[q][k])'
      BY Zenon DEF EntriesRight
    <2>1. \A x, y : RightEntry(x, y)' <=> RightEntry(x, y)
      BY ZenonT(60) DEF RightEntry, Written
    <2>2. CASE cache'[q][k] = cache[q][k]
      BY <2>1, <2>2, Zenon DEF EntriesRight
    <2>3. CASE cache'[q][k] # cache[q][k]
      <3>1. cache'[q][k] = e /\ k = msg.key
        BY <2>3, Zenon DEF Types
      <3> QED BY <2>1, <3>1, Zenon
    <2> QED BY <2>2, <2>3, ZenonT(60)
  <1> QED BY <1>5, <1>6, <1>7, <1>8, Zenon

LEMMA NextInv == IInv /\ [Next]_vars => IInv'
  <1> SUFFICES ASSUME IInv, [Next]_vars PROVE IInv'
    OBVIOUS
  <1>1. CASE \E c \in Callers, k \in Keys :
               Delete(c, k) \/ \E v \in Values, d \in Durations : Put(c, k, v, d)
    BY <1>1, CallInv, WriteInv
  <1>2. CASE \E c \in Callers : Replicate(c)
    BY <1>2, ReplicateInv
  <1>3. CASE \E n \in Nodes, w \in Workers : ReplicationTake(n, w) \/ ReplicationSend(n, w)
    BY <1>3, TakeInv, SendInv
  <1>4. CASE \E n, m \in Nodes : Remaining(n, m) \/ Handle(n, m)
    BY <1>4, RemainingInv, HandleInv
  <1>5. CASE \E n \in Active, k \in Keys : Evict(n, k)
    BY <1>5, EvictInv
  <1>6. CASE Tick
    BY <1>6, TickInv
  <1>7. CASE UNCHANGED vars
    <2>1. Types'
      BY <1>7, Zenon DEF IInv, Types, vars, history
    <2>2. UNCHANGED <<now, cache, caller, replicationChan, worker, link, handling, writes>>
      BY <1>7, Zenon DEF vars, history
    <2> QED BY <2>1, <2>2, KeptOnTheWay, KeptDurations, KeptEntries, SMTT(30) DEF IInv
  <1> QED BY <1>1, <1>2, <1>3, <1>4, <1>5, <1>6, <1>7 DEF Next, System

(* Messages, envelopes, durations and entries keep their types, no caller  *)
(* replicates to its own node, and the clock keeps to its bound.           *)
THEOREM ReplicationTypes == Spec => []ReplicationTypeOK
  <1> DEFINE Clock == now \in Start .. MaxTime
  <1>1. Init => Clock
    BY ReplicationAssumption DEF Init
  <1>2. Clock /\ [Next]_vars => Clock'
    <2> SUFFICES ASSUME Clock, [Next]_vars PROVE Clock'
      OBVIOUS
    <2>1. now' = now \/ (now < MaxTime /\ now' = now + 1)
      <3>1. CASE \E c \in Callers, k \in Keys :
                   Delete(c, k) \/ \E v \in Values, d \in Durations : Put(c, k, v, d)
        <4>1. \A c, msg, entry : Write(c, msg, entry) => now' = now
          BY Zenon DEF Write, history
        <4> QED BY <3>1, <4>1, Zenon DEF Delete, Put
      <3>2. CASE \E c \in Callers : Replicate(c)
        BY <3>2 DEF Replicate, history
      <3>3. CASE \E n \in Nodes, w \in Workers : ReplicationTake(n, w) \/ ReplicationSend(n, w)
        BY <3>3, Zenon DEF ReplicationTake, ReplicationSend, history
      <3>4. CASE \E n, m \in Nodes : Remaining(n, m) \/ Handle(n, m)
        BY <3>4, Zenon DEF Remaining, Handle, history
      <3>5. CASE \E n \in Active, k \in Keys : Evict(n, k)
        BY <3>5 DEF Evict, history
      <3>6. CASE Tick
        BY <3>6 DEF Tick, history
      <3>7. CASE UNCHANGED vars
        BY <3>7 DEF vars
      <3> QED BY <3>1, <3>2, <3>3, <3>4, <3>5, <3>6, <3>7, Zenon DEF Next, System
    <2> QED BY <2>1, ReplicationAssumption
  <1> HIDE DEF Clock
  <1>3. IInv /\ Clock => ReplicationTypeOK
    <2> SUFFICES ASSUME IInv, Clock PROVE ReplicationTypeOK
      OBVIOUS
    <2>1. \A c \in Callers : /\ caller[c].todo \subseteq Nodes \ {HomeOf[c]}
                             /\ caller[c].msg \in Message \union {None}
      <3>1. \A c \in Callers : caller[c].todo \subseteq Nodes \ {HomeOf[c]}
        BY Zenon DEF IInv, OnTheWay, Active
      <3>2. \A c \in Callers : caller[c].msg \in Message \union {None}
        BY DEF IInv, Types, Call
      <3> QED BY <3>1, <3>2
    <2> QED BY <2>1, Zenon DEF IInv, Types, ReplicationTypeOK, Clock
  <1> QED BY <1>1, <1>2, <1>3, InitInv, NextInv, PTL DEF Spec

(* Nothing on its way is ever addressed to a passive node: Put and Delete  *)
(* skip the passive peers, and neither the replication goroutines nor      *)
(* sendMessage change the peer of a message.                               *)
THEOREM PassiveIsNeverAddressed == Spec => []PassiveNeverAddressed
  <1>1. IInv => PassiveNeverAddressed
    <2> SUFFICES ASSUME IInv PROVE PassiveNeverAddressed
      BY Zenon
    <2>1. \A c \in Callers : caller[c].todo \intersect Passive = {}
      BY Zenon DEF IInv, OnTheWay, Active
    <2>2. \A n \in Nodes : \A i \in DOMAIN replicationChan[n] : replicationChan[n][i].to \notin Passive
      <3>1. \A n \in Nodes : DOMAIN replicationChan[n] = 1 .. Len(replicationChan[n])
        BY SMTT(30) DEF IInv, Types
      <3> QED BY <3>1, Zenon DEF IInv, OnTheWay, Addressed, Active
    <2>3. \A n \in Nodes, w \in Workers : worker[n][w] = Nothing \/ worker[n][w].to \notin Passive
      BY Zenon DEF IInv, OnTheWay, Addressed, Active
    <2>4. \A n \in Nodes, m \in Passive : link[n][m] = <<>>
      <3> TAKE n \in Nodes, m \in Passive
      <3>1. link[n][m] \in Seq(Message) /\ m \in Nodes /\ m \notin Active
        BY ReplicationAssumption DEF IInv, Types, Active
      <3>2. link[n][m] # <<>> => 1 \in 1 .. Len(link[n][m])
        BY <3>1, TailElements, Zenon
      <3> QED BY <3>1, <3>2, Zenon DEF IInv, OnTheWay
    <2> QED BY <2>1, <2>2, <2>3, <2>4, Zenon DEF PassiveNeverAddressed
  <1> QED BY <1>1, InitInv, NextInv, PTL DEF Spec

(* However long a PutMessage is on its way and whenever handlePut and Set  *)
(* read the clock, a replica expires at most a second before its entry,    *)
(* and stays for good only if its entry does or if it is handled at the    *)
(* very instant of the expiry.                                             *)
THEOREM ReplicasKeepExpiry == Spec => []ReplicaExpiry
  <1>1. IInv => ReplicaExpiry
    <2> SUFFICES ASSUME IInv, NEW m \in Active, NEW k \in Keys
                 PROVE  LET e == cache[m][k] IN
                        IF e.val = None \/ e.due = NO_EXPIRY THEN e.exp = NO_EXPIRY
                        ELSE IF e.instant THEN e.exp = NO_EXPIRY
                        ELSE e.exp >= e.due - 1 /\ e.exp # NO_EXPIRY
      BY Zenon DEF ReplicaExpiry
    <2>1. CASE cache[m][k].val = None
      <3>1. cache[m][k] \in Entry \union Gap
        BY DEF IInv, Types
      <3>2. cache[m][k].exp = NO_EXPIRY
        BY <2>1, <3>1, GapFields, EntryFields, ReplicationAssumption, Zenon
      <3> QED BY <2>1, <3>2, Zenon
    <2>2. CASE cache[m][k].val # None
      BY <2>2, Zenon DEF IInv, EntriesRight, RightEntry
    <2> QED BY <2>1, <2>2, Zenon
  <1> QED BY <1>1, InitInv, NextInv, PTL DEF Spec

-----------------------------------------------------------------------------
(* No replica is forgotten *)

\* Every write of the key so far is w, a Put.
Only(k, w) ==
    /\ w.val # None
    /\ 1 \in 1 .. Len(writes[k])
    /\ \A i \in 1 .. Len(writes[k]) : writes[k][i] = w

KeysRight == \A k \in Keys : \A i \in 1 .. Len(writes[k]) : writes[k][i].key = k

Reaches == \A k \in Keys, w \in Message, m \in Active : Only(k, w) => Served(m, w) \/ InFlight(m, w)

RInv == IInv /\ KeysRight /\ Reaches

\* A message that is on its way stays so ...
StaysInFlight == \A m \in Active, x \in Message : InFlight(m, x) => InFlight(m, x)'

\* ... it only moves on ...
SameFlight == \A m \in Active, x \in Message : InFlight(m, x)' <=> InFlight(m, x)

\* ... and a value that is there stays there.
StaysServed == \A m \in Active, x \in Message : Only(x.key, x) /\ Served(m, x) => Served(m, x)'

LEMMA StaysReached ==
    ASSUME RInv, StaysInFlight, StaysServed, UNCHANGED writes
    PROVE  KeysRight' /\ Reaches'
  <1>1. KeysRight'
    BY DEF RInv, KeysRight
  <1>2. Reaches'
    <2> SUFFICES ASSUME NEW k \in Keys, NEW w \in Message, NEW m \in Active, Only(k, w)'
                 PROVE  Served(m, w)' \/ InFlight(m, w)'
      BY DEF Reaches
    <2>1. Only(k, w)
      BY DEF Only
    <2>2. w.key = k
      BY <2>1 DEF RInv, KeysRight, Only
    <2>3. Served(m, w) \/ InFlight(m, w)
      BY <2>1 DEF RInv, Reaches
    <2> QED BY <2>1, <2>2, <2>3 DEF StaysInFlight, StaysServed
  <1> QED BY <1>1, <1>2

LEMMA KeptServed == ASSUME UNCHANGED cache PROVE StaysServed
  BY ZenonT(60) DEF StaysServed, Served, Evicted

LEMMA KeptFlight == ASSUME UNCHANGED <<caller, replicationChan, worker, link>> PROVE SameFlight
  BY Zenon DEF SameFlight, InFlight

LEMMA KeptInFlight == ASSUME SameFlight PROVE StaysInFlight
  BY Zenon DEF SameFlight, StaysInFlight

\* The only write of a key is what its messages and entries are of.
LEMMA OnlyWritten ==
    ASSUME NEW w, NEW x, Only(w.key, w), Written(x), x.key = w.key
    PROVE  x = w
  BY DEF Only, Written

LEMMA EvictReaches == ASSUME RInv, NEW n \in Active, NEW k \in Keys, Evict(n, k) PROVE KeysRight' /\ Reaches'
  <1> DEFINE e == cache[n][k]
  <1>1. /\ RightEntry(k, e) /\ e.due # NO_EXPIRY /\ e.val # None
        /\ cache'[n][k].val = None /\ cache'[n][k].due = e.due
        /\ \A m \in Active, j \in Keys : (m # n \/ j # k) => cache'[m][j] = cache[m][j]
        /\ UNCHANGED <<caller, replicationChan, worker, link, writes>>
    BY EvictDoes, Zenon DEF RInv
  <1> HIDE DEF e
  <1>2. StaysServed
    <2> SUFFICES ASSUME NEW m \in Active, NEW x \in Message, Only(x.key, x), Served(m, x)
                 PROVE  Served(m, x)'
      BY Zenon DEF StaysServed
    <2>1. CASE m # n \/ x.key # k
      <3>1. cache'[m][x.key] = cache[m][x.key]
        <4>1. x.key \in Keys
          BY Zenon DEF Message
        <4> QED BY <1>1, <2>1, <4>1, Zenon
      <3> QED BY <3>1, ZenonT(60) DEF Served, Evicted
    <2>2. CASE m = n /\ x.key = k
      <3>1. [key |-> k, val |-> e.val, exp |-> e.due] = x
        <4> DEFINE y == [key |-> k, val |-> e.val, exp |-> e.due]
        <4>1. y.key = x.key /\ Written(y)
          BY <1>1, <2>2, Zenon DEF RightEntry
        <4> HIDE DEF y
        <4>2. y = x
          BY <4>1, OnlyWritten
        <4> QED BY <4>2, ZenonT(60) DEF y
      <3>2. e.due = x.exp
        BY <3>1, Zenon
      <3> QED BY <1>1, <2>2, <3>2, Zenon DEF Served, Evicted
    <2> QED BY <2>1, <2>2, Zenon
  <1> QED BY <1>1, <1>2, KeptFlight, KeptInFlight, StaysReached, Zenon

\* Nothing but the way of a message is changed before it is handled.
LEMMA SystemSame ==
    ASSUME \/ \E c \in Callers : Replicate(c)
           \/ \E n \in Nodes, w \in Workers : ReplicationTake(n, w) \/ ReplicationSend(n, w)
    PROVE  UNCHANGED <<now, cache, writes, contended>>
  BY Zenon DEF Replicate, ReplicationTake, ReplicationSend, history

LEMMA ReplicateFlight == ASSUME IInv, NEW c \in Callers, Replicate(c) PROVE SameFlight
  <1> DEFINE n == HomeOf[c]
  <1> PICK peer \in caller[c].todo :
         /\ replicationChan' = [replicationChan EXCEPT ![n] =
                                  Append(replicationChan[n], [to |-> peer, msg |-> caller[c].msg])]
         /\ caller' = [caller EXCEPT ![c].todo = caller[c].todo \ {peer}]
         /\ UNCHANGED <<now, cache, calls, worker, link, handling, writes, contended>>
    BY Zenon DEF Replicate, history
  <1> DEFINE e == [to |-> peer, msg |-> caller[c].msg]
  <1>1. n \in Nodes /\ replicationChan[n] \in Seq(Envelope) /\ e \in Envelope
    <2>1. peer \in Nodes /\ caller[c].msg \in Message
      BY Zenon DEF IInv, OnTheWay, Active, Written
    <2> QED BY <2>1, ReplicationAssumption, ZenonT(60) DEF IInv, Types, Envelope
  <1>2. replicationChan'[n] = Append(replicationChan[n], e) /\ \A q \in Nodes \ {n} : replicationChan'[q] = replicationChan[q]
    BY <1>1, Zenon DEF IInv, Types
  <1>3. /\ caller'[c].todo = caller[c].todo \ {peer} /\ caller'[c].msg = caller[c].msg
        /\ \A d \in Callers \ {c} : caller'[d] = caller[d]
    BY DEF IInv, Types, Call
  <1> HIDE DEF n, e
  <1>4. /\ \E i \in 1 .. Len(replicationChan'[n]) : replicationChan'[n][i] = e
        /\ \A j \in 1 .. Len(replicationChan[n]) : \E i \in 1 .. Len(replicationChan'[n]) : replicationChan'[n][i] = replicationChan[n][j]
    <2> DEFINE s == replicationChan[n]
    <2>1. s \in Seq(Envelope) /\ replicationChan'[n] = Append(s, e)
      BY <1>1, <1>2, Zenon
    <2> HIDE DEF s
    <2>2. /\ \E i \in 1 .. Len(Append(s, e)) : Append(s, e)[i] = e
          /\ \A j \in 1 .. Len(s) : \E i \in 1 .. Len(Append(s, e)) : Append(s, e)[i] = s[j]
      BY <1>1, <2>1, AppendEnvelope, Zenon
    <2> QED BY <2>1, <2>2, Zenon DEF s
  <1>5. ASSUME NEW m \in Active, NEW x \in Message, InFlight(m, x) PROVE InFlight(m, x)'
    <2>1. CASE \E d \in Callers : m \in caller[d].todo /\ caller[d].msg = x
      <3> PICK d \in Callers : m \in caller[d].todo /\ caller[d].msg = x
        BY <2>1, SMTT(30)
      <3>1. CASE d = c /\ m = peer
        <4>1. e = [to |-> m, msg |-> x]
          BY <3>1 DEF e
        <4> QED BY <4>1, <1>1, <1>4, Zenon DEF InFlight
      <3>2. CASE d # c \/ m # peer
        <4>1. m \in caller'[d].todo /\ caller'[d].msg = x
          BY <3>2, <1>3, SMTT(30)
        <4> QED BY <4>1, Zenon DEF InFlight
      <3> QED BY <3>1, <3>2
    <2>2. CASE \E q \in Nodes : \E i \in 1 .. Len(replicationChan[q]) : replicationChan[q][i] = [to |-> m, msg |-> x]
      <3> PICK q \in Nodes : \E i \in 1 .. Len(replicationChan[q]) : replicationChan[q][i] = [to |-> m, msg |-> x]
        BY <2>2
      <3>1. \E i \in 1 .. Len(replicationChan'[q]) : replicationChan'[q][i] = [to |-> m, msg |-> x]
        <4>1. CASE q = n
          BY <4>1, <1>4
        <4>2. CASE q # n
          BY <4>2, <1>2
        <4> QED BY <4>1, <4>2
      <3> QED BY <3>1, Zenon DEF InFlight
    <2>3. CASE \E q \in Nodes, w \in Workers : worker[q][w] = [to |-> m, msg |-> x]
      BY <2>3, Zenon DEF InFlight
    <2>4. CASE \E q \in Nodes : \E i \in 1 .. Len(link[q][m]) : link[q][m][i] = x
      BY <2>4, Zenon DEF InFlight
    <2> QED BY <1>5, <2>1, <2>2, <2>3, <2>4, Zenon DEF InFlight
  <1>6. ASSUME NEW m \in Active, NEW x \in Message, InFlight(m, x)' PROVE InFlight(m, x)
    <2>1. CASE \E d \in Callers : m \in caller'[d].todo /\ caller'[d].msg = x
      <3> PICK d \in Callers : m \in caller'[d].todo /\ caller'[d].msg = x
        BY <2>1, Zenon
      <3>1. m \in caller[d].todo /\ caller[d].msg = x
        BY <1>3, SMTT(30)
      <3> QED BY <3>1, Zenon DEF InFlight
    <2>2. CASE \E q \in Nodes : \E i \in 1 .. Len(replicationChan'[q]) : replicationChan'[q][i] = [to |-> m, msg |-> x]
      <3> PICK q \in Nodes : \E i \in 1 .. Len(replicationChan'[q]) : replicationChan'[q][i] = [to |-> m, msg |-> x]
        BY <2>2, Zenon
      <3> PICK i \in 1 .. Len(replicationChan'[q]) : replicationChan'[q][i] = [to |-> m, msg |-> x]
        BY Zenon
      <3>1. CASE \E j \in 1 .. Len(replicationChan[q]) : replicationChan[q][j] = [to |-> m, msg |-> x]
        BY <3>1, Zenon DEF InFlight
      <3>2. CASE e = [to |-> m, msg |-> x]
        <4>1. m = peer /\ x = caller[c].msg
          BY <3>2, SMTT(30) DEF e
        <4> QED BY <4>1, Zenon DEF InFlight
      <3>3. CASE q = n
        <4>1. replicationChan'[n][i] = e \/ \E j \in 1 .. Len(replicationChan[n]) : replicationChan'[n][i] = replicationChan[n][j]
          BY <1>1, <1>2, <3>3, AppendElements, SMTT(30)
        <4> QED BY <3>1, <3>2, <3>3, <4>1, Zenon
      <3>4. CASE q # n
        BY <1>2, <3>1, <3>4, Zenon
      <3> QED BY <3>3, <3>4, Zenon
    <2>3. CASE \/ \E q \in Nodes, w \in Workers : worker'[q][w] = [to |-> m, msg |-> x]
               \/ \E q \in Nodes : \E i \in 1 .. Len(link'[q][m]) : link'[q][m][i] = x
      BY <2>3, Zenon DEF InFlight
    <2> QED BY <1>6, <2>1, <2>2, <2>3, Zenon DEF InFlight
  <1> QED BY <1>5, <1>6, Zenon DEF SameFlight

LEMMA TakeFlight ==
    ASSUME IInv, NEW n \in Nodes, NEW w \in Workers, ReplicationTake(n, w)
    PROVE  SameFlight
  <1> DEFINE e == Head(replicationChan[n])
  <1>1. /\ worker' = [worker EXCEPT ![n][w] = e] /\ worker[n][w] = Nothing
        /\ replicationChan' = [replicationChan EXCEPT ![n] = Tail(replicationChan[n])]
        /\ replicationChan[n] # <<>> /\ replicationChan[n] \in Seq(Envelope)
        /\ UNCHANGED <<now, cache, caller, calls, link, handling, writes, contended>>
    BY Zenon DEF ReplicationTake, IInv, Types, history
  <1>2. \A j \in 1 .. Len(replicationChan[n]) : replicationChan[n][j] = e \/
              \E i \in 1 .. Len(Tail(replicationChan[n])) : Tail(replicationChan[n])[i] = replicationChan[n][j]
    BY <1>1, TailElements, Zenon
  <1> HIDE DEF e
  <1>3. /\ worker'[n][w] = e /\ \A q \in Nodes, v \in Workers : (q # n \/ v # w) => worker'[q][v] = worker[q][v]
        /\ replicationChan'[n] = Tail(replicationChan[n])
        /\ \A q \in Nodes \ {n} : replicationChan'[q] = replicationChan[q]
    BY <1>1, ZenonT(60) DEF IInv, Types
  <1>4. ASSUME NEW m \in Active, NEW x \in Message, InFlight(m, x) PROVE InFlight(m, x)'
    <2> DEFINE y == [to |-> m, msg |-> x]
    <2>1. CASE \E q \in Nodes : \E i \in 1 .. Len(replicationChan[q]) : replicationChan[q][i] = y
      <3> HIDE DEF y
      <3> PICK q \in Nodes : \E i \in 1 .. Len(replicationChan[q]) : replicationChan[q][i] = y
        BY <2>1, Zenon
      <3>1. \/ \E i \in 1 .. Len(replicationChan'[q]) : replicationChan'[q][i] = y
            \/ worker'[n][w] = y
        <4>1. CASE q = n
          BY <4>1, <1>2, <1>3, SMTT(30)
        <4>2. CASE q # n
          BY <4>2, <1>3, Zenon
        <4> QED BY <4>1, <4>2, ZenonT(60)
      <3> QED BY <3>1, Zenon DEF InFlight, y
    <2>2. CASE \E q \in Nodes, v \in Workers : worker[q][v] = y
      <3>1. Nothing # y
        BY ReplicationAssumption, ZenonT(60) DEF Nothing, Active
      <3> HIDE DEF y
      <3>2. \E q \in Nodes, v \in Workers : worker'[q][v] = y
        BY <2>2, <3>1, <1>1, <1>3, SMTT(30)
      <3> QED BY <3>2, Zenon DEF InFlight, y
    <2>3. CASE \/ \E d \in Callers : m \in caller[d].todo /\ caller[d].msg = x
               \/ \E q \in Nodes : \E i \in 1 .. Len(link[q][m]) : link[q][m][i] = x
      BY <2>3, <1>1, Zenon DEF InFlight
    <2> QED BY <1>4, <2>1, <2>2, <2>3, Zenon DEF InFlight
  <1>5. /\ \A i \in 1 .. Len(Tail(replicationChan[n])) :
             \E j \in 1 .. Len(replicationChan[n]) : Tail(replicationChan[n])[i] = replicationChan[n][j]
        /\ \E j \in 1 .. Len(replicationChan[n]) : replicationChan[n][j] = e
    BY <1>1, TailElements DEF e
  <1>6. ASSUME NEW m \in Active, NEW x \in Message, InFlight(m, x)' PROVE InFlight(m, x)
    <2> DEFINE y == [to |-> m, msg |-> x]
    <2>0. CASE \E q \in Nodes : \E j \in 1 .. Len(replicationChan[q]) : replicationChan[q][j] = y
      BY <2>0, Zenon DEF InFlight
    <2>1. CASE \E q \in Nodes : \E i \in 1 .. Len(replicationChan'[q]) : replicationChan'[q][i] = y
      <3> HIDE DEF y
      <3> PICK q \in Nodes : \E i \in 1 .. Len(replicationChan'[q]) : replicationChan'[q][i] = y
        BY <2>1, Zenon
      <3>1. \E j \in 1 .. Len(replicationChan[q]) : replicationChan[q][j] = y
        <4>1. CASE q = n
          BY <4>1, <1>3, <1>5, SMTT(30)
        <4>2. CASE q # n
          BY <4>2, <1>3, Zenon
        <4> QED BY <4>1, <4>2, Zenon
      <3> QED BY <2>0, <3>1, Zenon
    <2>2. CASE \E q \in Nodes, v \in Workers : worker'[q][v] = y
      <3> PICK q \in Nodes, v \in Workers : worker'[q][v] = y
        BY <2>2, Zenon
      <3>1. CASE q = n /\ v = w
        <4>1. e = y
          BY <1>3, <3>1, Zenon
        <4> QED BY <1>5, <2>0, <4>1, Zenon
      <3>2. CASE q # n \/ v # w
        <4>1. worker[q][v] = y
          BY <1>3, <3>2, Zenon
        <4> QED BY <4>1, Zenon DEF InFlight
      <3> QED BY <3>1, <3>2, Zenon
    <2>3. CASE \/ \E d \in Callers : m \in caller'[d].todo /\ caller'[d].msg = x
               \/ \E q \in Nodes : \E i \in 1 .. Len(link'[q][m]) : link'[q][m][i] = x
      BY <2>3, <1>1, Zenon DEF InFlight
    <2> QED BY <1>6, <2>1, <2>2, <2>3, Zenon DEF InFlight
  <1> QED BY <1>4, <1>6, Zenon DEF SameFlight

LEMMA SendFlight ==
    ASSUME IInv, NEW n \in Nodes, NEW w \in Workers, ReplicationSend(n, w)
    PROVE  SameFlight
  <1> DEFINE p == worker[n][w].to
             msg == worker[n][w].msg
  <1>1. /\ link' = [link EXCEPT ![n][p] = Append(link[n][p], msg)]
        /\ worker' = [worker EXCEPT ![n][w] = Nothing]
        /\ UNCHANGED <<now, cache, caller, calls, replicationChan, handling, writes, contended>>
    BY ZenonT(60) DEF ReplicationSend, history
  <1>2. p \in Nodes /\ msg \in Message
    BY ZenonT(60) DEF ReplicationSend, IInv, OnTheWay, Addressed, Written, Active, history
  <1> HIDE DEF p, msg
  <1>3. link[n][p] \in Seq(Message)
    BY <1>2, Zenon DEF IInv, Types
  <1>4. /\ \E i \in 1 .. Len(Append(link[n][p], msg)) : Append(link[n][p], msg)[i] = msg
        /\ \A j \in 1 .. Len(link[n][p]) : \E i \in 1 .. Len(Append(link[n][p], msg)) : Append(link[n][p], msg)[i] = link[n][p][j]
    <2> DEFINE s == link[n][p]
    <2> HIDE DEF s
    <2>1. s \in Seq(Message)
      BY <1>3 DEF s
    <2>2. /\ \E i \in 1 .. Len(Append(s, msg)) : Append(s, msg)[i] = msg
          /\ \A j \in 1 .. Len(s) : \E i \in 1 .. Len(Append(s, msg)) : Append(s, msg)[i] = s[j]
      BY <1>2, <2>1, AppendElements
    <2> QED BY <2>2, Zenon DEF s
  <1>5. /\ link'[n][p] = Append(link[n][p], msg) /\ \A q, r \in Nodes : (q # n \/ r # p) => link'[q][r] = link[q][r]
        /\ \A q \in Nodes, v \in Workers : (q # n \/ v # w) => worker'[q][v] = worker[q][v]
    BY <1>1, <1>2, Zenon DEF IInv, Types
  <1>6. ASSUME NEW m \in Active, NEW x \in Message, InFlight(m, x) PROVE InFlight(m, x)'
    <2>1. CASE \E q \in Nodes, v \in Workers : worker[q][v] = [to |-> m, msg |-> x]
      <3> PICK q \in Nodes, v \in Workers : worker[q][v] = [to |-> m, msg |-> x]
        BY <2>1, Zenon
      <3>1. CASE q = n /\ v = w
        <4>1. m = p /\ x = msg
          BY <3>1, SMTT(30) DEF p, msg
        <4>2. \E i \in 1 .. Len(link'[n][m]) : link'[n][m][i] = x
          BY <4>1, <1>4, <1>5, Zenon
        <4>3. \E q2 \in Nodes : \E i \in 1 .. Len(link'[q2][m]) : link'[q2][m][i] = x
          BY <4>2, Zenon
        <4> QED BY <4>3, Zenon DEF InFlight
      <3>2. CASE q # n \/ v # w
        <4>1. worker'[q][v] = [to |-> m, msg |-> x]
          BY <3>2, <1>5, Zenon
        <4> QED BY <4>1, Zenon DEF InFlight
      <3> QED BY <3>1, <3>2, Zenon
    <2>2. CASE \E q \in Nodes : \E i \in 1 .. Len(link[q][m]) : link[q][m][i] = x
      <3> PICK q \in Nodes : \E i \in 1 .. Len(link[q][m]) : link[q][m][i] = x
        BY <2>2, Zenon
      <3>1. m \in Nodes
        BY Zenon DEF Active
      <3>2. \E i \in 1 .. Len(link'[q][m]) : link'[q][m][i] = x
        <4>1. CASE q = n /\ m = p
          BY <4>1, <1>4, <1>5, SMTT(30)
        <4>2. CASE q # n \/ m # p
          BY <3>1, <4>2, <1>5, Zenon
        <4> QED BY <4>1, <4>2, ZenonT(60)
      <3> QED BY <3>2, Zenon DEF InFlight
    <2>3. CASE \/ \E d \in Callers : m \in caller[d].todo /\ caller[d].msg = x
               \/ \E q \in Nodes : \E i \in 1 .. Len(replicationChan[q]) : replicationChan[q][i] = [to |-> m, msg |-> x]
      BY <2>3, <1>1, ZenonT(60) DEF InFlight
    <2> QED BY <1>6, <2>1, <2>2, <2>3, Zenon DEF InFlight
  <1>7. \A i \in 1 .. Len(link'[n][p]) : link'[n][p][i] = msg \/ \E j \in 1 .. Len(link[n][p]) : link'[n][p][i] = link[n][p][j]
    <2>1. \A i \in 1 .. Len(Append(link[n][p], msg)) :
            Append(link[n][p], msg)[i] = msg \/ \E j \in 1 .. Len(link[n][p]) : Append(link[n][p], msg)[i] = link[n][p][j]
      BY <1>2, <1>3, AppendFrom, Zenon
    <2> QED BY <1>5, <2>1, ZenonT(60)
  <1>8. worker[n][w] = [to |-> p, msg |-> msg]
    <2>1. worker[n][w] \in Envelope
      BY Zenon DEF ReplicationSend, IInv, OnTheWay, Addressed, history
    <2> QED BY <2>1 DEF p, msg, Envelope
  <1>9. ASSUME NEW m \in Active, NEW x \in Message, InFlight(m, x)' PROVE InFlight(m, x)
    <2>1. CASE \E q \in Nodes, v \in Workers : worker'[q][v] = [to |-> m, msg |-> x]
      <3> PICK q \in Nodes, v \in Workers : worker'[q][v] = [to |-> m, msg |-> x]
        BY <2>1, Zenon
      <3>1. worker'[n][w] = Nothing /\ Nothing # [to |-> m, msg |-> x]
        <4>1. worker'[n][w] = Nothing
          BY <1>1, Zenon DEF IInv, Types
        <4>2. Nothing # [to |-> m, msg |-> x]
          BY ReplicationAssumption DEF Nothing, Active
        <4> QED BY <4>1, <4>2, Zenon
      <3>2. worker[q][v] = [to |-> m, msg |-> x]
        BY <1>5, <3>1, Zenon
      <3> QED BY <3>2, Zenon DEF InFlight
    <2>2. CASE \E q \in Nodes : \E i \in 1 .. Len(link'[q][m]) : link'[q][m][i] = x
      <3> PICK q \in Nodes : \E i \in 1 .. Len(link'[q][m]) : link'[q][m][i] = x
        BY <2>2, Zenon
      <3> PICK i \in 1 .. Len(link'[q][m]) : link'[q][m][i] = x
        BY Zenon
      <3>1. m \in Nodes
        BY Zenon DEF Active
      <3>2. CASE q = n /\ m = p
        <4>1. x = msg \/ \E j \in 1 .. Len(link[q][m]) : link[q][m][j] = x
          BY <1>7, <3>2, Zenon
        <4>2. x = msg => worker[n][w] = [to |-> m, msg |-> x]
          BY <1>8, <3>2, Zenon
        <4> QED BY <4>1, <4>2, Zenon DEF InFlight
      <3>3. CASE q # n \/ m # p
        BY <1>5, <3>1, <3>3, Zenon DEF InFlight
      <3> QED BY <3>2, <3>3, Zenon
    <2>3. CASE \/ \E d \in Callers : m \in caller'[d].todo /\ caller'[d].msg = x
               \/ \E q \in Nodes : \E i \in 1 .. Len(replicationChan'[q]) : replicationChan'[q][i] = [to |-> m, msg |-> x]
      BY <2>3, <1>1, Zenon DEF InFlight
    <2> QED BY <1>9, <2>1, <2>2, <2>3, Zenon DEF InFlight
  <1> QED BY <1>6, <1>9, Zenon DEF SameFlight


LEMMA HandleFlight ==
    ASSUME IInv, NEW n \in Nodes, NEW m \in Nodes, NEW msg, NEW e, Handled(n, m, msg, e)
    PROVE  /\ msg \in Message /\ InFlight(m, msg)
           /\ \A r \in Active, x \in Message : InFlight(r, x) => InFlight(r, x)' \/ (r = m /\ x = msg)
           /\ \A r \in Active, x \in Message : InFlight(r, x)' => InFlight(r, x)
  <1> USE DEF Handled
  <1>1. /\ link[n][m] \in Seq(Message)
        /\ \A j \in 1 .. Len(link[n][m]) : link[n][m][j] = msg \/
              \E i \in 1 .. Len(Tail(link[n][m])) : Tail(link[n][m])[i] = link[n][m][j]
        /\ \A i \in 1 .. Len(Tail(link[n][m])) : \E j \in 1 .. Len(link[n][m]) : Tail(link[n][m])[i] = link[n][m][j]
        /\ 1 \in 1 .. Len(link[n][m]) /\ msg = link[n][m][1] /\ msg \in Message
    <2>1. link[n][m] \in Seq(Message)
      BY Zenon DEF IInv, Types
    <2> QED BY <2>1, TailElements, Zenon
  <1>2. link'[n][m] = Tail(link[n][m]) /\ \A q, r \in Nodes : (q # n \/ r # m) => link'[q][r] = link[q][r]
    BY Zenon DEF IInv, Types
  <1>3. ASSUME NEW r \in Active, NEW x \in Message, InFlight(r, x)
        PROVE  InFlight(r, x)' \/ (r = m /\ x = msg)
    <2>1. CASE \E q \in Nodes : \E i \in 1 .. Len(link[q][r]) : link[q][r][i] = x
      <3> PICK q \in Nodes : \E i \in 1 .. Len(link[q][r]) : link[q][r][i] = x
        BY <2>1, Zenon
      <3>1. r \in Nodes
        BY Zenon DEF Active
      <3>2. (\E i \in 1 .. Len(link'[q][r]) : link'[q][r][i] = x) \/ (r = m /\ x = msg)
        <4>1. CASE q = n /\ r = m
          <5>1. link'[q][r] = Tail(link[n][m]) /\ link[q][r] = link[n][m]
            BY <4>1, <1>2, Zenon
          <5>2. PICK i \in 1 .. Len(link[n][m]) : link[n][m][i] = x
            BY <5>1, Zenon
          <5>3. x = msg \/ \E j \in 1 .. Len(Tail(link[n][m])) : Tail(link[n][m])[j] = x
            BY <5>2, <1>1, Zenon
          <5> QED BY <4>1, <5>1, <5>3, Zenon
        <4>2. CASE q # n \/ r # m
          BY <3>1, <4>2, <1>2, Zenon
        <4> QED BY <4>1, <4>2, ZenonT(60)
      <3> QED BY <3>2, Zenon DEF InFlight
    <2>2. CASE \/ \E d \in Callers : r \in caller[d].todo /\ caller[d].msg = x
               \/ \E q \in Nodes : \E i \in 1 .. Len(replicationChan[q]) : replicationChan[q][i] = [to |-> r, msg |-> x]
               \/ \E q \in Nodes, v \in Workers : worker[q][v] = [to |-> r, msg |-> x]
      BY <2>2, Zenon DEF InFlight
    <2> QED BY <1>3, <2>1, <2>2, Zenon DEF InFlight
  <1>4. ASSUME NEW r \in Active, NEW x \in Message, InFlight(r, x)' PROVE InFlight(r, x)
    <2>1. CASE \E q \in Nodes : \E i \in 1 .. Len(link'[q][r]) : link'[q][r][i] = x
      <3> PICK q \in Nodes : \E i \in 1 .. Len(link'[q][r]) : link'[q][r][i] = x
        BY <2>1, Zenon
      <3>1. r \in Nodes
        BY Zenon DEF Active
      <3>2. \E j \in 1 .. Len(link[q][r]) : link[q][r][j] = x
        <4>1. CASE q = n /\ r = m
          <5>1. link'[q][r] = Tail(link[n][m]) /\ link[q][r] = link[n][m]
            BY <4>1, <1>2, Zenon
          <5>2. PICK i \in 1 .. Len(Tail(link[n][m])) : Tail(link[n][m])[i] = x
            BY <5>1, Zenon
          <5> QED BY <4>1, <5>1, <5>2, <1>1, Zenon
        <4>2. CASE q # n \/ r # m
          BY <3>1, <4>2, <1>2, Zenon
        <4> QED BY <4>1, <4>2, Zenon
      <3> QED BY <3>2, Zenon DEF InFlight
    <2>2. CASE \/ \E d \in Callers : r \in caller'[d].todo /\ caller'[d].msg = x
               \/ \E q \in Nodes : \E i \in 1 .. Len(replicationChan'[q]) : replicationChan'[q][i] = [to |-> r, msg |-> x]
               \/ \E q \in Nodes, v \in Workers : worker'[q][v] = [to |-> r, msg |-> x]
      BY <2>2, Zenon DEF InFlight
    <2> QED BY <1>4, <2>1, <2>2, Zenon DEF InFlight
  <1>5. InFlight(m, msg)
    BY <1>1, Zenon DEF InFlight
  <1> QED BY <1>1, <1>3, <1>4, <1>5, Zenon

LEMMA HandleReaches == ASSUME RInv, NEW n \in Nodes, NEW m \in Nodes, Handle(n, m) PROVE KeysRight' /\ Reaches'
  <1> PICK msg, e : Handled(n, m, msg, e)
    BY HandleDoes, Zenon DEF RInv
  <1>3. \A r \in Active, x \in Message : InFlight(r, x) => InFlight(r, x)' \/ (r = m /\ x = msg)
    BY HandleFlight, Zenon DEF RInv
  <1> USE DEF Handled
  <1>4. cache'[m][msg.key] = e /\ \A r \in Active, k \in Keys : (r # m \/ k # msg.key) => cache'[r][k] = cache[r][k]
    BY Zenon DEF RInv, IInv, Types
  <1>5. StaysServed
    <2> SUFFICES ASSUME NEW r \in Active, NEW x \in Message, Only(x.key, x), Served(r, x)
                 PROVE  Served(r, x)'
      BY Zenon DEF StaysServed
    <2>1. x.key \in Keys
      BY ZenonT(60) DEF Message
    <2>2. CASE r # m \/ x.key # msg.key
      <3>1. cache'[r][x.key] = cache[r][x.key]
        BY <1>4, <2>1, <2>2, Zenon
      <3> QED BY <3>1, ZenonT(60) DEF Served, Evicted
    <2>3. CASE r = m /\ x.key = msg.key
      <3>1. msg = x
        BY <2>3, OnlyWritten, Zenon
      <3> QED BY <2>3, <3>1, <1>4, Zenon DEF Served
    <2> QED BY <2>2, <2>3, Zenon
  <1>6. KeysRight'
    BY Zenon DEF RInv, KeysRight
  <1>7. Reaches'
    <2> SUFFICES ASSUME NEW k \in Keys, NEW w \in Message, NEW r \in Active, Only(k, w)'
                 PROVE  Served(r, w)' \/ InFlight(r, w)'
      BY Zenon DEF Reaches
    <2>1. Only(k, w)
      BY Zenon DEF Only
    <2>2. w.key = k
      BY <2>1, ZenonT(60) DEF RInv, KeysRight, Only
    <2>3. Served(r, w) \/ InFlight(r, w)
      BY <2>1, Zenon DEF RInv, Reaches
    <2>4. r = m /\ w = msg => Served(r, w)'
      BY <1>4, ZenonT(60) DEF Served
    <2> QED BY <1>3, <1>5, <2>1, <2>2, <2>3, <2>4, Zenon DEF StaysServed
  <1> QED BY <1>6, <1>7, Zenon

\* What Put and Delete do before they replicate.
Begun(c, msg, entry) ==
    LET n == HomeOf[c] IN
    /\ msg \in Message /\ msg.key \in Keys /\ writes[msg.key] \in Seq(Message) /\ n \in Nodes
    /\ writes'[msg.key] = Append(writes[msg.key], msg) /\ \A k \in Keys \ {msg.key} : writes'[k] = writes[k]
    /\ caller'[c].todo = Replicas(n) /\ caller'[c].msg = msg /\ \A d \in Callers \ {c} : caller'[d] = caller[d]
    /\ caller[c].todo = {}
    /\ Active \ {n} \subseteq Replicas(n)
    /\ n \in Active => cache'[n][msg.key] = entry
    /\ \A m \in Active, k \in Keys : k # msg.key => cache'[m][k] = cache[m][k]
    /\ UNCHANGED <<now, replicationChan, worker, link, handling>>

LEMMA WriteDoes ==
    ASSUME IInv, NEW c \in Callers, NEW msg, NEW entry, Fits(msg, entry), Write(c, msg, entry)
    PROVE  Begun(c, msg, entry)
  <1> DEFINE n == HomeOf[c]
  <1>1. /\ cache' = IF n \in Active THEN [cache EXCEPT ![n][msg.key] = entry] ELSE cache
        /\ caller' = [caller EXCEPT ![c] = [todo |-> Replicas(n), msg |-> msg]]
        /\ writes' = [writes EXCEPT ![msg.key] = Append(writes[msg.key], msg)]
        /\ caller[c].todo = {}
        /\ UNCHANGED <<now, replicationChan, worker, link, handling>>
    BY Zenon DEF Write, history
  <1>2. msg \in Message /\ msg.key \in Keys /\ writes[msg.key] \in Seq(Message) /\ n \in Nodes
    BY ReplicationAssumption, Zenon DEF Fits, Message, IInv, Types
  <1>4. /\ writes'[msg.key] = Append(writes[msg.key], msg) /\ \A k \in Keys \ {msg.key} : writes'[k] = writes[k]
        /\ caller'[c].todo = Replicas(n) /\ caller'[c].msg = msg /\ \A d \in Callers \ {c} : caller'[d] = caller[d]
    BY <1>1, <1>2, Zenon DEF IInv, Types
  <1>5. Active \ {n} \subseteq Replicas(n)
    BY <1>2, Zenon DEF Replicas, Peers, Active
  <1>6. n \in Active => cache'[n][msg.key] = entry
    BY <1>1, <1>2, ZenonT(60) DEF IInv, Types
  <1>7. \A m \in Active, k \in Keys : k # msg.key => cache'[m][k] = cache[m][k]
    BY <1>1, <1>2, Zenon DEF IInv, Types
  <1> QED BY <1>1, <1>2, <1>4, <1>5, <1>6, <1>7, Zenon DEF Begun

LEMMA WriteReaches ==
    ASSUME RInv, NEW c \in Callers, NEW msg, NEW entry, Fits(msg, entry), Write(c, msg, entry)
    PROVE  KeysRight' /\ Reaches'
  <1> DEFINE n == HomeOf[c]
  <1>0. Begun(c, msg, entry)
    BY WriteDoes, Zenon DEF RInv
  <1>1. UNCHANGED <<now, replicationChan, worker, link, handling>> /\ caller[c].todo = {}
    BY <1>0, Zenon DEF Begun
  <1>2. msg \in Message /\ msg.key \in Keys /\ writes[msg.key] \in Seq(Message) /\ n \in Nodes
    BY <1>0, Zenon DEF Begun
  <1>3. /\ \A i \in 1 .. Len(Append(writes[msg.key], msg)) : Append(writes[msg.key], msg)[i] = msg \/
              \E j \in 1 .. Len(writes[msg.key]) : Append(writes[msg.key], msg)[i] = writes[msg.key][j]
        /\ \E i \in 1 .. Len(Append(writes[msg.key], msg)) : Append(writes[msg.key], msg)[i] = msg
    <2> DEFINE s == writes[msg.key]
    <2> HIDE DEF s
    <2>1. s \in Seq(Message)
      BY <1>2 DEF s
    <2>2. \E i \in 1 .. Len(Append(s, msg)) : Append(s, msg)[i] = msg
      BY <1>2, <2>1, AppendMessage, Zenon
    <2>3. \A i \in 1 .. Len(Append(s, msg)) :
            Append(s, msg)[i] = msg \/ \E j \in 1 .. Len(s) : Append(s, msg)[i] = s[j]
      BY <1>2, <2>1, AppendFrom, ZenonT(60)
    <2> QED BY <2>2, <2>3, ZenonT(60) DEF s
  <1>4. /\ writes'[msg.key] = Append(writes[msg.key], msg) /\ \A k \in Keys \ {msg.key} : writes'[k] = writes[k]
        /\ caller'[c].todo = Replicas(n) /\ caller'[c].msg = msg /\ \A d \in Callers \ {c} : caller'[d] = caller[d]
    BY <1>0, Zenon DEF Begun
  <1>5. Active \ {n} \subseteq Replicas(n)
    BY <1>0, Zenon DEF Begun
  <1>6. n \in Active => cache'[n][msg.key].val = msg.val
    <2>1. n \in Active => cache'[n][msg.key] = entry
      BY <1>0, Zenon DEF Begun
    <2> QED BY <2>1, Zenon DEF Fits
  <1>7. \A m \in Active, k \in Keys : k # msg.key => cache'[m][k] = cache[m][k]
    BY <1>0, Zenon DEF Begun
  <1> HIDE DEF n
  <1>8. KeysRight'
    <2>1. \A k \in Keys : \A i \in 1 .. Len(writes'[k]) : writes'[k][i].key = k
      <3> TAKE k \in Keys
      <3>1. CASE k # msg.key
        BY <3>1, <1>4, ZenonT(60) DEF RInv, KeysRight
      <3>2. CASE k = msg.key
        <4>1. \A j \in 1 .. Len(writes[k]) : writes[k][j].key = k
          BY ZenonT(60) DEF RInv, KeysRight
        <4>2. writes'[k] = Append(writes[k], msg)
          BY <3>2, <1>4, Zenon
        <4>3. ASSUME NEW i \in 1 .. Len(Append(writes[k], msg)) PROVE Append(writes[k], msg)[i].key = k
          <5>1. \/ Append(writes[k], msg)[i] = msg
                \/ \E j \in 1 .. Len(writes[k]) : Append(writes[k], msg)[i] = writes[k][j]
            BY <3>2, <1>3, ZenonT(60)
          <5> QED BY <5>1, <3>2, <4>1, ZenonT(60)
        <4> QED BY <4>2, <4>3, ZenonT(60)
      <3> QED BY <3>1, <3>2, Zenon
    <2> QED BY <2>1, Zenon DEF KeysRight
  <1>9. Reaches'
    <2> SUFFICES ASSUME NEW k \in Keys, NEW w \in Message, NEW m \in Active, Only(k, w)'
                 PROVE  Served(m, w)' \/ InFlight(m, w)'
      BY DEF Reaches
    <2>1. CASE k = msg.key
      <3>1. w = msg
        <4>1. writes'[k] = Append(writes[k], msg)
          BY <2>1, <1>4, Zenon
        <4>2. PICK i \in 1 .. Len(Append(writes[k], msg)) : Append(writes[k], msg)[i] = msg
          BY <2>1, <1>3, Zenon
        <4> QED BY <4>1, <4>2, Zenon DEF Only
      <3>2. CASE m = n
        BY <3>1, <3>2, <1>6, Zenon DEF Served
      <3>3. CASE m # n
        BY <3>1, <3>3, <1>4, <1>5, Zenon DEF InFlight
      <3> QED BY <3>2, <3>3, ZenonT(60)
    <2>2. CASE k # msg.key
      <3>1. Only(k, w)
        BY <2>2, <1>4, Zenon DEF Only
      <3>2. w.key = k
        BY <3>1, Zenon DEF RInv, KeysRight, Only
      <3>3. Served(m, w) => Served(m, w)'
        BY <2>2, <3>2, <1>7, ZenonT(60) DEF Served, Evicted
      <3>4. InFlight(m, w) => InFlight(m, w)'
        BY <1>1, <1>4, Zenon DEF InFlight
      <3> QED BY <3>1, <3>3, <3>4, Zenon DEF RInv, Reaches
    <2> QED BY <2>1, <2>2
  <1> QED BY <1>8, <1>9, Zenon

LEMMA InitReaches == Init => RInv
  <1> SUFFICES ASSUME Init PROVE KeysRight /\ Reaches
    BY InitInv, Zenon DEF RInv
  <1>1. \A k \in Keys : writes[k] = <<>>
    BY Zenon DEF Init
  <1> QED BY <1>1 DEF KeysRight, Reaches, Only

LEMMA NextReaches == RInv /\ [Next]_vars => RInv'
  <1> SUFFICES ASSUME RInv, [Next]_vars PROVE KeysRight' /\ Reaches'
    BY NextInv DEF RInv
  <1>1. CASE \E c \in Callers, k \in Keys :
               Delete(c, k) \/ \E v \in Values, d \in Durations : Put(c, k, v, d)
    BY <1>1, CallInv, WriteReaches, Zenon DEF RInv
  <1>2. CASE \E c \in Callers : Replicate(c)
    BY <1>2, ReplicateFlight, SystemSame, KeptServed, KeptInFlight, StaysReached, Zenon DEF RInv
  <1>3. CASE \E n \in Nodes, w \in Workers : ReplicationTake(n, w) \/ ReplicationSend(n, w)
    BY <1>3, TakeFlight, SendFlight, SystemSame, KeptServed, KeptInFlight, StaysReached, Zenon DEF RInv
  <1>4. CASE \E n, m \in Nodes : Handle(n, m)
    BY <1>4, HandleReaches
  <1>5. CASE \E n \in Active, k \in Keys : Evict(n, k)
    BY <1>5, EvictReaches
  <1>6. CASE Tick \/ (\E n, m \in Nodes : Remaining(n, m)) \/ UNCHANGED vars
    <2>1. UNCHANGED <<cache, caller, replicationChan, worker, link, writes>>
      BY <1>6, Zenon DEF Tick, Remaining, vars, history
    <2> QED BY <2>1, KeptServed, KeptFlight, KeptInFlight, StaysReached, Zenon
  <1> QED BY <1>1, <1>2, <1>3, <1>4, <1>5, <1>6, Zenon DEF Next, System

(* Put forgets no peer and nothing on the way loses a message: when every  *)
(* write of a key so far put the same value with the same expiry, each     *)
(* active node has it, or will have it from a message on its way, or has   *)
(* had it and evicted it.                                                  *)
THEOREM WritesReachAll == Spec => []WriteReachesAll
  <1>1. RInv => WriteReachesAll
    <2> SUFFICES ASSUME RInv, NEW k \in Keys, NEW w \in {writes[k][i] : i \in DOMAIN writes[k]},
                        w.val # None, \A i \in DOMAIN writes[k] : writes[k][i] = w, NEW m \in Active
                 PROVE  Served(m, w) \/ InFlight(m, w)
      BY ZenonT(60) DEF WriteReachesAll
    <2>1. writes[k] \in Seq(Message) /\ DOMAIN writes[k] = 1 .. Len(writes[k])
      BY DEF RInv, IInv, Types
    <2>2. w \in Message /\ 1 \in 1 .. Len(writes[k])
      BY <2>1
    <2>3. Only(k, w)
      BY <2>1, <2>2, Zenon DEF Only
    <2> QED BY <2>2, <2>3, Zenon DEF RInv, Reaches
  <1> QED BY <1>1, InitReaches, NextReaches, PTL DEF Spec

-----------------------------------------------------------------------------
(* The last write wins *)

\* Node m holds what x puts, with the expiry x gives it, or has evicted it.
Has(m, x) ==
    \/ cache[m][x.key].val = x.val /\ (x.val # None => cache[m][x.key].due = x.exp)
    \/ Evicted(m, x.key, x.exp)

LastOf(k, w) == writes[k] # <<>> /\ writes[k][Len(writes[k])] = w

\* The last write of a key that is not contended is at node m or on its way
\* there, and no other message of the key is on its way there.
Settles(k, w, m) ==
    /\ Has(m, w) \/ InFlight(m, w)
    /\ \A x \in Message : InFlight(m, x) /\ x.key = k => x = w

LastReaches == \A k \in Keys \ contended, w \in Message, m \in Active : LastOf(k, w) => Settles(k, w, m)

LInv == RInv /\ LastReaches

StaysHad == \A m \in Active, x \in Message : Has(m, x) => Has(m, x)'

LEMMA LastKey == ASSUME RInv, NEW k \in Keys, NEW w, LastOf(k, w) PROVE w.key = k
  <1>1. writes[k] \in Seq(Message)
    BY Zenon DEF RInv, IInv, Types
  <1>2. Len(writes[k]) \in 1 .. Len(writes[k])
    BY <1>1 DEF LastOf
  <1> QED BY <1>2, Zenon DEF LastOf, RInv, KeysRight

LEMMA AppendLast ==
    \A s \in Seq(Message), e \in Message : Append(s, e) # <<>> /\ Append(s, e)[Len(Append(s, e))] = e
  OBVIOUS

LEMMA KeptHad == ASSUME UNCHANGED cache PROVE StaysHad
  BY ZenonT(60) DEF StaysHad, Has, Evicted

LEMMA StaysLast ==
    ASSUME LInv, SameFlight, StaysHad, UNCHANGED <<writes, contended>>
    PROVE  LastReaches'
  <1> SUFFICES ASSUME NEW k \in Keys \ contended, NEW w \in Message, NEW m \in Active, LastOf(k, w)
               PROVE  Settles(k, w, m)'
    BY Zenon DEF LastReaches, LastOf
  <1>1. Settles(k, w, m)
    BY Zenon DEF LInv, LastReaches
  <1> QED BY <1>1, Zenon DEF Settles, SameFlight, StaysHad

\* The entry leaves its expiry behind.
LEMMA EvictHad == ASSUME IInv, NEW n \in Active, NEW k \in Keys, Evict(n, k) PROVE StaysHad
  <1> DEFINE e == cache[n][k]
  <1>1. /\ e.due # NO_EXPIRY /\ e.val # None /\ cache'[n][k].val = None /\ cache'[n][k].due = e.due
        /\ \A m \in Active, j \in Keys : (m # n \/ j # k) => cache'[m][j] = cache[m][j]
    BY EvictDoes, Zenon
  <1> SUFFICES ASSUME NEW m \in Active, NEW x \in Message, Has(m, x) PROVE Has(m, x)'
    BY Zenon DEF StaysHad
  <1>2. CASE m # n \/ x.key # k
    <2>1. cache'[m][x.key] = cache[m][x.key]
      <3>1. x.key \in Keys
        BY Zenon DEF Message
      <3> QED BY <1>1, <1>2, <3>1, Zenon
    <2> QED BY <2>1, ZenonT(60) DEF Has, Evicted
  <1>3. CASE m = n /\ x.key = k
    <2>1. e.val = x.val /\ (x.val # None => e.due = x.exp)
      BY <1>1, <1>3, Zenon DEF Has, Evicted
    <2> HIDE DEF e
    <2>2. e.due = x.exp
      BY <1>1, <2>1, Zenon
    <2> QED BY <1>1, <1>3, <2>2, Zenon DEF Has, Evicted
  <1> QED BY <1>2, <1>3, Zenon

LEMMA HandleLast == ASSUME LInv, NEW n \in Nodes, NEW p \in Nodes, Handle(n, p) PROVE LastReaches'
  <1>0. RInv /\ IInv
    BY Zenon DEF LInv, RInv
  <1> PICK msg, e : Handled(n, p, msg, e)
    BY <1>0, HandleDoes, Zenon
  <1>1. /\ msg \in Message /\ InFlight(p, msg)
        /\ \A r \in Active, x \in Message : InFlight(r, x) => InFlight(r, x)' \/ (r = p /\ x = msg)
        /\ \A r \in Active, x \in Message : InFlight(r, x)' => InFlight(r, x)
    BY <1>0, HandleFlight, Zenon
  <1>2. /\ p \in Active /\ msg.key \in Keys /\ now' = now /\ writes' = writes /\ contended' = contended
        /\ e.val = msg.val /\ (msg.val # None => e.due = msg.exp)
    BY Zenon DEF Handled
  <1>3. cache'[p][msg.key] = e /\ \A r \in Active, k \in Keys : (r # p \/ k # msg.key) => cache'[r][k] = cache[r][k]
    BY <1>0, Zenon DEF IInv, Types, Handled
  <1> SUFFICES ASSUME NEW k \in Keys \ contended, NEW w \in Message, NEW m \in Active, LastOf(k, w)
               PROVE  Settles(k, w, m)'
    BY <1>2, Zenon DEF LastReaches, LastOf
  <1>4. Settles(k, w, m) /\ Settles(k, w, p) /\ k \in Keys
    BY <1>2, Zenon DEF LInv, LastReaches
  <1>5. w.key = k
    BY <1>0, <1>4, LastKey, Zenon
  <1>6. \A x \in Message : InFlight(m, x)' /\ x.key = k => x = w
    BY <1>1, <1>4, Zenon DEF Settles
  <1>7. CASE m = p /\ msg.key = k
    <2>1. msg = w
      BY <1>1, <1>4, <1>7, Zenon DEF Settles
    <2>2. Has(m, w)'
      BY <1>2, <1>3, <1>7, <2>1, Zenon DEF Has
    <2> QED BY <1>6, <2>2, Zenon DEF Settles
  <1>8. CASE ~(m = p /\ msg.key = k)
    <2>1. cache'[m][k] = cache[m][k]
      BY <1>3, <1>4, <1>8, Zenon
    <2>2. Has(m, w) => Has(m, w)'
      BY <1>5, <2>1, ZenonT(60) DEF Has, Evicted
    <2>3. InFlight(m, w) => InFlight(m, w)'
      BY <1>1, <1>5, <1>8, Zenon
    <2> QED BY <1>4, <1>6, <2>2, <2>3, Zenon DEF Settles
  <1> QED BY <1>7, <1>8, Zenon

LEMMA WriteLast ==
    ASSUME LInv, NEW c \in Callers, NEW msg, NEW entry, Fits(msg, entry), Write(c, msg, entry)
    PROVE  LastReaches'
  <1> DEFINE n == HomeOf[c]
  <1>0. RInv /\ IInv
    BY Zenon DEF LInv, RInv
  <1>1. Begun(c, msg, entry)
    BY <1>0, WriteDoes, Zenon
  <1>2. contended' = IF Moving(msg.key) THEN contended \union {msg.key} ELSE contended \ {msg.key}
    BY Zenon DEF Write
  <1>3. /\ msg \in Message /\ msg.key \in Keys /\ writes[msg.key] \in Seq(Message)
        /\ writes'[msg.key] = Append(writes[msg.key], msg) /\ \A k \in Keys \ {msg.key} : writes'[k] = writes[k]
        /\ now' = now
    BY <1>1, Zenon DEF Begun
  <1>4. /\ caller'[c].todo = Replicas(n) /\ caller'[c].msg = msg /\ \A d \in Callers \ {c} : caller'[d] = caller[d]
        /\ caller[c].todo = {} /\ Active \ {n} \subseteq Replicas(n)
        /\ UNCHANGED <<replicationChan, worker, link>>
    BY <1>1, Zenon DEF Begun
  <1>5. /\ n \in Active => cache'[n][msg.key] = entry
        /\ \A m \in Active, k \in Keys : k # msg.key => cache'[m][k] = cache[m][k]
    BY <1>1, Zenon DEF Begun
  <1> HIDE DEF n
  <1>6. ASSUME NEW m \in Active, NEW x \in Message, InFlight(m, x)', x # msg PROVE InFlight(m, x)
    BY <1>4, <1>6, Zenon DEF InFlight
  <1>7. ASSUME NEW m \in Active, NEW x \in Message, InFlight(m, x) PROVE InFlight(m, x)' /\ Moving(x.key)
    <2>1. InFlight(m, x)'
      BY <1>4, <1>7, Zenon DEF InFlight
    <2>2. m \in Nodes /\ Nothing # [to |-> m, msg |-> x]
      BY ReplicationAssumption DEF Nothing, Active
    <2>3. Moving(x.key)
      <3>1. CASE \E d \in Callers : m \in caller[d].todo /\ caller[d].msg = x
        BY <3>1, Zenon DEF Moving
      <3>2. CASE \E q \in Nodes : \E i \in 1 .. Len(replicationChan[q]) : replicationChan[q][i] = [to |-> m, msg |-> x]
        BY <3>2, SMTT(30) DEF Moving
      <3>3. CASE \E q \in Nodes, v \in Workers : worker[q][v] = [to |-> m, msg |-> x]
        BY <2>2, <3>3, SMTT(30) DEF Moving
      <3>4. CASE \E q \in Nodes : \E i \in 1 .. Len(link[q][m]) : link[q][m][i] = x
        BY <2>2, <3>4, Zenon DEF Moving
      <3> QED BY <1>7, <3>1, <3>2, <3>3, <3>4, Zenon DEF InFlight
    <2> QED BY <2>1, <2>3, Zenon
  <1> SUFFICES ASSUME NEW k \in Keys, k \notin contended', NEW w \in Message, NEW m \in Active, LastOf(k, w)'
               PROVE  Settles(k, w, m)'
    BY Zenon DEF LastReaches
  <1>8. CASE k = msg.key
    <2>1. ~Moving(k)
      BY <1>2, <1>8, Zenon
    <2>2. w = msg
      <3>1. writes'[k] = Append(writes[k], msg) /\ writes[k] \in Seq(Message)
        BY <1>3, <1>8, Zenon
      <3>2. Append(writes[k], msg)[Len(Append(writes[k], msg))] = msg
        BY <1>3, <3>1, AppendLast, Zenon
      <3> QED BY <3>1, <3>2, Zenon DEF LastOf
    <2>3. \A x \in Message : InFlight(m, x)' /\ x.key = k => x = w
      BY <1>6, <1>7, <2>1, <2>2, Zenon
    <2>4. Has(m, w)' \/ InFlight(m, w)'
      <3>1. CASE m = n
        <4>1. entry.val = msg.val /\ (msg.val # None => entry.due = msg.exp)
          BY AbsentGap, Zenon DEF Fits
        <4>2. cache'[m][w.key] = entry
          BY <1>5, <2>2, <3>1, Zenon
        <4> QED BY <2>2, <4>1, <4>2, Zenon DEF Has
      <3>2. CASE m # n
        BY <1>4, <2>2, <3>2, Zenon DEF InFlight
      <3> QED BY <3>1, <3>2, Zenon
    <2> QED BY <2>3, <2>4, Zenon DEF Settles
  <1>9. CASE k # msg.key
    <2>1. k \in Keys \ contended /\ LastOf(k, w)
      <3>1. k \notin contended
        BY <1>2, <1>9
      <3> QED BY <1>3, <1>9, <3>1, Zenon DEF LastOf
    <2>2. Settles(k, w, m) /\ w.key = k
      BY <1>0, <2>1, LastKey, Zenon DEF LInv, LastReaches
    <2>3. Has(m, w) => Has(m, w)'
      BY <1>5, <1>9, <2>2, ZenonT(60) DEF Has, Evicted
    <2>4. \A x \in Message : InFlight(m, x)' /\ x.key = k => x = w
      BY <1>6, <1>9, <2>2, Zenon DEF Settles
    <2> QED BY <1>7, <2>2, <2>3, <2>4, Zenon DEF Settles
  <1> QED BY <1>8, <1>9, Zenon

LEMMA NextLast == LInv /\ [Next]_vars => LInv'
  <1> SUFFICES ASSUME LInv, [Next]_vars PROVE LastReaches'
    BY NextReaches, Zenon DEF LInv
  <1>0. IInv
    BY Zenon DEF LInv, RInv
  <1>1. CASE \E c \in Callers, k \in Keys :
               Delete(c, k) \/ \E v \in Values, d \in Durations : Put(c, k, v, d)
    BY <1>0, <1>1, CallInv, WriteLast, Zenon
  <1>2. CASE \E c \in Callers : Replicate(c)
    BY <1>0, <1>2, ReplicateFlight, SystemSame, KeptHad, StaysLast, Zenon
  <1>3. CASE \E n \in Nodes, w \in Workers : ReplicationTake(n, w) \/ ReplicationSend(n, w)
    BY <1>0, <1>3, TakeFlight, SendFlight, SystemSame, KeptHad, StaysLast, Zenon
  <1>4. CASE \E n, m \in Nodes : Handle(n, m)
    BY <1>4, HandleLast, Zenon
  <1>5. CASE \E n \in Active, k \in Keys : Evict(n, k)
    <2>1. UNCHANGED <<caller, replicationChan, worker, link, writes, contended>>
      BY <1>5, Zenon DEF Evict, history
    <2> QED BY <1>0, <1>5, <2>1, EvictHad, KeptFlight, StaysLast, Zenon
  <1>6. CASE Tick \/ (\E n, m \in Nodes : Remaining(n, m)) \/ UNCHANGED vars
    <2>1. UNCHANGED <<cache, caller, replicationChan, worker, link, writes, contended>>
      BY <1>6, Zenon DEF Tick, Remaining, vars, history
    <2> QED BY <2>1, KeptHad, KeptFlight, StaysLast, Zenon
  <1> QED BY <1>1, <1>2, <1>3, <1>4, <1>5, <1>6, Zenon DEF Next, System

(* The last write of a key reaches every active node and is undone by      *)
(* nothing still on its way, be it a Put or a Delete and whatever was      *)
(* written before, provided that no message of the key was on its way when *)
(* it was made: the replication channel, the workers and the connections   *)
(* reorder messages of different writes, and there is only one left.       *)
THEOREM LastWriteReaches == Spec => []LastWriteWins
  <1>1. Init => LInv
    <2> SUFFICES ASSUME Init PROVE RInv /\ LastReaches
      BY Zenon DEF LInv
    <2>1. \A k \in Keys : writes[k] = <<>>
      BY Zenon DEF Init
    <2> QED BY <2>1, InitReaches, Zenon DEF LastReaches, LastOf
  <1>2. LInv => LastWriteWins
    <2> SUFFICES ASSUME LInv, NEW k \in Keys \ contended, writes[k] # <<>>, NEW m \in Active
                 PROVE  LET last == writes[k][Len(writes[k])] IN Served(m, last) \/ InFlight(m, last)
      BY Zenon DEF LastWriteWins
    <2> DEFINE last == writes[k][Len(writes[k])]
    <2>1. last \in Message
      <3>1. writes[k] \in Seq(Message)
        BY Zenon DEF LInv, RInv, IInv, Types
      <3> QED BY <3>1
    <2>2. LastOf(k, last)
      BY Zenon DEF LastOf
    <2> HIDE DEF last
    <2>3. Has(m, last) \/ InFlight(m, last)
      BY <2>1, <2>2, Zenon DEF LInv, LastReaches, Settles
    <2>4. Has(m, last) => Served(m, last)
      BY Zenon DEF Has, Served
    <2>5. Served(m, last) \/ InFlight(m, last)
      BY <2>3, <2>4, Zenon
    <2> QED BY <2>5, Zenon DEF last
  <1> QED BY <1>1, <1>2, NextLast, PTL DEF Spec

(* Eventual consistency, as far as the code has it: once nothing is on its *)
(* way, any two active nodes have the same value for each key whose last   *)
(* write met no earlier one on its way, unless one of the two has evicted  *)
(* an entry with a time to live.                                           *)
THEOREM UncontendedAgree ==
    Spec => [](Quiet => \A k \in Keys \ contended : \A n, m \in Active :
                            \/ cache[n][k].val = cache[m][k].val
                            \/ \E r \in {n, m} : Evicted(r, k, cache[r][k].due))
  <1> DEFINE Agree == Quiet => \A k \in Keys \ contended : \A n, m \in Active :
                                   \/ cache[n][k].val = cache[m][k].val
                                   \/ \E r \in {n, m} : Evicted(r, k, cache[r][k].due)
  <1>1. RInv /\ LastWriteWins => Agree
    <2> SUFFICES ASSUME IInv, KeysRight, LastWriteWins, Quiet, NEW k \in Keys \ contended, NEW n \in Active, NEW m \in Active
                 PROVE  \/ cache[n][k].val = cache[m][k].val
                        \/ \E r \in {n, m} : Evicted(r, k, cache[r][k].due)
      BY Zenon DEF RInv
    <2>1. CASE writes[k] = <<>>
      <3>1. \A r \in Active : cache[r][k].val = None
        <4> SUFFICES ASSUME NEW r \in Active, cache[r][k].val # None PROVE FALSE
          BY Zenon
        <4> DEFINE x == [key |-> k, val |-> cache[r][k].val, exp |-> cache[r][k].due]
        <4>1. Written(x) /\ x.key = k
          BY Zenon DEF IInv, EntriesRight, RightEntry
        <4> HIDE DEF x
        <4> QED BY <2>1, <4>1 DEF Written
      <3> QED BY <3>1, Zenon
    <2>2. CASE writes[k] # <<>>
      <3> DEFINE last == writes[k][Len(writes[k])]
      <3>1. \A r \in Active : Served(r, last) \/ InFlight(r, last)
        BY <2>2, Zenon DEF LastWriteWins
      <3>2. last.key = k
        <4>1. writes[k] \in Seq(Message) /\ Len(writes[k]) \in 1 .. Len(writes[k])
          BY <2>2 DEF IInv, Types
        <4> QED BY <4>1, Zenon DEF KeysRight
      <3> HIDE DEF last
      <3>3. \A r \in Active : ~InFlight(r, last)
        <4> SUFFICES ASSUME NEW r \in Active, InFlight(r, last) PROVE FALSE
          BY Zenon
        <4>1. r \in Nodes /\ Nothing # [to |-> r, msg |-> last] /\ ~(\E i \in 1 .. Len(<<>>) : TRUE)
          BY ReplicationAssumption DEF Nothing, Active
        <4> QED BY <4>1, Zenon DEF Quiet, InFlight
      <3>4. \A r \in Active : cache[r][k].val = last.val \/ Evicted(r, k, cache[r][k].due)
        BY <3>1, <3>2, <3>3, Zenon DEF Served, Evicted
      <3> QED BY <3>4, Zenon
    <2> QED BY <2>1, <2>2, Zenon
  <1>2. Spec => []RInv
    BY InitReaches, NextReaches, PTL DEF Spec
  <1> QED BY <1>1, <1>2, LastWriteReaches, PTL
=============================================================================
