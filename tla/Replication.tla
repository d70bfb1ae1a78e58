---------------------------- MODULE Replication -----------------------------
(***************************************************************************)
(* How Put and Delete reach the other nodes of a formed cluster            *)
(* (Cluster/clusteredBigCache.go, Cluster/remoteNode.go).                  *)
(*                                                                         *)
(* Put and Delete change the local cache and then hand one message per     *)
(* active peer to the node's replication channel.  Several worker          *)
(* goroutines take messages from that channel and queue them on the        *)
(* connection of the peer; a connection keeps order, and one goroutine of  *)
(* the receiving node handles its messages in that order.                  *)
(*                                                                         *)
(* An entry with a time to live is sent with the second it expires in; the *)
(* receiver turns that into a duration again and Set adds the duration to  *)
(* the time it is called at.                                               *)
(*                                                                         *)
(* All connections are up: every pair of nodes is connected except two     *)
(* passive ones (handleVerify refuses those), and the nodes' clocks agree. *)
(* Times are in half seconds, timestamps in seconds.                       *)
(*                                                                         *)
(* A cache is a map from keys to entries.  When an entry with a timestamp  *)
(* leaves it is not said here: CacheShard shows that the shard may take it *)
(* early, on a wakeup meant for another entry, and may never take it.  So  *)
(* it may leave in any step, and need not.                                 *)
(***************************************************************************)
EXTENDS Integers, Sequences

CONSTANTS Nodes, Passive,   \* Passive: the nodes started as passive clients
          Callers,          \* application goroutines
          HomeOf,           \* the node a goroutine calls
          Workers,          \* replication goroutines of each node
          Keys, Values,
          Durations,        \* times to live, in half seconds
          Start, MaxTime,   \* the clock's first value and its bound
          MaxCalls,         \* bound on the calls of each goroutine
          None

NO_EXPIRY == 0

Active == Nodes \ Passive

ASSUME ReplicationAssumption ==
    /\ Passive \subseteq Nodes
    /\ HomeOf \in [Callers -> Nodes]
    /\ None \notin Values \union Nodes
    /\ Durations \subseteq Nat
    /\ Start \in Nat /\ Start > 1 /\ MaxTime \in Nat /\ Start <= MaxTime
    /\ MaxCalls \in Nat

VARIABLES now,              \* the clock
          cache,            \* cache of each active node
          caller,           \* what each goroutine is doing
          calls,            \* how many calls it has made
          replicationChan,  \* per node
          worker,           \* the message each replication goroutine holds
          link,             \* per connection and direction
          handling,         \* the duration handlePut has computed, else None
          writes,           \* history: the Puts and Deletes made of each key
          contended         \* history: the keys last written while an earlier
                            \* write of theirs was on its way

history == <<writes, contended>>
vars == <<now, cache, caller, calls, replicationChan, worker, link, handling, history>>

\* due and instant are history: the timestamp at the node of the Put, and whether
\* the entry came at that very moment.  A Gap is a key without an entry; its due
\* is that of the entry the shard has evicted.
Entry == [val : Values, exp : Nat, due : Nat, instant : BOOLEAN]
Gap == [val : {None}, exp : {NO_EXPIRY}, due : Nat, instant : {FALSE}]
NoEntry(due) == [val |-> None, exp |-> NO_EXPIRY, due |-> due, instant |-> FALSE]
Absent == NoEntry(NO_EXPIRY)

Message == [key : Keys, val : Values \union {None}, exp : Nat]    \* None: a DeleteMessage
Envelope == [to : Nodes, msg : Message]
Nothing == [to |-> None, msg |-> None]

\* The members of remoteNodes: SyncRsp never names the node it is sent to, and
\* two passive nodes refuse each other.
Peers(n) == {m \in Nodes \ {n} : n \in Active \/ m \in Active}

ReplicationTypeOK ==
    /\ now \in Start .. MaxTime
    /\ cache \in [Active -> [Keys -> Entry \union Gap]]
    /\ \A c \in Callers : /\ caller[c].todo \subseteq Nodes \ {HomeOf[c]}
                          /\ caller[c].msg \in Message \union {None}
    /\ calls \in [Callers -> 0 .. MaxCalls]
    /\ replicationChan \in [Nodes -> Seq(Envelope)]
    /\ worker \in [Nodes -> [Workers -> Envelope \union {Nothing}]]
    /\ link \in [Nodes -> [Nodes -> Seq(Message)]]
    /\ handling \in [Nodes -> [Nodes -> Int \union {None}]]
    /\ writes \in [Keys -> Seq(Message)]
    /\ contended \subseteq Keys

-----------------------------------------------------------------------------
(* Time *)

Tick ==
    /\ now < MaxTime
    /\ now' = now + 1
    /\ UNCHANGED <<cache, caller, calls, replicationChan, worker, link, handling, history>>

Seconds(halves) == halves \div 2

\* The timestamp Set and the Put of a passive node give to an entry.  What becomes
\* of a negative number of seconds as an unsigned one depends on the processor.
Expiry(duration) ==
    IF duration = NO_EXPIRY THEN {NO_EXPIRY}
    ELSE IF duration > 0 THEN {Seconds(now) + Seconds(duration)}
    ELSE {Seconds(now) - Seconds(-duration), Seconds(now)}

\* evictDel of the shard, for any entry that has a timestamp.
Evict(n, key) ==
    /\ cache[n][key].exp # NO_EXPIRY
    /\ cache' = [cache EXCEPT ![n][key] = NoEntry(cache[n][key].due)]
    /\ UNCHANGED <<now, caller, calls, replicationChan, worker, link, handling, history>>

-----------------------------------------------------------------------------
(* Put and Delete *)

\* The loop starts at 1.
MutReplicasFromOne(n) ==
    LET rs == {m \in Peers(n) : m \notin Passive} IN rs \ {CHOOSE m \in rs : TRUE}

\* The test of the peer's mode is missing.
MutReplicasAnyMode(n) == Peers(n)

\* The peers Put and Delete send to.
Replicas(n) == {m \in Peers(n) : m \notin Passive}

\* A message of the key is on its way to some node.
Moving(key) ==
    \/ \E c \in Callers : caller[c].todo # {} /\ caller[c].msg.key = key
    \/ \E n \in Nodes : \E i \in 1 .. Len(replicationChan[n]) : replicationChan[n][i].msg.key = key
    \/ \E n \in Nodes, w \in Workers : worker[n][w] # Nothing /\ worker[n][w].msg.key = key
    \/ \E n, m \in Nodes : \E i \in 1 .. Len(link[n][m]) : link[n][m][i].key = key

Write(c, msg, entry) ==
    LET n == HomeOf[c] IN
    /\ caller[c].todo = {}
    /\ calls[c] < MaxCalls
    /\ calls' = [calls EXCEPT ![c] = @ + 1]
    /\ cache' = IF n \in Active THEN [cache EXCEPT ![n][msg.key] = entry] ELSE cache
    /\ caller' = [caller EXCEPT ![c] = [todo |-> Replicas(n), msg |-> msg]]
    /\ writes' = [writes EXCEPT ![msg.key] = Append(@, msg)]
    /\ contended' = IF Moving(msg.key) THEN contended \union {msg.key} ELSE contended \ {msg.key}
    /\ UNCHANGED <<now, replicationChan, worker, link, handling>>

Put(c, key, val, duration) ==
    \E exp \in Expiry(duration) :
        Write(c, [key |-> key, val |-> val, exp |-> exp],
              [val |-> val, exp |-> exp, due |-> exp, instant |-> FALSE])

Delete(c, key) == Write(c, [key |-> key, val |-> None, exp |-> NO_EXPIRY], Absent)

\* One round of the loop over the peers, in the order of sync.Map.Range.
Replicate(c) ==
    LET n == HomeOf[c] IN
    \E peer \in caller[c].todo :
        /\ replicationChan' = [replicationChan EXCEPT ![n] =
                                 Append(@, [to |-> peer, msg |-> caller[c].msg])]
        /\ caller' = [caller EXCEPT ![c].todo = @ \ {peer}]
        /\ UNCHANGED <<now, cache, calls, worker, link, handling, history>>

-----------------------------------------------------------------------------
(* The replication goroutines *)

ReplicationTake(n, w) ==
    /\ worker[n][w] = Nothing
    /\ replicationChan[n] # <<>>
    /\ worker' = [worker EXCEPT ![n][w] = Head(replicationChan[n])]
    /\ replicationChan' = [replicationChan EXCEPT ![n] = Tail(@)]
    /\ UNCHANGED <<now, cache, caller, calls, link, handling, history>>

\* sendMessage on a connection that is up; networkSender, the network and
\* networkConsumer keep the order.
ReplicationSend(n, w) ==
    /\ worker[n][w] # Nothing
    /\ link' = [link EXCEPT ![n][worker[n][w].to] = Append(@, worker[n][w].msg)]
    /\ worker' = [worker EXCEPT ![n][w] = Nothing]
    /\ UNCHANGED <<now, cache, caller, calls, replicationChan, handling, history>>

-----------------------------------------------------------------------------
(* handlePut and handleDelete of node m for the connection from n *)

\* The test for an expiry of 0 is missing.
MutTimed(msg) == msg.val # None

\* handlePut computes a duration only for an entry that expires.
Timed(msg) == msg.val # None /\ msg.exp # NO_EXPIRY

\* The time left, computed from the clock ...
Remaining(n, m) ==
    /\ link[n][m] # <<>>
    /\ handling[n][m] = None
    /\ Timed(Head(link[n][m]))
    /\ handling' = [handling EXCEPT ![n][m] = 2 * Head(link[n][m]).exp - now]
    /\ UNCHANGED <<now, cache, caller, calls, replicationChan, worker, link, history>>

\* ... and passed to Set, which reads the clock again.
Store(m, msg, duration) ==
    \E exp \in Expiry(duration) :
        cache' = [cache EXCEPT ![m][msg.key] =
                    [val |-> msg.val, exp |-> exp, due |-> msg.exp,
                     instant |-> msg.exp # NO_EXPIRY /\ duration = 0]]

\* handleDelete leaves the entry in the cache.
MutHandle(n, m) ==
    /\ link[n][m] # <<>>
    /\ m \in Active
    /\ LET msg == Head(link[n][m]) IN
         \/ Timed(msg) /\ handling[n][m] # None /\ Store(m, msg, handling[n][m])
         \/ ~Timed(msg) /\ msg.val # None /\ Store(m, msg, NO_EXPIRY)
         \/ msg.val = None /\ cache' = cache
    /\ link' = [link EXCEPT ![n][m] = Tail(@)]
    /\ handling' = [handling EXCEPT ![n][m] = None]
    /\ UNCHANGED <<now, caller, calls, replicationChan, worker, history>>

Handle(n, m) ==
    /\ link[n][m] # <<>>
    /\ m \in Active
    /\ LET msg == Head(link[n][m]) IN
         \/ Timed(msg) /\ handling[n][m] # None /\ Store(m, msg, handling[n][m])
         \/ ~Timed(msg) /\ msg.val # None /\ Store(m, msg, NO_EXPIRY)
         \/ msg.val = None /\ cache' = [cache EXCEPT ![m][msg.key] = Absent]
    /\ link' = [link EXCEPT ![n][m] = Tail(@)]
    /\ handling' = [handling EXCEPT ![n][m] = None]
    /\ UNCHANGED <<now, caller, calls, replicationChan, worker, history>>

-----------------------------------------------------------------------------
Init ==
    /\ now = Start
    /\ cache = [n \in Active |-> [k \in Keys |-> Absent]]
    /\ caller = [c \in Callers |-> [todo |-> {}, msg |-> None]]
    /\ calls = [c \in Callers |-> 0]
    /\ replicationChan = [n \in Nodes |-> <<>>]
    /\ worker = [n \in Nodes |-> [w \in Workers |-> Nothing]]
    /\ link = [n \in Nodes |-> [m \in Nodes |-> <<>>]]
    /\ handling = [n \in Nodes |-> [m \in Nodes |-> None]]
    /\ writes = [k \in Keys |-> <<>>]
    /\ contended = {}

System ==
    \/ \E c \in Callers : Replicate(c)
    \/ \E n \in Nodes, w \in Workers : ReplicationTake(n, w) \/ ReplicationSend(n, w)
    \/ \E n, m \in Nodes : Remaining(n, m) \/ Handle(n, m)
    \/ \E n \in Active, k \in Keys : Evict(n, k)
    \/ Tick

Next ==
    \/ \E c \in Callers, k \in Keys :
         Delete(c, k) \/ \E v \in Values, d \in Durations : Put(c, k, v, d)
    \/ System

Spec == Init /\ [][Next]_vars

\* Every goroutine that has work goes on; the application need not call, and
\* nothing is asked of the shards' eviction.
Fairness ==
    /\ \A c \in Callers : WF_vars(Replicate(c))
    /\ \A n \in Nodes, w \in Workers :
         WF_vars(ReplicationTake(n, w)) /\ WF_vars(ReplicationSend(n, w))
    /\ \A n, m \in Nodes : WF_vars(Remaining(n, m)) /\ WF_vars(Handle(n, m))

FairSpec == Spec /\ Fairness

-----------------------------------------------------------------------------
(* Properties *)

Quiet ==
    /\ \A c \in Callers : caller[c].todo = {}
    /\ \A n \in Nodes : replicationChan[n] = <<>>
    /\ \A n \in Nodes, w \in Workers : worker[n][w] = Nothing
    /\ \A n, m \in Nodes : link[n][m] = <<>>

\* msg is on its way to node m, wherever it is.
InFlight(m, msg) ==
    \/ \E c \in Callers : m \in caller[c].todo /\ caller[c].msg = msg
    \/ \E n \in Nodes : \E i \in 1 .. Len(replicationChan[n]) :
         replicationChan[n][i] = [to |-> m, msg |-> msg]
    \/ \E n \in Nodes, w \in Workers : worker[n][w] = [to |-> m, msg |-> msg]
    \/ \E n \in Nodes : \E i \in 1 .. Len(link[n][m]) : link[n][m][i] = msg

\* The entry of the key that node m had with this timestamp has been evicted.
Evicted(m, key, due) ==
    due # NO_EXPIRY /\ cache[m][key].val = None /\ cache[m][key].due = due

\* Node m holds what msg puts, or held it and has evicted it.
Served(m, msg) == cache[m][msg.key].val = msg.val \/ Evicted(m, msg.key, msg.exp)

(* No replica is forgotten by Put: when every write of a key so far put    *)
(* the same value with the same expiry, each active node holds that value, *)
(* or a message with it is still on its way to the node, or the entry has  *)
(* an expiry and the node has had it and evicted it.                       *)
WriteReachesAll ==
    \A k \in Keys : \A w \in {writes[k][i] : i \in DOMAIN writes[k]} :
        w.val # None /\ (\A i \in DOMAIN writes[k] : writes[k][i] = w)
            => \A m \in Active : Served(m, w) \/ InFlight(m, w)

(* The last write of a key wins everywhere, be it a Put or a Delete,       *)
(* unless an earlier one was still on its way when it was made: each       *)
(* active node holds it, or a message with it is on its way there, or the  *)
(* node has had this very entry and evicted it.  So the active nodes agree *)
(* but for evictions once nothing is on its way, and nodes that came to    *)
(* differ because two writes overtook each other agree again after the     *)
(* next one made alone.                                                    *)
LastWriteWins ==
    \A k \in Keys \ contended : writes[k] # <<>> =>
        LET last == writes[k][Len(writes[k])] IN
        \A m \in Active : Served(m, last) \/ InFlight(m, last)

(* A passive node has no cache: a message for it would be handled through  *)
(* a nil pointer.  None is ever addressed to one.                          *)
PassiveNeverAddressed ==
    /\ \A c \in Callers : caller[c].todo \intersect Passive = {}
    /\ \A n \in Nodes : \A i \in DOMAIN replicationChan[n] : replicationChan[n][i].to \notin Passive
    /\ \A n \in Nodes, w \in Workers : worker[n][w] = Nothing \/ worker[n][w].to \notin Passive
    /\ \A n \in Nodes, m \in Passive : link[n][m] = <<>>

(* A replica keeps the expiry of its entry: none if the entry has none,    *)
(* otherwise one that is at most a second early, however long the message  *)
(* was on its way.  There is one exception: an entry that is handled at    *)
(* the very instant it expires has a duration of 0, which is NO_EXPIRY.    *)
ReplicaExpiry ==
    \A m \in Active, k \in Keys :
        LET e == cache[m][k] IN
        IF e.val = None \/ e.due = NO_EXPIRY THEN e.exp = NO_EXPIRY
        ELSE IF e.instant THEN e.exp = NO_EXPIRY
        ELSE e.exp >= e.due - 1 /\ e.exp # NO_EXPIRY

(* Every value put once and left alone is eventually at every active node, *)
(* with or without a time to live.                                         *)
PutSpreads ==
    \A k \in Keys, m \in Active :
        Len(writes[k]) = 1 ~> (Len(writes[k]) # 1 \/ writes[k][1].val = None \/ Served(m, writes[k][1]))

(* "when you store a value in one instance of your application [...] every *)
(* other instance [...] will see that exact same value": when nothing is   *)
(* on its way any more, the active nodes agree.                            *)
ReplicasAgree ==
    Quiet => \A n, m \in Active, k \in Keys : cache[n][k].val = cache[m][k].val
=============================================================================
