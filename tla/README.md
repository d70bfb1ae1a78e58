# TLA+ specifications of clusteredBigCache

clusteredBigCache is a cache library: every application that links it is a
node, every node keeps a cache, and the nodes of a cluster replicate what is put
into any of them. This directory specifies its parts in TLA+, checks them on
small instances with TLC and proves the central invariants with TLAPS.
`PROJECT.json` lists components, runs, mutants, findings, hazards and theorems,
and maps every definition to the lines it models.

## 1. The system

| Part | Code | State | Operations | Module |
|---|---|---|---|---|
| Expiry manager | `bigcache/ttl.go` | tree of timestamps with their keys, one Go timer and its channel, position of the eviction goroutine | put, remove, reset, resetTimer, stopTimer, the eviction loop | `TtlManager` |
| Cache shard | `bigcache/shard.go` | hash map to queue indexes, the queue's entries, the shard lock | set, get, del, reset, evictDel | `CacheShard`, with both locks `ShardLocks`, its promise `CacheMap` |
| Byte queue | `bigcache/queue/bytes_queue.go` | byte array, capacity, head, tail, right margin, count | Push, Pop, Delete, Reset, growing, reading | `BytesQueue`, its promise `EntryStore` |
| Free list | `bigcache/queue/freeList.go` | eight size lists, a tree by first and last byte | add, find | `FreeList` |
| Iterator | `bigcache/iterator.go`, `shard.copyKeys` | copied indexes, position | newIterator, SetNext, Value | `Iterator` |
| Replication | `Cluster/clusteredBigCache.go`, `Cluster/remoteNode.go` | replicationChan, five replication goroutines, one ordered connection per pair of nodes, the nodes' caches, the clock | Put, Delete, replication, sendMessage, handlePut, handleDelete, eviction | `Replication` |
| Remote Get | the same files | getRequestChan, five sender goroutines, pendingGet per connection, replyChan and done per call | Get, getData, handleGetRequest, handleGetResponse | `RemoteGet` |
| Membership and handshake | the same files, `utils/sliceList.go` | remoteNodes, pendingConn, joinQueue, the remoteNode at each end of a connection and its queues | Start, join, listen, handleVerify, handleVerifyOK, the exchange of members, connectToExistingNodes, stop, tearDown | `Membership` |
| Ping monitor | `Cluster/remoteNode.go` | ticker, timeout timer, their channels, failure count | ping loop, timeout loop, handlePing, handlePong | `PingMonitor` |
| ShutDown, facade, encoding, messages, connection, hashing, logging | the remaining code | | | see section 7 |

How the parts interact. A node's calls go to `BigCache`, which picks the shard by
the hash of the key. A shard stores entries in its byte queue, whose free list
hands freed bytes out again, and tells its expiry manager of every entry with a
time to live. The eviction goroutine of the manager calls back into the shard
(`evictDel`) when the timer fires. An iterator copies the indexes of one shard
after the other and reads the entries there. Nodes find each other by joining
one and asking it for its members; every connection is watched by pings. On a
cluster node Put and Delete also send one message per active peer through the
replication channel, and a Get that misses locally asks all active peers.

What is hard about it, and what the properties are aimed at:

* set, get, del and the iterator all go on working after they have released the
  shard lock, and the eviction goroutine acts on keys it has taken from the tree
  earlier;
* one timer serves a whole tree and is re-armed from four places; its channel
  may hold a value of an earlier setting;
* the interval to the next expiry is an unsigned difference, and an expiry sent
  to another node is turned into a duration and back at a later time;
* free blocks are split and merged over long sequences of calls;
* five goroutines drain one channel into ordered connections;
* answers to a Get race its arrival at the select and its timeout;
* two nodes may dial each other at the same time, a connection may be refused,
  lost or replaced while its handler is at work, and all of them share one list
  that is keyed by Id;
* a late answer races the next ping and its timeout.

## 2. Modules

* `TtlManager` - the expiry manager alone, with callers that may put and remove
  anything at any time (`TtlSpec`).
* `CacheShard` - EXTENDS `TtlManager`; client goroutines, the eviction goroutine
  and the timer composed. The byte queue appears through its contract: a slot is
  a place for an entry, Push takes a slot from the free list or from behind the
  tail, Delete frees one, Reset moves the tail back and keeps the free list.
* `ShardLocks` - EXTENDS `CacheShard` by the owners of the shard's lock and of the
  tree's: set and reset hold the first while they wait for the second.
* `CacheMap` - what callers rely on: a map from hashes to entries, of which a set
  replaces one, a del removes one and a reset removes all. The expiry manager hands
  over a time and keys (`due`); the eviction removes exactly those of their entries
  that still have that time. A healthy shard implements it.
* `FreeList`, `BytesQueue` - the allocator as operators, and the queue that uses
  it as a state machine. All lengths and positions are real byte counts.
* `EntryStore` - what the shard relies on: entries that stay under their index
  and are read back until they are removed. `BytesQueue` implements it.
* `Iterator` - one iterating goroutine and any number of writers on several
  shards.
* `Replication`, `RemoteGet` - the two data protocols over an established mesh.
* `Membership` - how the mesh comes about: nodes, connections with their two
  ends, and what they tell each other.
* `PingMonitor` - the failure detector of one end, with a discrete clock.
* `CacheShardProofs` (with those of `TtlManager`), `BytesQueueProofs` (with those
  of `FreeList`), `IteratorProofs`, `ReplicationProofs`, `RemoteGetProofs`,
  `PingMonitorProofs`, `MembershipInvariant` and `MembershipProofs` - proofs.
* `MCCacheShard`, `MCShardLocks`, `MCBytesQueue`, `MCIterator`, `MCReplication`,
  `MCMembership` - instances for TLC; `RemoteGet` and `PingMonitor` need only the values in their
  configurations.

Correspondence with the code:

* A critical section of a Go mutex is one action, and what follows the unlock is
  another. In `CacheShard` this includes the calls of remove and reset that take
  the tree's lock with the shard's lock held; `ShardLocks` takes them apart.
  `set` is `SetStart` (the clock is read before the lock), `SetLocked` or
  `SetFull`, and `SetTtlPut`; `get` is `GetLocked` and `GetRead`; `del` is
  `DelLocked`, `DelReadTimestamp` and `DelTtlRemove`.
* The eviction goroutine is `EvictionReceive`, `EvictionFirst`, `evictDel` and
  `EvictionNext`; `Fire` is the Go runtime's timer and `Tick` the clock.
* `ShardLocks` names the holder of a lock only while it goes on waiting or is about
  to take the other one; a section that needs no further lock is one step. set with
  an entry to replace is `SetLock` and `SetSection`, reset is `ResetLock` and
  `ResetSection`, and the eviction goroutine `EvictionLock`, `EvictionPop` (which
  unlocks the tree) and `EvictSection`. What they do is defined in `CacheShard`.
* Reading freed bytes without the lock is a data race: `DelReadTimestamp`
  chooses the entry's own timestamp while the slot is free, and any timestamp
  once a later Push has the slot.
* A conversion of a negative duration to `uint64` depends on the processor:
  `ExpirySeconds` of the shard and `Expiry` of `Replication` have both results.
* `timestamp - now` is computed modulo the word size (`U64Sub`, with the word a
  parameter) and read back as a signed number (`AsDuration`).
* The size lists of the free list are sets: `find` may return any block of the
  first list with one that is large enough, the code returns the one entered
  first, so the model allows all its choices.
* The byte array is the set of entries that can be read from it whole; writing
  an entry removes those it overlaps.
* `copyKeys` is `CopyLen` (the length, taken before the lock) and `CopyKeys`;
  `Value` reads key and data in two steps, the second after it has unlocked.
* In `Replication` a connection is one queue from sendMessage to the handler.
  networkSender, the socket and networkConsumer keep the order, and each
  connection has one handler goroutine. handlePut is `Remaining` (the duration,
  computed from the clock) and `Handle` (the Set, at a time that may be later).
  Clocks count half seconds, timestamps seconds: the code truncates. `Evict` may
  take an entry with a timestamp in any step, before its time as well, and need
  not: this is all that can be relied on (section 6). It leaves a `Gap` that
  remembers the timestamp, for `Evicted`. `contended`
  is history: a write adds its key when an earlier write of the key is still on
  its way (`Moving`) and removes it when none is.
* In `RemoteGet` an answer is handed over only when the Get is in its select,
  because replyChan has no buffer; otherwise the `default` case drops it.
* In `Membership` an end is a remoteNode. handleVerify is `handleVerify` (up to
  Contains) and `VerifyAdd` with the rest of `eventVerifyRemoteNode`, because
  another connection may be added in between.
  `Interrupt` is the run.Group when one of its goroutines has returned: the state
  is disconnected, the queues are closed. `tearDown` comes when the wait group is
  down, that is when the handler has returned. A node's Id and its address are
  one value. `mishaps` records what has gone wrong so far and is read by
  properties only.
* In `PingMonitor` a second passes (`Tick`) only when no goroutine has anything
  left in its channel; each loop of the code is one action per case of its select.

## 3. Runs and bounds

| Run | Instance | Result |
|---|---|---|
| `shard_safety` | 2 goroutines, 3 calls, 3 keys (2 with one hash), 2 slots, limited queue, Reset, durations negative, none and positive | `TimerTracksHead`, `HashmapSound`, `TtlCovered`, `ShardInv` and the refinement `ImplementsMap` hold |
| `shard_liveness` | both locks, 2 goroutines, 3 calls, 2 keys, 2 slots, limited queue, Reset, a duration of one second | `ExpiredEntryLeaves`, `EveryCallReturns` hold |
| `shard_immortal`, `shard_torn` | `CacheShard` with 2 keys, up to 4 calls | violated, see section 6 |
| `queue` | a shard (5 pushes of 20, 4092 or 9000 bytes, any deletes), a shard with a limit (5 pushes of 20 or 60 bytes in at most 300), a first-in first-out user (7 pushes of 16, 36 or 70 bytes, Pop and Reset, at most 400 bytes) | `ReadBack`, `FreeBlocksApart`, `ListsMatchTree`, `HeadIsEntry` and the refinement `ImplementsStore` hold |
| `iterator` | 3 shards, 3 keys in three distributions, 2 slots per shard, unbounded sets and deletes | `IteratorTypeOK`, `UntouchedOnce`, `UntouchedIntact`, `PanicNeedsNewKey`, `IterationEnds` hold |
| `replication` | 2 active nodes and a passive one, a caller on an active and on the passive one, 2 replication goroutines per node, times to live none and one second | `WriteReachesAll`, `LastWriteWins`, `PassiveNeverAddressed`, `ReplicaExpiry`, `PutSpreads` hold |
| `replication_order` | 2 active nodes, 1 caller, 2 writes | violated, see section 6 |
| `remote_get` | 2 Gets, 2 active members and a passive one, 2 senders, 2 keys | `PendingMatchesRequests`, `AnswerIsForTheKey`, `EveryGetReturns`, `ResponsesDrain` hold |
| `ping` | intervals 2, 3 and the default 5, timeouts 1, 2 and the default 3, thresholds 1, 2 and the default 5, latencies 0 and 1, handshakes of up to 7 seconds | `LivePeerKept`, `SilenceBounded`, `NeverTimesOut`, `DeadPeerDropped` hold |
| `membership` | 3 nodes joining one after the other; 2 joining each other; 2, one of which reconnects after a loss; 2 passive ones; 3 connections | `MembershipTypeOK`, `ListedIsLive`, `PassiveApart`, `SyncNotFiltered`, `NoSelfDial`, `BothEndsGo`, `MeshUnlessMishap`, `ReconnectsUnlessMishap` hold |
| `membership_mesh` | 2 nodes join a third at the same time, 4 connections, nothing is lost or times out | violated, see section 6 |

The type invariants of `CacheShard` (a conjunct of `ShardInv`), `BytesQueue`,
`Replication`, `RemoteGet` and `PingMonitor` are proved and not in the runs; those
of `Iterator` and `Membership` are both.

Why the bounds are enough to be interesting:

* Two goroutines and the eviction goroutine can stand in any two places between
  critical sections; three calls suffice to write, overwrite and delete.
* Two slots are one per hash: every set after the first two reuses a slot. With
  `Limited` a set may find the queue full, after which the lock stays taken.
* The clock of the shard has two or three values: entries are due in the past, now and
  later. `InitDelay` lies beyond `MaxTime`, as ten hours lie beyond any time to
  live in a test. `HalfWord` only has to exceed the clock.
* In `shard_liveness` one of the three calls can be a Reset and the other two hold
  or wait for locks meanwhile: all orders of the two locks occur, and so does the
  lock that is never released.
* A duration is counted in half seconds because the code truncates to seconds, so
  that half a second is a time to live of zero seconds, which is not NO_EXPIRY.
* 20, 4092 and 9000 bytes are 24, 4096 and 9004 with the header: the smallest
  class, the boundary between the last bounded class and the open one, and an
  entry that makes the array grow by more than doubling. With a limit of 300
  bytes pushes fail before and after blocks have been freed.
* The entries of the first-in first-out user do not divide the array, so the gap
  in front of a wrapped tail takes all the sizes the code distinguishes.
* Two keys in one shard are enough for a set to take the place of the other key,
  and an empty shard comes before, between or behind those with entries.
* Two of the five replication and sender goroutines are enough for one to
  overtake the other. The clock of `Replication` runs for one and a half seconds,
  so that a message with a time to live of one second is handled in time, at the
  instant it expires and after it. A write of either caller may follow one of the
  other that is still on its way or has arrived, so that a key is contended in
  some behaviours of the run and not in others.
* Three connections allow a duplicate and a reconnection; the fourth of
  `membership_mesh` is the second dial between the two late joiners. Where a
  property could fail only because no connection is left, it says so
  (`Exhausted`).
* The ping run has a timeout below, at and above the interval; its clocks go
  beyond threshold * interval + timeout of every configuration.

Symmetry: goroutines are interchangeable, and in `shard_safety` the two colliding
keys as well. No run with a liveness property uses symmetry. Deadlock is not
checked because the calls of every instance are used up, and then nothing is
left to do.

## 4. Fairness

* Every goroutine that is inside a call, the eviction goroutine, each replication
  and sender goroutine and each connection's handler is weakly fair: the Go
  scheduler runs every runnable goroutine, and its mutexes do not starve.
* `Fire` and `Tick` are weakly fair: the clock goes on up to its bound and a due
  timer fires. In `ShardLocks` a waiting goroutine gets its lock if it stays free
  for it (`GoOn`, `ResetSection`, `Evicting`).
* In `Replication` neither the clock nor the eviction is fair: no property there
  depends on an entry leaving, or on its staying.
* Starting a call is not fair: a program need not call anything.
* A Get may time out while it waits, and must if nothing answers. The timeout is
  `time.After` in the code, which always fires.
* In `PingMonitor` the clock, both loops and both handlers are weakly fair. That
  the peer dies is not: it need not.
* In `Membership` it is enough that some step of the system is taken while one is
  possible: an instance has finitely many connections and messages, so that
  every goroutine gets its turn in the end. Losing a connection, giving up a
  dial and giving up the wait for the handshake are outside of it: they may
  happen and need not.
* In `Iterator` only the iterating goroutine is fair; the writers may go on for
  ever.

## 5. Proofs

The theorems hold for every value of the constants that satisfies the named
assumptions; those say that constants are of their types, and beyond that:
times fit into half a machine word and no entry is set with an expiry before 1970
(`TimeAssumption`), the queue has a place for each hash (`RoomAssumption`), the
clock starts after the first second (`ReplicationAssumption`), no threshold is
negative and the bound on the clocks is beyond every handshake
(`PingAssumption`), there are finitely many nodes and none is configured to join
itself (`MembershipAssumption`), `None` is no member's name
(`RemoteGetAssumption`), the iterated keys are finitely many and each shard has a
place for each of its own (`IteratorAssumption`). `ClientAssumption` says how a byte queue is used: a
client that deletes entries out of order neither pops nor resets, and no entry is
empty. Both restrictions are needed. Reset keeps the free list, so that a queue
with freed blocks that is reset hands the same bytes out twice (section 6; a
shard that does so is not `Healthy`), and `peek` refuses an entry without data at
the end of the array. An entry of a shard is never empty, it has a header.

* `TimerAlwaysTracksHead`: `TtlSpec => []TimerTracksHead`. `TimerTracksHead` alone
  is not inductive: `resetTimer` drains the channel only if Stop reports a timer
  that is not running, so a timer that runs and has a value in its channel would
  leave a stale wakeup. `TtlInv` adds that this never is. `ResetTimerArms` shows
  that a reset arms the timer for the timestamp it is given, also when that is
  past and the unsigned difference wraps (`SignedInterval`); `HeadAfterPut` and
  `HeadAfterRemove` say what becomes of the head.
* `ShardInvariant`: `Spec => []ShardInv`. `TtlCovered` needs `HashmapSound` (two
  hashes never share a slot, so that freeing one leaves the other's entry as it
  is), that free and unused slots are disjoint, and `OpsConsistent`: what a
  goroutine between two critical sections still carries. One lemma per conjunct
  (`ShardTypeStep`, `OpsStep`, `HashmapStep`, `CoveredStep`) has one step per
  action. `HashmapAlwaysSound` and `TtlAlwaysCovered` follow.
* `ShardIsMap`: `Spec => ImplementsMap`. The map is what the shard's hash map points
  at (`Contents`), what is due is what evictDel was called with (`Due`). A set
  writes into a slot that was freed, that lies behind the tail or that its own hash
  used before; by `ShardInv` no other hash points there (`OwnSlots`), so that no
  other entry changes. evictDel goes by hashes and slots; that it takes exactly the
  entries of the keys handed over that have the timestamp they were handed over
  for needs the same (`EvictIsMapStep`). That this is never 0, the timestamp of
  entries without expiry, is added to the invariant (`EvictsTimed`). In `CacheMap`
  only callers count as calls: an eviction cannot pass for a del.
  The proofs about the shard use those about the manager through the lemma
  `ShardStepIsTtlStep`: each step of the shard is a step of the manager or leaves
  it alone. `ShardImplementsTtl` states it for behaviours, so that
  `TimerAlwaysTracksHead` holds in the shard as well.
* `AddKeepsOrder`, `FindKeepsOrder` of `FreeList`. A free list that is in order is
  determined by the set of its blocks: `ListOf(B)` has every block of B in the
  size list of its class and in the tree under its first and its last byte. For
  every set of separate blocks, add and find lead from such a list to such a list:
  add to one whose bytes were free before or are those added, find to the list
  without the bytes it hands out. Merging with a neighbour, forgetting one between
  two, and the size that belongs to no class are cases of the proof.
* `QueueTypes`, `EntriesReadBack`, `BlocksApart`, `ListsAgree`, `PopFindsEntry`,
  `QueueIsStore` of `BytesQueue`. None is inductive alone: that an entry stays
  readable depends on where the next one is written, which depends on the margins
  and on the free list being exact. `Placed` says that no two readable entries
  share a byte (`Common`), that the free list is in order, its blocks separate and
  clear of every entry in use (`FreeOK`), and how the array is used: by a client
  that deletes, from the left margin to the tail (`Straight`); by one that pops, as
  a ring, in which every entry is followed without a gap by the next one or the end
  of its part, and a wrapped queue keeps room for an empty blob in front of the
  head (`Ring`). It has one lemma per way of pushing (into a free block, at the
  tail, before the head, with growing, with growing while wrapped) and per
  operation. `Counted` adds that `count` is the number of entries held, which is
  said by numbering them (`Numbered`); with it Pop never meets an empty ring. `QueueIsStore` is the refinement: each push
  stores under an index not in use, each removal takes one index away, and what is
  read under all others is what was read before.
* `IteratorTypes`, `LeftAloneOnce`, `LeftAloneIntact`, `OnlyNewKeysPanic` of
  `Iterator`. How often a key left alone has been returned is a matter of where
  SetNext is: once if its shard lies behind, or if its index is among those of the
  current shard that have been used (`Visited`). This needs that the copied indexes
  are all different and none of such a key is missing (`Copied`), that the entry of
  such a key keeps its place and no other entry there names it (`Placed`), that
  between the two steps of Value what was read is that key or one that has been
  touched (`Got`), and how `valid` and the position go together (`Position`). For
  the panic, the keys of the shard that were not added since copyKeys took the
  length are no more than that length (`Counted`).
* `ReplicationTypes`, `PassiveIsNeverAddressed`, `ReplicasKeepExpiry`,
  `WritesReachAll` of `Replication`. A replica's expiry was decided when the Put computed it, when
  handlePut took the difference to its clock and when Set added that to a later
  one. The invariant therefore follows a message: wherever it is, some Put or
  Delete made it and it goes to an active node (`OnTheWay`); a duration that has
  been computed is too long by the time gone by since and never too short
  (`DurationsRight`); every entry was made by some Put (`EntriesRight`).
* `LastWriteReaches`, `UncontendedAgree` of `Replication`. Two writes of one key
  may overtake each other (section 6), so that a node may end up without the last
  one. It cannot if no message of the key was on its way when the write was made:
  then every message of the key is of that write, since the steps of the loop, the
  goroutines and the connections only move messages (`SameFlight`,
  `HandleFlight`), and what a node holds of it leaves only by eviction, which
  `Served` recognises by the timestamp the entry had.
  `LastReaches` says both and is inductive on top of `WritesReachAll`. It keeps the
  expiry together with the value: the eviction of an entry of an earlier Put with
  the same value is not that of the last one. Hence caches that came to differ
  agree again after the next write of the key that is made alone, and once nothing
  is on its way they agree, but for evictions, on every key that is not contended.
* `RemoteGetTypeCorrect`, `AnswersMatchKeys` of `RemoteGet`. A Get that is named
  in any channel has chosen its key, each entry of pendingGet is filed under the
  pending key of its own Get, and each answer carries the pending key of a Get
  whose key is the one the data is stored under.
* `PendingMatches` of `RemoteGet`. That an answer meets its own entry of
  pendingGet, and that the entry is gone only then, holds because a member is asked
  once per Get and the request is at one stage at a time: still to be handed out,
  in getRequestChan, noted by a sender, sent, answered (`OneStage`), and there
  once (`Distinct`). `Noted` then gives the domain of pendingGet at each step.
* `PingTypeCorrect`, `SilenceIsBounded`, `WarningIsExact` of `PingMonitor`. Both
  timers count from the last ping (`TimersAligned`), so that each failure
  accounts for one interval of silence (`SilenceSoFar`).
* `LivePeerIsKept` of `PingMonitor`. Everything on its way belongs to the last ping
  and is no older than the latency allows (`OnTheWay`), so that nothing is left
  when the timer fires: a failure is then a ping that was dropped in the handshake.
  Those are an interval apart, hence the bound on the failures (`LiveInv`).
* `ListsOnlyLiveEnds`, `PassivesStayApart`, `NobodyDialsItself` of `Membership`.
  That a node proposes everybody but the asker depends on knowing who asks, which
  depends on VERIFY having been handled, which depends on what was sent. The
  invariant ties the two ends of a connection to each other (`Links`), says that
  an end knows no other Id than that of the node there (`Sound`), that VERIFY
  names its sender, that a request for the members is only queued once the Id is
  known and that no list names the node it is sent to (`Right`, `Nets`,
  `Inbounds`), and that lists and join queues hold nothing else (`Lists`,
  `Queues`).
* `MembershipTypes`, `SyncPassesFilter` of `Membership`. The filter of
  queueInboundMessage looks at the state of the end that receives, the request for
  the members depends on the state of the one that sends. `SyncInv` connects them:
  who sends VERIFYOK has handled the VERIFY, who asks has been told so by the other
  end as well, who answers has been asked; and no end goes back to the handshake.

`HashmapSound`, `TtlCovered` and `ImplementsMap` are stated for a shard that is
`Healthy`: no set has returned with the lock and no Reset has left blocks on the
free list. What happens otherwise is described in section 6. `TtlCovered` exempts keys that del
was called for; `shard_immortal` shows why it must.

Only model-checked: all liveness, for fairness is outside the proof system used,
and with it the order of the two locks (`ShardLocks`).

## 6. Where the code departs from what the repository says

Each of these is a run that violates one property; `PROJECT.json` has the
quotations.

* `shard_immortal`: del takes the timestamp from bytes it has freed, after
  unlocking, and removes that timestamp and the key from the tree. A set of the
  key in between leaves an entry that never expires.
* `shard_torn`: get copies the value after unlocking.
* `replication_order`: two writes to one key overtake each other between the
  replication goroutines; the nodes differ until the key is written again.
  `LastWriteWins` says what holds instead: a write that is made when no other of
  its key is on its way has the last word on every active node.
* `membership_mesh`: two nodes that learn of each other at the same time dial each
  other. Each has listed the connection it dialled, or is about to, and refuses
  the other; tearDown of a refused end clears the list under the Id, whichever
  end is listed there. The two end up without a connection, and since no proposal
  comes again they stay so. `MeshUnlessMishap` shows that nothing but these
  duplicates, skipped proposals, losses and timeouts keeps nodes apart.

Also in the models, without a run of their own:

* The eviction goroutine pops the head without comparing it with the clock
  (`EvictionFirst`). If the entry it was woken for has been overwritten, which
  empties the tree without stopping the timer, it evicts the new one at once.
  This is why `Replication` lets an entry leave early.
* Reset keeps the free list (`Reset` of `BytesQueue` and `CacheShard`): a push
  into a block behind the tail is overwritten by a later one.
* An answer that arrives before Get is in its select is dropped, and the Get
  times out (`Offer`).
* A replica that is handled at the very instant its entry expires has a duration
  of 0, which is NO_EXPIRY: it never expires (`ReplicaExpiry` states the
  exception).
* A set that finds a limited queue full returns with the shard lock taken and,
  since `err` is shadowed in `shard.go:84`, reports success (`SetFull`). The
  comment at `config.go:24-25` says instead "When the limit is higher than 0 and
  reached then the oldest entries are overridden for the new ones."
  `EveryCallReturns` says who is affected: calls that wait for the shard hang,
  those that have passed it return.
* set and del do not compare keys: with equal hashes, del of one key removes the
  entry of the other (`DelLocked`).
* An iteration panics when a key is added to a shard between the two steps of
  copyKeys (`PanicNeedsNewKey` says that nothing else makes it).
* `peek` refuses an entry without data at the very end of the array.
* A queue that grows while it is wrapped hands entries out in another order.
* A block freed between two free blocks is merged with the right one only, and
  the left one is forgotten; a block of exactly 4096 bytes is in none of the size
  lists. Either way the bytes are not used again, but no entry is harmed.
* An empty value is answered to a remote Get like an absent one (`Wire`).
* pendingConn may keep an Id for good, because join can be through with it before
  it is noted (`PendingStore`); a peer proposed before Start has finished is
  forgotten (`JoinQueueTake`).
* The first ping is sent before VERIFY and dropped: with a threshold of one the
  connection does not survive its first timeout (`LivePeerKept` states the
  bound).

## 7. What is not modelled

* ShutDown. It closes channels on which other goroutines may be sending; some of
  them recover from the panic and some do not, and the repository says nothing of
  calls that are in progress.
* The composition of `Membership` with `Replication`, `RemoteGet` and
  `PingMonitor`: the product is beyond what TLC explores, so that the data
  protocols start from a mesh and the loss of a connection in `Membership` stands
  for a failed ping as well. Data sent while a connection is down is lost, and
  the code does not send it again.
* Reset during an iteration. Without it the index that Value uses lies in the array,
  so that getEntry does not fail: ErrCannotRetrieveEntry does not occur in
  `Iterator`, ErrInvalidIteratorState does.
* The size counter of `SliceList`, which Remove may decrement twice.
* Connection, logging, statistics, start-up checks: no state the properties are
  about, or blocking I/O that the models take as an ordered channel.
* Message encodings: messages are records, except where two become the same.
* The 16-bit key length of the entry header: it takes keys of 64 KiB.
* The hash function is a parameter of `CacheShard`.
* `onEvict` and `removeOldestEntry` of the shard have no caller.

## 8. What could come next

* `CacheMap` with keys in place of hashes, for keys with distinct hashes, and with
  what get returns: `shard_torn` shows that it would have to leave torn values out.
* A queue whose Reset also clears the free list: with it `ClientAssumption` could
  admit clients that delete and reset.
