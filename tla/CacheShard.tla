----------------------------- MODULE CacheShard -----------------------------
(***************************************************************************)
(* One cache shard (bigcache/shard.go) shared by client goroutines and by  *)
(* the eviction goroutine of its expiry manager (module TtlManager).       *)
(*                                                                         *)
(* A critical section of the shard's lock is one action; what the code     *)
(* does after unlocking is a further action of the same goroutine: set     *)
(* enters the key into the expiry tree, get copies the value, del reads    *)
(* the timestamp of the entry it has freed and removes the tree entry.     *)
(*                                                                         *)
(* The byte queue is used through its contract (module BytesQueue): a slot *)
(* is a place an entry can be stored at, Push takes one from the free list *)
(* or from behind the tail, Delete puts one on the free list, and Reset    *)
(* moves the tail back but leaves the free list as it is.                  *)
(***************************************************************************)
EXTENDS TtlManager, FiniteSets

CONSTANTS Threads,    \* client goroutines
          Hash,       \* Hasher.Sum64, a function on Keys
          Slots,      \* places in the byte queue
          Values,     \* payloads
          Durations,  \* time to live, in half seconds; 0 is NO_EXPIRY
          Limited,    \* HardMaxCacheSize > 0: Push can fail
          Resets,     \* the program calls Reset
          MaxOps,     \* bound on the number of client calls
          NoKey, NoValue

Hashes == {Hash[k] : k \in Keys}

ASSUME ShardAssumption ==
    /\ Slots \subseteq Nat \ {0}
    /\ DOMAIN Hash = Keys
    /\ NoKey \notin Keys /\ NoValue \notin Values
    /\ Durations \subseteq Int /\ \A d \in Durations : Start + d > 0
    /\ Limited \in BOOLEAN /\ Resets \in BOOLEAN
    /\ MaxOps \in Nat

\* The queue has room for one entry per hash, which is all a shard holds.
ASSUME RoomAssumption == Cardinality(Slots) >= Cardinality(Hashes)

VARIABLES hashmap,    \* hash -> slot, 0 if absent
          mem,        \* the entry last written at each slot
          freelist,   \* slots on the queue's free list
          fresh,      \* slots behind the queue's tail
          shardLock,  \* "free", or "leaked" by a set that returned with it
          op,         \* what each client goroutine is doing
          ops,        \* calls made so far
          deleted,    \* history: keys del has found an entry for
          staleFree   \* history: Reset has run while the free list had slots

shardVars == <<hashmap, mem, freelist, fresh, shardLock, op, ops, deleted, staleFree>>
queueVars == <<mem, freelist, fresh>>
vars == <<ttlVars, shardVars>>

Entry == [ts : Timestamp \union {0}, key : Keys \union {NoKey}, val : Values \union {NoValue}]
Blank == [ts |-> 0, key |-> NoKey, val |-> NoValue]

Op == [pc : {"idle", "set", "setPut", "getRead", "delRead", "delRemove"},
       key : Keys \union {NoKey}, val : Values \union {NoValue},
       dur : Int, ts : Timestamp \union {0}, slot : Slots \union {0}]
Idle == [pc |-> "idle", key |-> NoKey, val |-> NoValue, dur |-> 0, ts |-> 0, slot |-> 0]

ShardTypeOK ==
    /\ TtlTypeOK
    /\ hashmap \in [Hashes -> Slots \union {0}]
    /\ mem \in [Slots -> Entry]
    /\ freelist \in SUBSET Slots
    /\ fresh \in SUBSET Slots
    /\ shardLock \in {"free", "leaked"}
    /\ op \in [Threads -> Op]
    /\ ops \in Nat
    /\ deleted \in SUBSET Keys
    /\ staleFree \in {0, 1}

-----------------------------------------------------------------------------
(* set *)

\* uint64(duration.Seconds()) added to the clock: truncated towards zero; for
\* a negative duration the conversion wraps around or saturates at zero,
\* depending on the processor.
ExpirySeconds(d) == IF d >= 0 THEN {d \div 2} ELSE {-((-d) \div 2), 0}

SetStart(t, key, val, d) ==
    /\ op[t].pc = "idle"
    /\ ops < MaxOps
    /\ \E secs \in ExpirySeconds(d) :
         LET ts == IF d # 0 THEN now + secs ELSE 0 IN
         /\ ts \in IF d # 0 THEN Timestamp ELSE {0}
         /\ op' = [op EXCEPT ![t] = [pc |-> "set", key |-> key, val |-> val,
                                     dur |-> d, ts |-> ts, slot |-> 0]]
    /\ ops' = ops + 1
    /\ UNCHANGED <<ttlVars, hashmap, queueVars, shardLock, deleted, staleFree>>

\* The previous entry of the hash leaves the expiry tree and the queue.
DropPrevious(h, key) ==
    IF hashmap[h] # 0 THEN remove(mem[hashmap[h]].ts, key) ELSE UNCHANGED ttlVars

FreeAfterDrop(h) == freelist \union ({hashmap[h]} \ {0})

SetLocked(t) ==
    LET o == op[t]
        h == Hash[o.key]
    IN
    /\ o.pc = "set"
    /\ shardLock = "free"
    /\ DropPrevious(h, o.key)
    /\ \E slot \in FreeAfterDrop(h) \union fresh :
         /\ mem' = [mem EXCEPT ![slot] = [ts |-> o.ts, key |-> o.key, val |-> o.val]]
         /\ hashmap' = [hashmap EXCEPT ![h] = slot]
         /\ \/ /\ slot \in FreeAfterDrop(h)
               /\ freelist' = FreeAfterDrop(h) \ {slot}
               /\ fresh' = fresh
            \/ /\ slot \in fresh
               /\ freelist' = FreeAfterDrop(h)
               /\ fresh' = fresh \ {slot}
    /\ op' = [op EXCEPT ![t] = IF o.dur # 0 THEN [o EXCEPT !.pc = "setPut"] ELSE Idle]
    /\ UNCHANGED <<shardLock, ops, deleted, staleFree>>

\* Push fails: the previous entry is gone from the tree and the queue, the
\* hash map still points at it, and set returns without unlocking.
SetFull(t) ==
    LET h == Hash[op[t].key] IN
    /\ op[t].pc = "set"
    /\ shardLock = "free"
    /\ Limited
    /\ DropPrevious(h, op[t].key)
    /\ freelist' = FreeAfterDrop(h)
    /\ shardLock' = "leaked"
    /\ op' = [op EXCEPT ![t] = Idle]
    /\ UNCHANGED <<hashmap, mem, fresh, ops, deleted, staleFree>>

SetTtlPut(t) ==
    /\ op[t].pc = "setPut"
    /\ put(op[t].ts, op[t].key)
    /\ op' = [op EXCEPT ![t] = Idle]
    /\ UNCHANGED <<hashmap, queueVars, shardLock, ops, deleted, staleFree>>

-----------------------------------------------------------------------------
(* get *)

Hit(key) == hashmap[Hash[key]] # 0 /\ mem[hashmap[Hash[key]]].key = key

GetLocked(t, key) ==
    LET slot == hashmap[Hash[key]] IN
    /\ op[t].pc = "idle"
    /\ ops < MaxOps
    /\ shardLock = "free"
    /\ op' = [op EXCEPT ![t] =
                IF Hit(key) THEN [Idle EXCEPT !.pc = "getRead", !.key = key,
                                              !.val = mem[slot].val, !.slot = slot]
                            ELSE Idle]
    /\ ops' = ops + 1
    /\ UNCHANGED <<ttlVars, hashmap, queueVars, shardLock, deleted, staleFree>>

\* readEntry copies whatever the slot holds by now.
GetRead(t) ==
    /\ op[t].pc = "getRead"
    /\ op' = [op EXCEPT ![t] = Idle]
    /\ UNCHANGED <<ttlVars, hashmap, queueVars, shardLock, ops, deleted, staleFree>>

-----------------------------------------------------------------------------
(* del *)

DelLocked(t, key) ==
    LET h == Hash[key]
        slot == hashmap[h]
    IN
    /\ op[t].pc = "idle"
    /\ ops < MaxOps
    /\ shardLock = "free"
    /\ ops' = ops + 1
    /\ \/ slot = 0 /\ UNCHANGED <<hashmap, freelist, op, deleted>>
       \/ /\ slot # 0
          /\ hashmap' = [hashmap EXCEPT ![h] = 0]
          /\ freelist' = freelist \union {slot}
          /\ op' = [op EXCEPT ![t] = [Idle EXCEPT !.pc = "delRead", !.key = key,
                                                  !.ts = mem[slot].ts, !.slot = slot]]
          /\ deleted' = deleted \union {key}
    /\ UNCHANGED <<ttlVars, mem, fresh, shardLock, staleFree>>

\* The freed bytes are read without the lock: the timestamp is the entry's
\* own as long as the slot is free; what a later Push has written over it, or
\* is writing, can be read as any timestamp.
FreedTimestamps(t) ==
    IF op[t].slot \in freelist THEN {op[t].ts, mem[op[t].slot].ts}
                               ELSE Timestamp \union {0}

DelReadTimestamp(t) ==
    /\ op[t].pc = "delRead"
    /\ \E ts \in FreedTimestamps(t) :
         op' = [op EXCEPT ![t] = [op[t] EXCEPT !.pc = "delRemove", !.ts = ts]]
    /\ UNCHANGED <<ttlVars, hashmap, queueVars, shardLock, ops, deleted, staleFree>>

DelTtlRemove(t) ==
    /\ op[t].pc = "delRemove"
    /\ remove(op[t].ts, op[t].key)
    /\ op' = [op EXCEPT ![t] = Idle]
    /\ UNCHANGED <<hashmap, queueVars, shardLock, ops, deleted, staleFree>>

-----------------------------------------------------------------------------
(* reset and evictDel *)

ShardReset ==
    /\ Resets
    /\ ops < MaxOps
    /\ shardLock = "free"
    /\ ops' = ops + 1
    /\ hashmap' = [h \in Hashes |-> 0]
    /\ fresh' = Slots
    /\ staleFree' = IF freelist = {} THEN staleFree ELSE 1
    /\ reset
    /\ UNCHANGED <<mem, freelist, shardLock, op, deleted>>

\* Mutant: evictDel does not compare the timestamps.
MutExpired == {h \in {Hash[k] : k \in evictor.keys} : hashmap[h] # 0}

Expired ==
    {h \in {Hash[k] : k \in evictor.keys} :
        hashmap[h] # 0 /\ mem[hashmap[h]].ts = evictor.ts}

\* Mutant: the hash map keeps its entry.
MutEvictDel ==
    /\ shardLock = "free"
    /\ EvictionEvicted
    /\ freelist' = freelist \union {hashmap[h] : h \in Expired}
    /\ UNCHANGED <<hashmap, mem, fresh, shardLock, op, ops, deleted, staleFree>>

evictDel ==
    /\ shardLock = "free"
    /\ EvictionEvicted
    /\ hashmap' = [h \in Hashes |-> IF h \in Expired THEN 0 ELSE hashmap[h]]
    /\ freelist' = freelist \union {hashmap[h] : h \in Expired}
    /\ UNCHANGED <<mem, fresh, shardLock, op, ops, deleted, staleFree>>

-----------------------------------------------------------------------------
Init ==
    /\ TtlInit
    /\ hashmap = [h \in Hashes |-> 0]
    /\ mem = [s \in Slots |-> Blank]
    /\ freelist = {}
    /\ fresh = Slots
    /\ shardLock = "free"
    /\ op = [t \in Threads |-> Idle]
    /\ ops = 0
    /\ deleted = {}
    /\ staleFree = 0

Call(t) ==
    \E key \in Keys :
        \/ \E val \in Values, d \in Durations : SetStart(t, key, val, d)
        \/ GetLocked(t, key)
        \/ DelLocked(t, key)

Continue(t) ==
    \/ SetLocked(t) \/ SetFull(t) \/ SetTtlPut(t)
    \/ GetRead(t)
    \/ DelReadTimestamp(t) \/ DelTtlRemove(t)

Evictor ==
    \/ evictDel
    \/ (EvictionReceive \/ EvictionFirst \/ EvictionNext) /\ UNCHANGED shardVars

Time == (Fire \/ Tick) /\ UNCHANGED shardVars

Next ==
    \/ \E t \in Threads : Call(t) \/ Continue(t)
    \/ ShardReset
    \/ Evictor
    \/ Time

Spec == Init /\ [][Next]_vars

-----------------------------------------------------------------------------
(* Properties *)

Live(h) == hashmap[h] # 0
EntryAt(h) == mem[hashmap[h]]

\* The shard can still be used and its queue hands out no slot twice.
Healthy == shardLock = "free" /\ staleFree = 0

(* The hash map never points at a slot that is free or that holds another  *)
(* hash's entry, so set, del and evictDel never free a slot twice or free  *)
(* the entry of another hash, and get never finds one.                     *)
HashmapSound ==
    Healthy =>
        \A h \in Hashes : Live(h) =>
            /\ EntryAt(h).key \in Keys /\ Hash[EntryAt(h).key] = h
            /\ hashmap[h] \notin freelist \union fresh

\* Something is bound to look at the entry of hash h once it has expired.
Covered(h) ==
    LET k == EntryAt(h).key
        ts == EntryAt(h).ts
    IN
    \/ <<ts, k>> \in timeTree
    \/ \E t \in Threads : op[t].pc = "setPut" /\ op[t].key = k /\ op[t].ts = ts
    \/ evictor.pc = "evict" /\ evictor.ts = ts /\ k \in evictor.keys

(* Every entry with a time to live is in the expiry tree, or its set is    *)
(* between unlocking the shard and put, or the eviction goroutine has just *)
(* taken it out of the tree to evict it: whatever overwrites, collisions   *)
(* and evictions interleave, set's late put and early remove lose no       *)
(* expiry.  Only a key del has been called for is exempt.                  *)
TtlCovered ==
    Healthy =>
        \A h \in Hashes :
            Live(h) /\ EntryAt(h).ts # 0 /\ EntryAt(h).key \notin deleted => Covered(h)

\* What a goroutine between two critical sections still knows.
OpsConsistent ==
    \A t \in Threads :
        /\ op[t].pc # "idle" => op[t].key \in Keys
        /\ op[t].pc = "set" => op[t].ts \in IF op[t].dur # 0 THEN Timestamp ELSE {0}
        /\ op[t].pc = "setPut" => op[t].ts \in Timestamp
        /\ op[t].pc = "delRead" => op[t].slot \in Slots
        /\ op[t].pc \in {"delRead", "delRemove"} => op[t].key \in deleted

(* The inductive strengthening of HashmapSound and TtlCovered.             *)
ShardInv ==
    /\ TtlInv
    /\ ShardTypeOK
    /\ OpsConsistent
    /\ Healthy => freelist \intersect fresh = {}
    /\ HashmapSound
    /\ TtlCovered

\* What the shard holds for each hash: the bytes its hash map points at.
Contents == [h \in Hashes |-> IF Live(h) THEN EntryAt(h) ELSE Blank]

\* What the eviction goroutine has taken from the tree and not evicted yet.
Due == IF evictor.pc = "evict" THEN [ts |-> evictor.ts, keys |-> evictor.keys]
                               ELSE [ts |-> 0, keys |-> {}]

Map == INSTANCE CacheMap WITH content <- Contents, due <- Due, calls <- ops,
                              sound <- Healthy, NoEntry <- Blank

(* The shard implements a map from hashes to entries: although set, del    *)
(* and evictDel free and reuse places of one byte array, and finish their  *)
(* work on the expiry tree after unlocking, each critical section changes  *)
(* the entry of its own hash only.  Of the keys taken from the tree with a *)
(* timestamp, evictDel removes exactly the entries that have it still:     *)
(* none that was set anew with another expiry, or with none, before the    *)
(* eviction goroutine got the lock.                                        *)
ImplementsMap == Map!Spec

(* The same for every entry: when its expiration time is reached it will   *)
(* be removed.                                                             *)
EveryEntryCovered ==
    Healthy => \A h \in Hashes : Live(h) /\ EntryAt(h).ts # 0 => Covered(h)

HoldsTimed(k) == Live(Hash[k]) /\ EntryAt(Hash[k]).key = k /\ EntryAt(Hash[k]).ts # 0

(* An entry with a time to live does leave the shard (README: "When the    *)
(* key/value pair reaches its expiration time, they are removed            *)
(* automatically"), once set is no longer called for its key and unless    *)
(* del has been called for it or a set has failed and kept the lock.       *)
ExpiredEntryLeaves ==
    \A k \in Keys : HoldsTimed(k) ~> (~HoldsTimed(k) \/ k \in deleted \/ shardLock = "leaked")

(* The bytes get copies after unlocking are still the entry it found.      *)
GetReadsOwnEntry ==
    \A t \in Threads : op[t].pc = "getRead" =>
        mem[op[t].slot].key = op[t].key /\ mem[op[t].slot].val = op[t].val
=============================================================================
