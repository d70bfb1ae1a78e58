-------------------------- MODULE CacheShardProofs --------------------------
(***************************************************************************)
(* The timer of the expiry manager tracks the head of the tree, for any    *)
(* set of keys and any length of time.  The shard uses its expiry manager  *)
(* as TtlManager specifies it, its hash map stays sound, and no            *)
(* interleaving of set, get, evictDel and reset loses the expiry of an     *)
(* entry; and to its callers the shard is a map from hashes to entries:    *)
(* for any number of goroutines, keys, slots and hash collisions.          *)
(***************************************************************************)
EXTENDS CacheShard, TLAPS

-----------------------------------------------------------------------------
(* The shard *)

(* The hash of a key is a hash.                                            *)
LEMMA HashOfKey == \A k \in Keys : Hash[k] \in Hashes
BY DEF Hashes

-----------------------------------------------------------------------------
(* Types *)

(* Every step preserves the shard's type invariant.                        *)
LEMMA ShardTypeStep ==
  ASSUME ShardInv, [Next]_vars, TtlInv'
  PROVE  ShardTypeOK'
<1> USE DEF ShardInv, ShardTypeOK, OpsConsistent
<1>0. TtlTypeOK' /\ Idle \in Op
  BY ShardAssumption DEF TtlInv, Idle, Op
<1>1. ASSUME NEW t \in Threads, NEW key \in Keys, NEW val \in Values,
             NEW d \in Durations, SetStart(t, key, val, d)
      PROVE  ShardTypeOK'
  BY <1>0, <1>1, ShardAssumption DEF SetStart, queueVars, Op
<1>2. ASSUME NEW t \in Threads, SetLocked(t) \/ SetFull(t)
      PROVE  ShardTypeOK'
  <2>1. /\ op[t].key \in Keys /\ op[t] \in Op
        /\ [ts |-> op[t].ts, key |-> op[t].key, val |-> op[t].val] \in Entry
        /\ [op[t] EXCEPT !.pc = "setPut"] \in Op
    BY <1>2, SMTT(30) DEF SetLocked, SetFull, Op, Entry
  <2>2. FreeAfterDrop(Hash[op[t].key]) \in SUBSET Slots
    BY <2>1, HashOfKey DEF FreeAfterDrop
  <2>3. CASE SetLocked(t)
    BY <1>0, <2>1, <2>2, <2>3, HashOfKey DEF SetLocked
  <2>4. CASE SetFull(t)
    BY <1>0, <2>1, <2>2, <2>4 DEF SetFull
  <2>5. QED
    BY <1>2, <2>3, <2>4, SMTT(30)
<1>3. ASSUME NEW t \in Threads, NEW key \in Keys, GetLocked(t, key)
      PROVE  ShardTypeOK'
  <2>1. Hit(key) => [Idle EXCEPT !.pc = "getRead", !.key = key,
            !.val = mem[hashmap[Hash[key]]].val, !.slot = hashmap[Hash[key]]] \in Op
    BY <1>0, HashOfKey, ZenonT(60) DEF Hit, Op, Entry, Idle
  <2>2. QED
    BY <1>0, <1>3, <2>1 DEF GetLocked, queueVars
<1>4. ASSUME NEW t \in Threads, NEW key \in Keys, DelLocked(t, key)
      PROVE  ShardTypeOK'
  <2>1. hashmap[Hash[key]] # 0 => [Idle EXCEPT !.pc = "delRead", !.key = key,
            !.ts = mem[hashmap[Hash[key]]].ts, !.slot = hashmap[Hash[key]]] \in Op
    BY <1>0, HashOfKey, ZenonT(60) DEF Op, Entry, Idle
  <2>2. QED
    BY <1>0, <1>4, <2>1, HashOfKey DEF DelLocked
<1>5. ASSUME NEW t \in Threads, SetTtlPut(t) \/ GetRead(t) \/ DelTtlRemove(t)
      PROVE  ShardTypeOK'
  BY <1>0, <1>5 DEF SetTtlPut, GetRead, DelTtlRemove, queueVars
<1>6. ASSUME NEW t \in Threads, DelReadTimestamp(t)
      PROVE  ShardTypeOK'
  <2>1. PICK ts \in FreedTimestamps(t) :
            op' = [op EXCEPT ![t] = [op[t] EXCEPT !.pc = "delRemove", !.ts = ts]]
    BY <1>6, Zenon DEF DelReadTimestamp
  <2>2. op[t] \in Op /\ op[t].slot \in Slots
    BY <1>6 DEF DelReadTimestamp
  <2>3. ts \in Timestamp \union {0}
    BY <2>1, <2>2 DEF FreedTimestamps, Op, Entry
  <2>4. [op[t] EXCEPT !.pc = "delRemove", !.ts = ts] \in Op
    BY <2>2, <2>3, Zenon DEF Op
  <2>5. QED
    BY <1>0, <1>6, <2>1, <2>4 DEF DelReadTimestamp, queueVars
<1>7. CASE ShardReset
  BY <1>0, <1>7, SMTT(30) DEF ShardReset
<1>8. CASE evictDel
  <2>1. Expired \subseteq Hashes
    BY HashOfKey DEF Expired, TtlTypeOK, EvictorState
  <2>2. QED
    BY <1>0, <1>8, <2>1 DEF evictDel, Expired
<1>9. CASE UNCHANGED shardVars
  BY <1>0, <1>9 DEF shardVars
<1>10. QED
  BY <1>1, <1>2, <1>3, <1>4, <1>5, <1>6, <1>7, <1>8, <1>9, Zenon
  DEF Next, Call, Continue, Evictor, Time, vars

-----------------------------------------------------------------------------
(* Goroutines between two critical sections *)

(* Every step preserves what the goroutines rely on.                       *)
LEMMA OpsStep ==
  ASSUME ShardInv, [Next]_vars
  PROVE  OpsConsistent'
<1>t. hashmap \in [Hashes -> Slots \union {0}] /\ op \in [Threads -> Op] /\ OpsConsistent
  BY DEF ShardInv, ShardTypeOK
<1>1. ASSUME NEW t \in Threads, NEW key \in Keys, NEW val \in Values,
             NEW d \in Durations, SetStart(t, key, val, d)
      PROVE  OpsConsistent'
  BY <1>t, <1>1 DEF SetStart, OpsConsistent
<1>2. ASSUME NEW t \in Threads, SetLocked(t)
      PROVE  OpsConsistent'
  <2>1. op[t] \in Op
    BY <1>t
  <2>2. op[t].key \in Keys /\ (op[t].dur # 0 => op[t].ts \in Timestamp)
    BY <1>t, <1>2 DEF SetLocked, OpsConsistent
  <2>3. op' = [op EXCEPT ![t] = IF op[t].dur # 0 THEN [op[t] EXCEPT !.pc = "setPut"]
                                                 ELSE Idle]
        /\ deleted' = deleted
    BY <1>2, SMTT(30) DEF SetLocked
  <2>4. QED
    BY <1>t, <2>1, <2>2, <2>3 DEF OpsConsistent, Op, Idle
<1>3. ASSUME NEW t \in Threads,
             SetFull(t) \/ SetTtlPut(t) \/ GetRead(t) \/ DelTtlRemove(t)
      PROVE  OpsConsistent'
  BY <1>t, <1>3 DEF SetFull, SetTtlPut, GetRead, DelTtlRemove, OpsConsistent, Idle
<1>4. ASSUME NEW t \in Threads, NEW key \in Keys, GetLocked(t, key)
      PROVE  OpsConsistent'
  BY <1>t, <1>4 DEF GetLocked, OpsConsistent, Idle
<1>5. ASSUME NEW t \in Threads, NEW key \in Keys, DelLocked(t, key)
      PROVE  OpsConsistent'
  <2>1. CASE hashmap[Hash[key]] = 0
    BY <1>t, <1>5, <2>1 DEF DelLocked, OpsConsistent
  <2>2. CASE hashmap[Hash[key]] # 0
    <3>1. hashmap[Hash[key]] \in Slots
      BY <1>t, <2>2, HashOfKey
    <3> DEFINE r == [Idle EXCEPT !.pc = "delRead", !.key = key,
                        !.ts = mem[hashmap[Hash[key]]].ts, !.slot = hashmap[Hash[key]]]
    <3>2. op' = [op EXCEPT ![t] = r] /\ deleted' = deleted \union {key}
      BY <1>5, <2>2 DEF DelLocked
    <3>3. r.pc = "delRead" /\ r.key = key /\ r.slot = hashmap[Hash[key]]
      BY SMTT(30) DEF Idle
    <3> HIDE DEF r
    <3>4. QED
      BY <1>t, <3>1, <3>2, <3>3, Zenon DEF OpsConsistent
  <2>3. QED
    BY <2>1, <2>2
<1>6. ASSUME NEW t \in Threads, DelReadTimestamp(t)
      PROVE  OpsConsistent'
  <2>1. PICK ts : op' = [op EXCEPT ![t] = [op[t] EXCEPT !.pc = "delRemove", !.ts = ts]]
    BY <1>6, Zenon DEF DelReadTimestamp
  <2>2. op[t] \in Op /\ op[t].key \in Keys /\ op[t].key \in deleted /\ deleted' = deleted
    BY <1>t, <1>6 DEF DelReadTimestamp, OpsConsistent
  <2>3. op'[t].pc = "delRemove" /\ op'[t].key = op[t].key
    BY <1>t, <2>1, <2>2 DEF Op
  <2>4. \A u \in Threads \ {t} : op'[u] = op[u]
    BY <2>1
  <2>5. QED
    BY <1>t, <2>2, <2>3, <2>4, SMTT(30) DEF OpsConsistent
<1>7. CASE ShardReset \/ evictDel
  BY <1>t, <1>7, Zenon DEF ShardReset, evictDel, OpsConsistent
<1>8. CASE UNCHANGED shardVars
  BY <1>t, <1>8, SMTT(30) DEF shardVars, OpsConsistent
<1>9. QED
  BY <1>1, <1>2, <1>3, <1>4, <1>5, <1>6, <1>7, <1>8, SMTT(30)
  DEF Next, Call, Continue, Evictor, Time, vars

-----------------------------------------------------------------------------
(* The hash map *)

(* Every step keeps the slots of the hash map apart from the free ones and *)
(* each entry under its own hash.                                          *)
LEMMA HashmapStep ==
  ASSUME ShardInv, [Next]_vars
  PROVE  HashmapSound' /\ (Healthy => freelist \intersect fresh = {})'
<1> DEFINE Goal == HashmapSound /\ (Healthy => freelist \intersect fresh = {})
<1>t. /\ hashmap \in [Hashes -> Slots \union {0}] /\ mem \in [Slots -> Entry]
      /\ freelist \in SUBSET Slots /\ fresh \in SUBSET Slots /\ op \in [Threads -> Op]
      /\ OpsConsistent /\ HashmapSound /\ (Healthy => freelist \intersect fresh = {})
  BY DEF ShardInv, ShardTypeOK
<1>f. fresh \in SUBSET Slots
  BY <1>t
<1>1. ASSUME UNCHANGED <<hashmap, mem, freelist, fresh, shardLock, staleFree>>
      PROVE  Goal'
  BY <1>t, <1>1, SMTT(30) DEF HashmapSound, Healthy, Live, EntryAt
<1>2. ASSUME NEW t \in Threads, SetLocked(t)
      PROVE  Goal'
  <2> DEFINE h == Hash[op[t].key]
             free == FreeAfterDrop(h)
  <2>1. op[t].key \in Keys /\ h \in Hashes
    BY <1>t, <1>2, HashOfKey DEF SetLocked, OpsConsistent
  <2>2. PICK slot \in free \union fresh :
          /\ mem' = [mem EXCEPT ![slot] = [ts |-> op[t].ts, key |-> op[t].key,
                                           val |-> op[t].val]]
          /\ hashmap' = [hashmap EXCEPT ![h] = slot]
          /\ \/ slot \in free /\ freelist' = free \ {slot} /\ fresh' = fresh
             \/ slot \in fresh /\ freelist' = free /\ fresh' = fresh \ {slot}
    BY <1>2, Zenon DEF SetLocked
  <2>3. UNCHANGED <<shardLock, staleFree>>
    BY <1>2 DEF SetLocked
  <2>4. SUFFICES ASSUME Healthy
                 PROVE  /\ freelist' \intersect fresh' = {}
                        /\ \A g \in Hashes : hashmap'[g] # 0 =>
                              /\ mem'[hashmap'[g]].key \in Keys
                              /\ Hash[mem'[hashmap'[g]].key] = g
                              /\ hashmap'[g] \notin freelist' \union fresh'
    BY <2>3, SMTT(30) DEF HashmapSound, Healthy, Live, EntryAt
  <2>5. \A g \in Hashes : hashmap[g] # 0 =>
            /\ hashmap[g] \in Slots
            /\ mem[hashmap[g]].key \in Keys /\ Hash[mem[hashmap[g]].key] = g
            /\ hashmap[g] \notin freelist \union fresh
    BY <1>t, <2>4, SMTT(30) DEF HashmapSound, Live, EntryAt
  <2>6. free \in SUBSET Slots /\ free \intersect fresh = {}
    BY <1>t, <2>1, <2>4, <2>5, SMTT(30) DEF FreeAfterDrop
  <2>7. slot \in Slots /\ slot # 0
    <3>1. free \in SUBSET Slots /\ slot \in free \union fresh
      BY <2>2, <2>6, Zenon
    <3> HIDE DEF free
    <3>2. slot \in Slots
      BY <1>f, <3>1, Zenon
    <3> QED BY <3>2, ShardAssumption
  <2>8. \A g \in Hashes \ {h} : hashmap[g] # 0 =>
            hashmap[g] \notin free \union fresh
    BY <2>1, <2>5, Zenon DEF FreeAfterDrop
  <2>9. freelist' \intersect fresh' = {} /\ slot \notin freelist' \union fresh'
        /\ freelist' \union fresh' \subseteq free \union fresh
    BY <2>2, <2>6, Zenon
  <2>10. ASSUME NEW g \in Hashes, hashmap'[g] # 0
         PROVE  /\ mem'[hashmap'[g]].key \in Keys
                /\ Hash[mem'[hashmap'[g]].key] = g
                /\ hashmap'[g] \notin freelist' \union fresh'
    <3>1. CASE g = h
      <4>1. hashmap'[g] = slot
        BY <1>t, <2>1, <2>2, <3>1, Zenon
      <4>2. mem'[slot].key \in Keys /\ Hash[mem'[slot].key] = h
        BY <1>t, <2>1, <2>2, <2>7, Zenon
      <4>3. QED
        BY <2>9, <3>1, <4>1, <4>2, Zenon
    <3>2. CASE g # h
      <4>1. hashmap'[g] = hashmap[g]
        BY <2>1, <2>2, <3>2, SMTT(30)
      <4>2. hashmap[g] # slot /\ hashmap[g] \in Slots
        BY <2>2, <2>5, <2>8, <2>10, <3>2, <4>1, SMTT(30)
      <4>3. mem'[hashmap[g]] = mem[hashmap[g]]
        BY <2>2, <4>2, SMTT(30)
      <4>4. QED
        BY <2>5, <2>8, <2>9, <2>10, <3>2, <4>1, <4>3, SMTT(30)
    <3>3. QED
      BY <3>1, <3>2, Zenon
  <2>11. QED
    BY <2>9, <2>10
<1>3. ASSUME NEW t \in Threads, SetFull(t)
      PROVE  Goal'
  BY <1>3, Zenon DEF SetFull, HashmapSound, Healthy
<1>4. ASSUME NEW t \in Threads, NEW key \in Keys, DelLocked(t, key)
      PROVE  Goal'
  <2>1. CASE hashmap[Hash[key]] = 0
    BY <1>1, <1>4, <2>1 DEF DelLocked
  <2>2. CASE hashmap[Hash[key]] # 0
    BY <1>t, <1>4, <2>2, HashOfKey, ShardAssumption, SMTT(30)
    DEF DelLocked, HashmapSound, Healthy, Live, EntryAt
  <2>3. QED
    BY <2>1, <2>2, Zenon
<1>5. CASE ShardReset
  BY <1>5 DEF ShardReset, HashmapSound, Healthy, Live
<1>6. CASE evictDel
  <2>1. UNCHANGED <<mem, fresh, shardLock, staleFree>>
        /\ hashmap' = [h \in Hashes |-> IF h \in Expired THEN 0 ELSE hashmap[h]]
        /\ freelist' = freelist \union {hashmap[h] : h \in Expired}
    BY <1>6 DEF evictDel
  <2>2. Expired \subseteq Hashes /\ \A h \in Expired : hashmap[h] # 0
    BY HashOfKey, SMTT(30) DEF ShardInv, ShardTypeOK, Expired, TtlTypeOK, EvictorState
  <2>3. SUFFICES ASSUME Healthy
                 PROVE  /\ freelist' \intersect fresh' = {}
                        /\ \A g \in Hashes : hashmap'[g] # 0 =>
                              /\ mem'[hashmap'[g]].key \in Keys
                              /\ Hash[mem'[hashmap'[g]].key] = g
                              /\ hashmap'[g] \notin freelist' \union fresh'
    BY <2>1, Zenon DEF HashmapSound, Healthy, Live, EntryAt
  <2>4. \A g \in Hashes : hashmap[g] # 0 =>
            /\ mem[hashmap[g]].key \in Keys /\ Hash[mem[hashmap[g]].key] = g
            /\ hashmap[g] \notin freelist \union fresh
    BY <1>t, <2>3, Zenon DEF HashmapSound, Live, EntryAt
  <2>5. freelist' \intersect fresh' = {}
    BY <1>t, <2>1, <2>2, <2>3, <2>4
  <2>6. ASSUME NEW g \in Hashes, hashmap'[g] # 0
        PROVE  /\ mem'[hashmap'[g]].key \in Keys
               /\ Hash[mem'[hashmap'[g]].key] = g
               /\ hashmap'[g] \notin freelist' \union fresh'
    <3>1. g \notin Expired /\ hashmap'[g] = hashmap[g]
      BY <2>1, <2>6
    <3>2. \A x \in Expired : hashmap[x] # hashmap[g]
      BY <2>2, <2>4, <2>6, <3>1
    <3>3. QED
      BY <2>1, <2>4, <2>6, <3>1, <3>2, Zenon
  <2>7. QED
    BY <2>5, <2>6
<1>7. ASSUME NEW t \in Threads, NEW key \in Keys,
             GetLocked(t, key) \/ \E val \in Values, d \in Durations : SetStart(t, key, val, d)
      PROVE  Goal'
  BY <1>1, <1>7, SMTT(30) DEF GetLocked, SetStart, queueVars
<1>8. ASSUME NEW t \in Threads,
             SetTtlPut(t) \/ GetRead(t) \/ DelReadTimestamp(t) \/ DelTtlRemove(t)
      PROVE  Goal'
  BY <1>1, <1>8, Zenon DEF SetTtlPut, GetRead, DelReadTimestamp, DelTtlRemove, queueVars
<1>9. CASE UNCHANGED shardVars
  BY <1>1, <1>9, SMTT(30) DEF shardVars
<1>10. QED
  BY <1>2, <1>3, <1>4, <1>5, <1>6, <1>7, <1>8, <1>9, Zenon
  DEF Next, Call, Continue, Evictor, Time, vars

-----------------------------------------------------------------------------
(* Expiry *)

(* A covered entry stays covered while its slot, the pairs of the tree,    *)
(* the eviction goroutine and the sets about to put are left alone.        *)
LEMMA KeepCovered ==
  ASSUME NEW h \in Hashes, Covered(h),
         EntryAt(h)' = EntryAt(h),
         <<EntryAt(h).ts, EntryAt(h).key>> \in timeTree =>
             <<EntryAt(h).ts, EntryAt(h).key>> \in timeTree',
         evictor' = evictor,
         \A t \in Threads : op[t].pc = "setPut" => op'[t] = op[t]
  PROVE  Covered(h)'
BY Zenon DEF Covered

(* put adds its pair and keeps the others.                                 *)
LEMMA PutKeeps ==
  ASSUME NEW ts, NEW key, put(ts, key)
  PROVE  <<ts, key>> \in timeTree' /\ timeTree \subseteq timeTree' /\ evictor' = evictor
BY DEF put

(* remove takes away one pair.                                             *)
LEMMA RemoveKeeps ==
  ASSUME NEW ts, NEW key, remove(ts, key)
  PROVE  timeTree' = timeTree \ {<<ts, key>>} /\ evictor' = evictor
BY DEF remove

(* Every step keeps each live entry with a time to live covered, unless    *)
(* del has been called for its key.                                        *)
LEMMA CoveredStep ==
  ASSUME ShardInv, [Next]_vars
  PROVE  TtlCovered'
<1>t. /\ hashmap \in [Hashes -> Slots \union {0}] /\ mem \in [Slots -> Entry]
      /\ freelist \in SUBSET Slots /\ fresh \in SUBSET Slots /\ op \in [Threads -> Op]
      /\ OpsConsistent /\ HashmapSound /\ TtlCovered
  BY DEF ShardInv, ShardTypeOK
<1> DEFINE Timed(h) == Live(h) /\ EntryAt(h).ts # 0 /\ EntryAt(h).key \notin deleted
<1>0. ASSUME NEW h \in Hashes, Healthy, Timed(h)
      PROVE  /\ Covered(h) /\ hashmap[h] \in Slots
             /\ EntryAt(h).key \in Keys /\ Hash[EntryAt(h).key] = h
             /\ EntryAt(h).ts \in Timestamp
  <2>1. hashmap[h] \in Slots
    BY <1>t, <1>0 DEF Live
  <2>2. EntryAt(h).ts \in Timestamp
    BY <1>t, <1>0, <2>1, SMTT(30) DEF EntryAt, Entry
  <2>3. QED
    BY <1>t, <1>0, <2>1, <2>2, Zenon DEF TtlCovered, HashmapSound
<1>1. ASSUME UNCHANGED <<hashmap, mem, shardLock, staleFree, timeTree, evictor>>,
             deleted \subseteq deleted',
             \A t \in Threads : op[t].pc = "setPut" => op'[t] = op[t]
      PROVE  TtlCovered'
  <2>1. SUFFICES ASSUME NEW h \in Hashes, Healthy', Timed(h)'
                 PROVE  Covered(h)'
    BY DEF TtlCovered
  <2>2. Healthy /\ Timed(h) /\ EntryAt(h)' = EntryAt(h)
    BY <1>1, <2>1, SMTT(30) DEF Healthy, Live, EntryAt
  <2>3. QED
    BY <1>0, <1>1, <2>2, KeepCovered, Zenon
<1>2. ASSUME NEW t \in Threads, SetLocked(t)
      PROVE  TtlCovered'
  <2> DEFINE g == Hash[op[t].key]
  <2>1. op[t].key \in Keys /\ g \in Hashes /\ op[t] \in Op
        /\ (op[t].dur = 0 => op[t].ts = 0)
    BY <1>t, <1>2, HashOfKey, Zenon DEF SetLocked, OpsConsistent
  <2>2. PICK slot \in FreeAfterDrop(g) \union fresh :
          /\ mem' = [mem EXCEPT ![slot] = [ts |-> op[t].ts, key |-> op[t].key,
                                           val |-> op[t].val]]
          /\ hashmap' = [hashmap EXCEPT ![g] = slot]
    BY <1>2, ZenonT(60) DEF SetLocked
  <2>3. UNCHANGED <<shardLock, staleFree, deleted>> /\ op[t].pc = "set"
        /\ op' = [op EXCEPT ![t] = IF op[t].dur # 0 THEN [op[t] EXCEPT !.pc = "setPut"]
                                                    ELSE Idle]
    BY <1>2, SMTT(30) DEF SetLocked
  <2>4. SUFFICES ASSUME NEW h \in Hashes, Healthy', Timed(h)'
                 PROVE  Covered(h)'
    BY Zenon DEF TtlCovered
  <2>5. Healthy
    BY <2>3, <2>4, SMTT(30) DEF Healthy
  <2>6. slot \in Slots
    BY <1>t, <2>1, <2>2, Zenon DEF FreeAfterDrop
  <2>7. CASE h = g
    <3>1. EntryAt(h)' = [ts |-> op[t].ts, key |-> op[t].key, val |-> op[t].val]
      BY <1>t, <2>1, <2>2, <2>6, <2>7, Zenon DEF EntryAt
    <3>2. op[t].dur # 0
      BY <2>1, <2>4, <3>1
    <3>3. op'[t].pc = "setPut" /\ op'[t].key = op[t].key /\ op'[t].ts = op[t].ts
      BY <1>t, <2>1, <2>3, <3>2 DEF Op
    <3>4. QED
      BY <3>1, <3>3, SMTT(30) DEF Covered
  <2>8. CASE h # g
    <3>1. hashmap'[h] = hashmap[h] /\ hashmap[h] # 0
      BY <2>1, <2>2, <2>4, <2>8, SMTT(30) DEF Live
    <3>2. hashmap[h] # hashmap[g] /\ hashmap[h] \notin freelist \union fresh
      BY <1>t, <2>1, <2>5, <2>8, <3>1, Zenon DEF HashmapSound, Live, EntryAt
    <3>3. EntryAt(h)' = EntryAt(h)
      BY <2>2, <2>6, <3>1, <3>2 DEF EntryAt, FreeAfterDrop
    <3>4. Timed(h)
      BY <2>3, <2>4, <3>1, <3>3, SMTT(30) DEF Live
    <3>5. EntryAt(h).key # op[t].key
      BY <1>0, <2>5, <2>8, <3>4, Zenon
    <3>6. /\ evictor' = evictor
          /\ <<EntryAt(h).ts, EntryAt(h).key>> \in timeTree =>
               <<EntryAt(h).ts, EntryAt(h).key>> \in timeTree'
      <4>1. CASE hashmap[g] # 0
        <5>1. remove(mem[hashmap[g]].ts, op[t].key)
          BY <1>2, <4>1, Zenon DEF SetLocked, DropPrevious
        <5>2. QED
          BY <3>5, <5>1, RemoveKeeps, SMTT(30)
      <4>2. CASE hashmap[g] = 0
        BY <1>2, <4>2, Zenon DEF SetLocked, DropPrevious, ttlVars
      <4>3. QED
        BY <4>1, <4>2, Zenon
    <3>7. QED
      BY <1>0, <2>3, <2>5, <3>3, <3>4, <3>6, KeepCovered, SMTT(30)
  <2>9. QED
    BY <2>7, <2>8, Zenon
<1>3. ASSUME NEW t \in Threads, SetFull(t)
      PROVE  TtlCovered'
  BY <1>3, Zenon DEF SetFull, TtlCovered, Healthy
<1>4. ASSUME NEW t \in Threads, SetTtlPut(t)
      PROVE  TtlCovered'
  <2>1. UNCHANGED <<hashmap, mem, shardLock, staleFree, deleted>>
        /\ op' = [op EXCEPT ![t] = Idle] /\ put(op[t].ts, op[t].key)
    BY <1>4 DEF SetTtlPut, queueVars
  <2>2. <<op[t].ts, op[t].key>> \in timeTree' /\ timeTree \subseteq timeTree'
        /\ evictor' = evictor
    BY <2>1, PutKeeps
  <2>3. SUFFICES ASSUME NEW h \in Hashes, Healthy', Timed(h)'
                 PROVE  Covered(h)'
    BY DEF TtlCovered
  <2>4. Healthy /\ Timed(h) /\ EntryAt(h)' = EntryAt(h)
    BY <2>1, <2>3, Zenon DEF Healthy, Live, EntryAt
  <2>5. Covered(h)
    BY <1>0, <2>4, Zenon
  <2>6. \A u \in Threads \ {t} : op'[u] = op[u]
    BY <2>1, SMTT(30)
  <2>7. QED
    BY <2>2, <2>4, <2>5, <2>6, Zenon DEF Covered
<1>5. ASSUME NEW t \in Threads, NEW key \in Keys, DelLocked(t, key)
      PROVE  TtlCovered'
  <2>1. /\ UNCHANGED <<mem, shardLock, staleFree, timeTree, evictor>>
        /\ deleted \subseteq deleted' /\ op[t].pc = "idle"
        /\ \A u \in Threads \ {t} : op'[u] = op[u]
        /\ \A h \in Hashes : hashmap'[h] # 0 => hashmap'[h] = hashmap[h]
    BY <1>t, <1>5, HashOfKey DEF DelLocked, ttlVars
  <2>2. SUFFICES ASSUME NEW h \in Hashes, Healthy', Timed(h)'
                 PROVE  Covered(h)'
    BY SMTT(30) DEF TtlCovered
  <2>3. Healthy /\ Timed(h) /\ EntryAt(h)' = EntryAt(h)
    BY <2>1, <2>2, Zenon DEF Healthy, Live, EntryAt
  <2>4. QED
    BY <1>0, <2>1, <2>3, KeepCovered, Zenon
<1>6. ASSUME NEW t \in Threads, DelTtlRemove(t)
      PROVE  TtlCovered'
  <2>1. UNCHANGED <<hashmap, mem, shardLock, staleFree, deleted>>
        /\ op' = [op EXCEPT ![t] = Idle] /\ op[t].pc = "delRemove"
        /\ remove(op[t].ts, op[t].key) /\ op[t].key \in deleted
    BY <1>t, <1>6, Zenon DEF DelTtlRemove, queueVars, OpsConsistent
  <2>2. timeTree' = timeTree \ {<<op[t].ts, op[t].key>>} /\ evictor' = evictor
    BY <2>1, RemoveKeeps, SMTT(30)
  <2>3. SUFFICES ASSUME NEW h \in Hashes, Healthy', Timed(h)'
                 PROVE  Covered(h)'
    BY DEF TtlCovered
  <2>4. Healthy /\ Timed(h) /\ EntryAt(h)' = EntryAt(h)
    BY <2>1, <2>3, Zenon DEF Healthy, Live, EntryAt
  <2>5. EntryAt(h).key # op[t].key
    BY <2>1, <2>4, Zenon
  <2>6. QED
    BY <1>t, <1>0, <2>1, <2>2, <2>4, <2>5, KeepCovered, ZenonT(60)
<1>7. CASE ShardReset
  BY <1>7, SMTT(30) DEF ShardReset, TtlCovered, Live
<1>8. CASE evictDel
  <2>1. /\ UNCHANGED <<mem, shardLock, staleFree, deleted, op, timeTree>>
        /\ hashmap' = [h \in Hashes |-> IF h \in Expired THEN 0 ELSE hashmap[h]]
    BY <1>8 DEF evictDel, EvictionEvicted
  <2>2. SUFFICES ASSUME NEW h \in Hashes, Healthy', Timed(h)'
                 PROVE  Covered(h)'
    BY DEF TtlCovered
  <2>3. Healthy /\ Timed(h) /\ EntryAt(h)' = EntryAt(h) /\ h \notin Expired
    BY <2>1, <2>2, Zenon DEF Healthy, Live, EntryAt
  <2>4. Covered(h) /\ EntryAt(h).key \in Keys /\ Hash[EntryAt(h).key] = h
    BY <1>0, <2>3, Zenon
  <2>5. ~(evictor.ts = EntryAt(h).ts /\ EntryAt(h).key \in evictor.keys)
    BY <2>3, <2>4, Zenon DEF Expired, EntryAt, Live
  <2>6. QED
    BY <2>1, <2>3, <2>4, <2>5, Zenon DEF Covered
<1>9. CASE (EvictionReceive \/ EvictionFirst \/ EvictionNext) /\ UNCHANGED shardVars
  <2>1. UNCHANGED <<hashmap, mem, shardLock, staleFree, deleted, op>>
    BY <1>9 DEF shardVars
  <2>2. evictor.pc # "evict"
    BY <1>9, SMTT(30) DEF EvictionReceive, EvictionFirst, EvictionNext
  <2>3. SUFFICES ASSUME NEW h \in Hashes, Healthy', Timed(h)'
                 PROVE  Covered(h)'
    BY DEF TtlCovered
  <2>4. Healthy /\ Timed(h) /\ EntryAt(h)' = EntryAt(h)
    BY <2>1, <2>3, Zenon DEF Healthy, Live, EntryAt
  <2>5. Covered(h) /\ EntryAt(h).key \in Keys
    BY <1>0, <2>4, Zenon
  <2>6. ASSUME timeTree' = timeTree
        PROVE  Covered(h)'
    BY <2>1, <2>2, <2>4, <2>5, <2>6, Zenon DEF Covered
  <2>7. ASSUME NEW ts, PopHead(ts)
        PROVE  Covered(h)'
    BY <2>1, <2>2, <2>4, <2>5, <2>7, Zenon DEF Covered, PopHead, Without, SetAt
  <2>8. QED
    BY <1>9, <2>6, <2>7
    DEF EvictionReceive, EvictionFirst, EvictionNext, EvictionBackToWait
<1>10. CASE Time
  BY <1>1, <1>10, Zenon DEF Time, Fire, Tick, shardVars
<1>11. ASSUME NEW t \in Threads, NEW key \in Keys,
              GetLocked(t, key) \/ \E val \in Values, d \in Durations : SetStart(t, key, val, d)
       PROVE  TtlCovered'
  BY <1>t, <1>1, <1>11, SMTT(30) DEF GetLocked, SetStart, queueVars, ttlVars
<1>12. ASSUME NEW t \in Threads, GetRead(t) \/ DelReadTimestamp(t)
       PROVE  TtlCovered'
  BY <1>t, <1>1, <1>12, Zenon DEF GetRead, DelReadTimestamp, queueVars, ttlVars
<1>13. CASE UNCHANGED vars
  BY <1>1, <1>13, Zenon DEF vars, shardVars, ttlVars
<1>14. QED
  BY <1>2, <1>3, <1>4, <1>5, <1>6, <1>7, <1>8, <1>9, <1>10, <1>11, <1>12, <1>13, Zenon
  DEF Next, Call, Continue, Evictor

-----------------------------------------------------------------------------
(* The expiry manager *)

(* resetTimer's unsigned subtraction followed by the signed conversion     *)
(* gives the true difference, also for a timestamp that is already past.   *)
LEMMA SignedInterval ==
  ASSUME NEW ts \in 0 .. MaxTime, NEW t \in 0 .. MaxTime
  PROVE  AsDuration(U64Sub(ts, t)) = ts - t
BY TimeAssumption DEF AsDuration, U64Sub

(* resetTimer leaves the timer running for ts with an empty channel.       *)
LEMMA ResetTimerArms ==
  ASSUME TtlTypeOK, timerArmed = 1 => timerC = 0,
         NEW ts \in Timestamp, resetTimer(ts)
  PROVE  timerArmed' = 1 /\ deadline' = ts /\ timerC' = 0
<1>1. ts \in 0 .. MaxTime /\ now \in 0 .. MaxTime /\ ts \in Int /\ now \in Int
  BY TimeAssumption DEF TtlTypeOK, Timestamp
<1>2. now + AsDuration(U64Sub(ts, now)) = ts
  BY <1>1, SignedInterval
<1>3. QED
  BY <1>2 DEF resetTimer, StopAndDrain, TtlTypeOK

(* Adding a pair makes its timestamp the head or leaves the head alone.    *)
LEMMA HeadAfterPut ==
  ASSUME NEW tree \in SUBSET (Timestamp \X Keys),
         NEW ts \in Timestamp, NEW key \in Keys, NEW h \in Timestamp, IsHead(tree, h)
  PROVE  /\ h <= ts => IsHead(tree \union {<<ts, key>>}, h)
         /\ ts < h => IsHead(tree \union {<<ts, key>>}, ts) /\ ~Found(tree, ts)
<1>1. ts \in Int /\ h \in Int /\ \A p \in tree : p[1] \in Int /\ h <= p[1]
  BY TimeAssumption DEF IsHead, Timestamp
<1>2. ASSUME h <= ts
      PROVE  IsHead(tree \union {<<ts, key>>}, h)
  <2>1. Found(tree \union {<<ts, key>>}, h)
    BY DEF IsHead, Found
  <2>2. \A p \in tree \union {<<ts, key>>} : h <= p[1]
    BY <1>1, <1>2
  <2>3. QED
    BY <2>1, <2>2 DEF IsHead
<1>3. ASSUME ts < h
      PROVE  IsHead(tree \union {<<ts, key>>}, ts) /\ ~Found(tree, ts)
  <2>1. Found(tree \union {<<ts, key>>}, ts)
    BY DEF Found
  <2>2. \A p \in tree \union {<<ts, key>>} : ts <= p[1]
    BY <1>1, <1>3
  <2>3. ASSUME NEW k \in Keys, <<ts, k>> \in tree
        PROVE  FALSE
    <3>1. h <= <<ts, k>>[1]
      BY <1>1, <2>3
    <3>2. QED
      BY <1>1, <1>3, <3>1
  <2>4. QED
    BY <2>1, <2>2, <2>3, Zenon DEF IsHead, Found
<1>4. QED
  BY <1>2, <1>3

(* Taking a pair away leaves the head alone unless it was the head's last. *)
LEMMA HeadAfterRemove ==
  ASSUME NEW tree \in SUBSET (Timestamp \X Keys),
         NEW ts \in Timestamp, NEW key \in Keys, NEW h \in Timestamp, IsHead(tree, h),
         ~(IsHead(tree, ts) /\ ~Found(tree \ {<<ts, key>>}, ts))
  PROVE  IsHead(tree \ {<<ts, key>>}, h)
<1>1. CASE ts = h
  BY <1>1 DEF IsHead, Found
<1>2. CASE ts # h
  BY <1>2 DEF IsHead, Found
<1>3. QED
  BY <1>1, <1>2

(* Every action preserves the inductive invariant: the type invariant, the *)
(* empty channel of a running timer, and TimerTracksHead.                  *)
LEMMA TtlStep ==
  ASSUME TtlInv, [TtlNext]_ttlVars
  PROVE  TtlInv'
<1> USE DEF TtlInv
<1>1. ASSUME NEW ts \in Timestamp, NEW key \in Keys, put(ts, key)
      PROVE  TtlInv'
  <2>1. timeTree' \in SUBSET (Timestamp \X Keys) /\ UNCHANGED <<now, evictor>>
    BY <1>1 DEF put, TtlTypeOK
  <2>2. CASE ~Found(timeTree, ts) /\ IsHead(timeTree', ts)
    <3>1. resetTimer(ts)
      BY <1>1, <2>2 DEF put
    <3>2. timerArmed' = 1 /\ deadline' = ts /\ timerC' = 0
      BY <3>1, ResetTimerArms
    <3>3. QED
      BY <2>1, <2>2, <3>2, TimeAssumption DEF TtlTypeOK, Timestamp, TimerTracksHead
  <2>3. CASE ~(~Found(timeTree, ts) /\ IsHead(timeTree', ts))
    <3>1. timerUnchanged /\ timeTree' = timeTree \union {<<ts, key>>}
      BY <1>1, <2>3 DEF put
    <3>2. timeTree # {}
      <4>1. SUFFICES ASSUME timeTree = {} PROVE FALSE
        OBVIOUS
      <4>2. ~Found(timeTree, ts) /\ IsHead({<<ts, key>>}, ts)
        BY <4>1, TimeAssumption DEF Found, IsHead, Timestamp
      <4>3. QED
        BY <2>3, <3>1, <4>1, <4>2
    <3>3. ASSUME NEW h \in Timestamp, IsHead(timeTree, h)
          PROVE  IsHead(timeTree', h)
      <4>1. ts \in Int /\ h \in Int
        BY TimeAssumption DEF Timestamp
      <4>2. ~(ts < h)
        BY <2>3, <3>1, <3>3, HeadAfterPut, Zenon DEF TtlTypeOK
      <4>3. QED
        BY <3>1, <3>3, <4>1, <4>2, HeadAfterPut, SMTT(30) DEF TtlTypeOK
    <3>4. QED
      BY <2>1, <3>1, <3>2, <3>3, Zenon DEF TtlTypeOK, TimerTracksHead, timerUnchanged
  <2>4. QED
    BY <2>2, <2>3
<1>2. ASSUME NEW ts \in Timestamp, NEW key \in Keys, remove(ts, key)
      PROVE  TtlInv'
  <2>1. /\ timeTree' = timeTree \ {<<ts, key>>}
        /\ timeTree' \in SUBSET (Timestamp \X Keys)
        /\ UNCHANGED <<now, evictor>>
    BY <1>2, Zenon DEF remove, TtlTypeOK
  <2>2. CASE IsHead(timeTree, ts) /\ ~Found(timeTree', ts) /\ timeTree' # {}
    <3>1. PICK head \in Timestamp : IsHead(timeTree', head) /\ resetTimer(head)
      BY <1>2, <2>2, Zenon DEF remove
    <3>2. timerArmed' = 1 /\ deadline' = head /\ timerC' = 0
      BY <3>1, ResetTimerArms
    <3>3. QED
      BY <2>1, <3>1, <3>2, TimeAssumption DEF TtlTypeOK, Timestamp, TimerTracksHead
  <2>3. CASE ~(IsHead(timeTree, ts) /\ ~Found(timeTree', ts)) \/ timeTree' = {}
    <3>1. timerUnchanged
      BY <1>2, <2>3 DEF remove
    <3>2. CASE timeTree' = {}
      BY <2>1, <3>1, <3>2, Zenon DEF TtlTypeOK, TimerTracksHead, timerUnchanged
    <3>3. CASE timeTree' # {}
      <4>1. ASSUME NEW h \in Timestamp, IsHead(timeTree, h)
            PROVE  IsHead(timeTree', h)
        BY <2>1, <2>3, <3>3, <4>1, HeadAfterRemove, Zenon DEF TtlTypeOK
      <4>2. timeTree # {}
        BY <2>1, <3>3
      <4>3. QED
        BY <2>1, <3>1, <4>1, <4>2, Zenon DEF TtlTypeOK, TimerTracksHead, timerUnchanged
    <3>4. QED
      BY <3>2, <3>3
  <2>4. QED
    BY <2>2, <2>3
<1>3. CASE reset
  BY <1>3, Zenon DEF reset, stopTimer, StopAndDrain, TtlTypeOK, TimerTracksHead
<1>4. CASE EvictionReceive
  BY <1>4 DEF EvictionReceive, TtlTypeOK, EvictorState, TimerTracksHead
<1>5. ASSUME NEW ts \in Timestamp, PopHead(ts)
      PROVE  TtlInv'
  <2>1. SetAt(timeTree, ts) \in SUBSET Keys /\ ts \in Nat
    BY TimeAssumption DEF SetAt, Timestamp
  <2>2. QED
    BY <1>5, <2>1, Zenon DEF PopHead, Without, timerUnchanged, TtlTypeOK, EvictorState,
                      TimerTracksHead
<1>6. CASE EvictionBackToWait
  BY <1>6, Zenon DEF EvictionBackToWait, Waiting, timerUnchanged, TtlTypeOK, EvictorState,
              TimerTracksHead
<1>7. CASE EvictionFirst
  BY <1>5, <1>6, <1>7 DEF EvictionFirst
<1>8. CASE EvictionEvicted
  BY <1>8 DEF EvictionEvicted, timerUnchanged, TtlTypeOK, EvictorState, TimerTracksHead
<1>9. CASE EvictionNext
  <2>1. ASSUME NEW ts \in Timestamp, IsHead(timeTree, ts), resetTimer(ts),
               evictor' = Waiting, UNCHANGED <<now, timeTree>>
        PROVE  TtlInv'
    <3>1. timerArmed' = 1 /\ deadline' = ts /\ timerC' = 0
      BY <2>1, ResetTimerArms
    <3>2. QED
      BY <2>1, <3>1, TimeAssumption
      DEF TtlTypeOK, EvictorState, Waiting, Timestamp, TimerTracksHead
  <2>2. QED
    BY <1>5, <1>6, <1>9, <2>1, Zenon DEF EvictionNext
<1>10. CASE Fire
  BY <1>10, TimeAssumption, Zenon DEF Fire, TtlTypeOK, TimerTracksHead, Timestamp
<1>11. CASE Tick
  BY <1>11, TimeAssumption DEF Tick, TtlTypeOK, TimerTracksHead, Timestamp
<1>12. CASE UNCHANGED ttlVars
  BY <1>12, Zenon DEF ttlVars, TtlTypeOK, TimerTracksHead
<1>13. QED
  BY <1>1, <1>2, <1>3, <1>4, <1>7, <1>8, <1>9, <1>10, <1>11, <1>12, Zenon DEF TtlNext

(* The initial ten-hour timer satisfies the invariant: the tree is empty.  *)
LEMMA TtlInitInv == TtlInit => TtlInv
BY TimeAssumption
DEF TtlInit, TtlInv, TtlTypeOK, TimerTracksHead, Waiting, EvictorState

(* For every set of keys and every clock range, put, remove, reset and the *)
(* eviction goroutine of ttl.go keep the timer in step with the head of    *)
(* the tree: no wakeup is lost while the goroutine waits, none is early.   *)
THEOREM TimerAlwaysTracksHead == TtlSpec => []TimerTracksHead
<1>1. TtlInv => TimerTracksHead
  BY DEF TtlInv
<1>2. QED
  BY TtlInitInv, TtlStep, <1>1, PTL DEF TtlSpec

-----------------------------------------------------------------------------
(* The steps of the manager in the shard *)

(* Removing a key under NO_EXPIRY finds nothing in the tree.               *)
LEMMA RemoveIsTtlStep ==
  ASSUME TtlInv, NEW ts \in Timestamp \union {0}, NEW key \in Keys, remove(ts, key)
  PROVE  [TtlNext]_ttlVars
<1>1. CASE ts \in Timestamp
  BY <1>1 DEF TtlNext
<1>2. CASE ts = 0
  <2>1. \A k \in Keys : <<0, k>> \notin timeTree
    <3>1. 0 \notin Timestamp
      BY TimeAssumption DEF Timestamp
    <3>2. QED
      BY <3>1 DEF TtlInv, TtlTypeOK
  <2>2. timeTree' = timeTree
    BY <1>2, <2>1 DEF remove
  <2>3. ~IsHead(timeTree, 0)
    BY <2>1, Zenon DEF IsHead, Found
  <2>4. QED
    BY <1>2, <2>2, <2>3 DEF remove, timerUnchanged, ttlVars
<1>3. QED
  BY <1>1, <1>2

(* What set does with the previous entry of its hash is a manager step.    *)
LEMMA DropPreviousIsTtlStep ==
  ASSUME ShardInv, NEW key \in Keys, DropPrevious(Hash[key], key)
  PROVE  [TtlNext]_ttlVars
<1>1. CASE hashmap[Hash[key]] # 0
  <2>1. mem[hashmap[Hash[key]]].ts \in Timestamp \union {0}
    BY <1>1, HashOfKey, Zenon DEF ShardInv, ShardTypeOK, Entry
  <2>2. QED
    BY <1>1, <2>1, RemoveIsTtlStep, Zenon DEF DropPrevious, ShardInv
<1>2. CASE hashmap[Hash[key]] = 0
  BY <1>2, Zenon DEF DropPrevious
<1>3. QED
  BY <1>1, <1>2, Zenon

(* Every step of the shard is a step of its expiry manager or leaves the   *)
(* manager alone.                                                          *)
LEMMA ShardStepIsTtlStep ==
  ASSUME ShardInv, [Next]_vars
  PROVE  [TtlNext]_ttlVars
<1>1. ASSUME NEW t \in Threads, Call(t)
      PROVE  [TtlNext]_ttlVars
  BY <1>1 DEF Call, SetStart, GetLocked, DelLocked
<1>2. ASSUME NEW t \in Threads, SetLocked(t) \/ SetFull(t)
      PROVE  [TtlNext]_ttlVars
  <2>1. op[t].key \in Keys
    BY <1>2, Zenon DEF SetLocked, SetFull, ShardInv, OpsConsistent
  <2>2. QED
    BY <1>2, <2>1, DropPreviousIsTtlStep, Zenon DEF SetLocked, SetFull
<1>3. ASSUME NEW t \in Threads, SetTtlPut(t)
      PROVE  [TtlNext]_ttlVars
  BY <1>3, Zenon DEF SetTtlPut, TtlNext, ShardInv, OpsConsistent
<1>4. ASSUME NEW t \in Threads, GetRead(t) \/ DelReadTimestamp(t)
      PROVE  [TtlNext]_ttlVars
  BY <1>4, Zenon DEF GetRead, DelReadTimestamp
<1>5. ASSUME NEW t \in Threads, DelTtlRemove(t)
      PROVE  [TtlNext]_ttlVars
  <2>1. op[t].key \in Keys /\ op[t].ts \in Timestamp \union {0}
    BY <1>5, Zenon DEF DelTtlRemove, ShardInv, ShardTypeOK, OpsConsistent, Op
  <2>2. QED
    BY <1>5, <2>1, RemoveIsTtlStep, Zenon DEF DelTtlRemove, ShardInv
<1>6. CASE ShardReset \/ Evictor \/ Time
  BY <1>6, Zenon DEF ShardReset, Evictor, evictDel, Time, TtlNext
<1>7. CASE UNCHANGED vars
  BY <1>7, SMTT(30) DEF vars
<1>8. QED
  BY <1>1, <1>2, <1>3, <1>4, <1>5, <1>6, <1>7 DEF Next, Continue

-----------------------------------------------------------------------------
(* The results *)

(* The empty shard satisfies the inductive invariant.                      *)
LEMMA ShardInitInv == Init => ShardInv
<1> SUFFICES ASSUME Init PROVE ShardInv
  OBVIOUS
<1>1. TtlInv
  BY TtlInitInv, SMTT(30) DEF Init
<1>2. Blank \in Entry /\ Idle \in Op /\ Idle.pc = "idle"
  BY DEF Blank, Entry, Idle, Op
<1>3. ShardTypeOK
  BY <1>1, <1>2 DEF Init, ShardTypeOK, TtlInv
<1>4. QED
  BY <1>1, <1>2, <1>3, Zenon DEF Init, ShardInv, OpsConsistent, HashmapSound, TtlCovered, Live

(* The invariant is inductive.                                             *)
LEMMA ShardInvStep == ShardInv /\ [Next]_vars => ShardInv'
<1> SUFFICES ASSUME ShardInv, [Next]_vars PROVE ShardInv'
  OBVIOUS
<1>1. TtlInv'
  BY ShardStepIsTtlStep, TtlStep DEF ShardInv
<1>2. QED
  BY <1>1, ShardTypeStep, OpsStep, HashmapStep, CoveredStep, Zenon DEF ShardInv

(* The shard's inductive invariant holds in every state.                   *)
THEOREM ShardInvariant == Spec => []ShardInv
BY ShardInitInv, ShardInvStep, PTL DEF Spec

(* No operation of shard.go reaches a state in which the hash map points   *)
(* at a free slot or at the entry of another hash, for any number of       *)
(* goroutines and any hash function.                                       *)
THEOREM HashmapAlwaysSound == Spec => []HashmapSound
<1>1. ShardInv => HashmapSound
  BY DEF ShardInv
<1>2. QED
  BY <1>1, ShardInvariant, PTL

(* No interleaving of set, get, evictDel, reset and the eviction goroutine *)
(* loses the expiry of a live entry whose key del was never called for.    *)
THEOREM TtlAlwaysCovered == Spec => []TtlCovered
<1>1. ShardInv => TtlCovered
  BY DEF ShardInv
<1>2. QED
  BY <1>1, ShardInvariant, PTL

(* The shard drives its expiry manager only by the steps TtlManager        *)
(* specifies, so what is proved of the manager holds in the shard.         *)
THEOREM ShardImplementsTtl == Spec => TtlSpec
<1>1. Init => TtlInit
  BY DEF Init
<1>2. ShardInv /\ [Next]_vars => [TtlNext]_ttlVars
  BY ShardStepIsTtlStep
<1>3. QED
  BY <1>1, <1>2, ShardInvariant, PTL DEF Spec, TtlSpec

-----------------------------------------------------------------------------
(* The shard is a map *)

\* The eviction goroutine evicts nothing but what has a time to live.
EvictsTimed == evictor.pc = "evict" => evictor.ts # 0

(* No step of the expiry manager makes it otherwise: what PopHead takes    *)
(* from the tree is a timestamp, and none of those is 0.                   *)
LEMMA EvictsTimedStep ==
  ASSUME TtlTypeOK, EvictsTimed, [TtlNext]_ttlVars
  PROVE  EvictsTimed'
<1>1. ASSUME NEW ts \in Timestamp, PopHead(ts)
      PROVE  EvictsTimed'
  <2>1. evictor'.ts = ts
    BY <1>1, Zenon DEF PopHead
  <2>2. ts # 0
    BY DEF Timestamp
  <2>3. QED
    BY <2>1, <2>2, Zenon DEF EvictsTimed
<1>2. CASE evictor' = Waiting
  BY <1>2 DEF EvictsTimed, Waiting
<1>3. CASE UNCHANGED evictor
  BY <1>3, Zenon DEF EvictsTimed
<1>4. CASE EvictionReceive \/ EvictionEvicted
  <2>1. evictor'.pc \in {"fired", "next"}
    BY <1>4 DEF EvictionReceive, EvictionEvicted, TtlTypeOK, EvictorState
  <2>2. QED
    BY <2>1 DEF EvictsTimed
<1>5. CASE EvictionFirst \/ EvictionNext
  BY <1>1, <1>2, <1>5, Zenon DEF EvictionFirst, EvictionNext, EvictionBackToWait
<1>6. CASE \/ \E ts \in Timestamp, key \in Keys : put(ts, key) \/ remove(ts, key)
           \/ reset \/ Fire \/ Tick \/ UNCHANGED ttlVars
  BY <1>3, <1>6, Zenon DEF put, remove, reset, Fire, Tick, ttlVars
<1>7. QED
  BY <1>4, <1>5, <1>6, Zenon DEF TtlNext

MapInv == ShardInv /\ EvictsTimed

(* The shard's invariant, and that evictDel is never called for timestamp  *)
(* 0, the timestamp of the entries without expiry, hold throughout.        *)
LEMMA EvictsOnlyTimed == Spec => []MapInv
<1>1. Init => MapInv
  <2>1. Waiting.pc # "evict"
    BY DEF Waiting
  <2>2. QED
    BY <2>1, ShardInitInv, Zenon DEF MapInv, Init, TtlInit, EvictsTimed
<1>2. MapInv /\ [Next]_vars => MapInv'
  BY ShardInvStep, ShardStepIsTtlStep, EvictsTimedStep, Zenon DEF MapInv, ShardInv, TtlInv
<1>3. QED
  BY <1>1, <1>2, PTL DEF Spec

(* What a hash map and the entries it points at hold.                      *)
LEMMA ContentsAre ==
  /\ Contents = [g \in Hashes |-> IF hashmap[g] # 0 THEN mem[hashmap[g]] ELSE Blank]
  /\ Contents' = [g \in Hashes |-> IF hashmap'[g] # 0 THEN mem'[hashmap'[g]] ELSE Blank]
BY Zenon DEF Contents, Live, EntryAt

(* Nothing else matters to it.                                             *)
LEMMA SameContents ==
  ASSUME UNCHANGED <<hashmap, mem>>
  PROVE  Contents' = Contents
BY Zenon DEF Contents, Live, EntryAt

(* The eviction goroutine alone takes keys from the tree and evicts them.  *)
LEMMA SameDue ==
  ASSUME UNCHANGED evictor
  PROVE  Due' = Due
BY Zenon DEF Due

(* In a healthy shard no two hashes share a slot, and what is there is not *)
(* the blank entry.                                                        *)
LEMMA OwnSlots ==
  ASSUME ShardInv, Healthy
  PROVE  /\ \A g \in Hashes : hashmap[g] # 0 =>
                /\ hashmap[g] \in Slots
                /\ hashmap[g] \notin freelist \union fresh
                /\ Contents[g] = mem[hashmap[g]] /\ Contents[g] # Blank
         /\ \A g, h \in Hashes : hashmap[g] # 0 /\ hashmap[g] = hashmap[h] => g = h
<1>1. \A g \in Hashes : hashmap[g] # 0 =>
          /\ mem[hashmap[g]].key \in Keys /\ Hash[mem[hashmap[g]].key] = g
          /\ hashmap[g] \notin freelist \union fresh
  BY Zenon DEF ShardInv, HashmapSound, Live, EntryAt
<1>2. \A g \in Hashes : hashmap[g] # 0 => hashmap[g] \in Slots
  BY SMTT(30) DEF ShardInv, ShardTypeOK
<1>3. Blank.key \notin Keys
  BY ShardAssumption, Zenon DEF Blank
<1>4. \A g \in Hashes : hashmap[g] # 0 => Contents[g] = mem[hashmap[g]]
  BY ContentsAre, Zenon
<1>5. ASSUME NEW g \in Hashes, NEW h \in Hashes, hashmap[g] # 0, hashmap[g] = hashmap[h]
      PROVE  g = h
  <2>1. Hash[mem[hashmap[g]].key] = g /\ Hash[mem[hashmap[h]].key] = h
    BY <1>1, <1>5, Zenon
  <2>2. QED
    BY <1>5, <2>1, Zenon
<1>6. \A g \in Hashes : hashmap[g] # 0 => Contents[g] # Blank
  <2>1. SUFFICES ASSUME NEW g \in Hashes, hashmap[g] # 0, Contents[g] = Blank PROVE FALSE
    BY Zenon
  <2>2. Contents[g].key \in Keys
    BY <1>1, <1>4, <2>1, Zenon
  <2>3. QED
    BY <1>3, <2>1, <2>2, Zenon
<1>7. QED
  BY <1>1, <1>2, <1>4, <1>5, <1>6, Zenon

(* A set writes the entry of its own hash, and no other hash points at the *)
(* slot it takes: freed, fresh, or its own hash's old one.                 *)
LEMMA SetIsMapStep ==
  ASSUME ShardInv, Healthy, NEW t \in Threads, SetLocked(t)
  PROVE  Map!Set
<1> DEFINE h == Hash[op[t].key]
           e == [ts |-> op[t].ts, key |-> op[t].key, val |-> op[t].val]
<1>1. op[t].key \in Keys /\ h \in Hashes
  BY HashOfKey, Zenon DEF SetLocked, ShardInv, OpsConsistent
<1>2. PICK slot \in FreeAfterDrop(h) \union fresh :
        mem' = [mem EXCEPT ![slot] = e] /\ hashmap' = [hashmap EXCEPT ![h] = slot]
  BY Zenon DEF SetLocked
<1>3. /\ hashmap \in [Hashes -> Slots \union {0}] /\ mem \in [Slots -> Entry]
      /\ freelist \subseteq Slots /\ fresh \subseteq Slots
  BY Zenon DEF ShardInv, ShardTypeOK
<1>4. slot \in Slots /\ slot # 0
  <2>1. slot \in Slots
    BY <1>1, <1>2, <1>3, SMTT(30) DEF FreeAfterDrop
  <2>2. QED
    BY <2>1, ShardAssumption
<1>5. e.key = op[t].key
  OBVIOUS
<1> HIDE DEF e, h
<1>6. \A g \in Hashes : g # h /\ hashmap[g] # 0 => hashmap[g] # slot
  <2>1. slot \in freelist \/ slot = hashmap[h] \/ slot \in fresh
    BY <1>2, Zenon DEF FreeAfterDrop
  <2>2. QED
    BY <1>1, <2>1, OwnSlots, Zenon
<1>7. mem'[slot] = e /\ \A s \in Slots : s # slot => mem'[s] = mem[s]
  BY <1>2, <1>3, <1>4, Zenon
<1>8. hashmap'[h] = slot /\ \A g \in Hashes : g # h => hashmap'[g] = hashmap[g]
  BY <1>1, <1>2, <1>3, Zenon
<1>9. Contents'[h] = e
  BY <1>1, <1>4, <1>7, <1>8, ContentsAre, Zenon
<1>10. \A g \in Hashes : g # h => Contents'[g] = Contents[g]
  <2>1. SUFFICES ASSUME NEW g \in Hashes, g # h PROVE Contents'[g] = Contents[g]
    OBVIOUS
  <2>2. hashmap'[g] = hashmap[g]
    BY <1>8, <2>1, Zenon
  <2>3. hashmap[g] # 0 => mem'[hashmap[g]] = mem[hashmap[g]]
    BY <1>6, <1>7, <2>1, OwnSlots, Zenon
  <2>4. QED
    BY <2>2, <2>3, ContentsAre, Zenon
<1>11. Contents' = [Contents EXCEPT ![h] = Contents'[h]]
  BY <1>10, ContentsAre, SMTT(30)
<1>12. Contents'[h].key \in Keys /\ Hash[Contents'[h].key] = h
  BY <1>1, <1>5, <1>9, Zenon DEF h
<1>13. ops' = ops /\ Due' = Due
  <2>1. ops' = ops /\ DropPrevious(Hash[op[t].key], op[t].key)
    BY Zenon DEF SetLocked
  <2>2. evictor' = evictor
    BY <2>1, Zenon DEF DropPrevious, remove, ttlVars
  <2>3. QED
    BY <2>1, <2>2, SameDue, Zenon
<1>14. QED
  BY <1>1, <1>11, <1>12, <1>13, Zenon DEF Map!Set, Map!Hashes, Hashes

(* A del removes the entry of its hash, or finds none.                     *)
LEMMA DelIsMapStep ==
  ASSUME ShardInv, Healthy, NEW t \in Threads, NEW key \in Keys, DelLocked(t, key)
  PROVE  Map!Call \/ Map!Delete
<1> DEFINE h == Hash[key]
<1>1. h \in Hashes /\ ops' = ops + 1 /\ mem' = mem /\ Due' = Due
  <2>1. ops' = ops + 1 /\ mem' = mem /\ evictor' = evictor
    BY Zenon DEF DelLocked, ttlVars
  <2>2. QED
    BY <2>1, HashOfKey, SameDue, Zenon
<1>2. CASE hashmap[h] = 0
  <2>1. hashmap' = hashmap
    BY <1>2, Zenon DEF DelLocked
  <2>2. QED
    BY <1>1, <2>1, SameContents, Zenon DEF Map!Call
<1>3. CASE hashmap[h] # 0
  <2>1. hashmap' = [hashmap EXCEPT ![h] = 0]
    BY <1>3, Zenon DEF DelLocked
  <2>2. hashmap \in [Hashes -> Slots \union {0}]
    BY Zenon DEF ShardInv, ShardTypeOK
  <2> HIDE DEF h
  <2>3. hashmap'[h] = 0 /\ \A g \in Hashes : g # h => hashmap'[g] = hashmap[g]
    BY <1>1, <2>1, <2>2, Zenon
  <2>4. Contents' = [Contents EXCEPT ![h] = Blank]
    BY <1>1, <2>3, ContentsAre, SMTT(30)
  <2>5. Contents[h] # Blank
    BY <1>1, <1>3, OwnSlots, Zenon
  <2>6. QED
    BY <1>1, <2>4, <2>5, Zenon DEF Map!Delete, Map!Hashes, Hashes
<1>4. QED
  BY <1>2, <1>3, Zenon

(* Of the keys it is given, evictDel removes the entries that have the     *)
(* timestamp they were taken from the tree with.                           *)
LEMMA EvictIsMapStep ==
  ASSUME MapInv, evictDel
  PROVE  Map!Evict
<1> DEFINE named == {Hash[k] : k \in evictor.keys}
<1>1. /\ hashmap' = [h \in Hashes |-> IF h \in Expired THEN 0 ELSE hashmap[h]]
      /\ mem' = mem /\ ops' = ops
      /\ evictor.pc = "evict" /\ evictor.ts # 0
  BY Zenon DEF evictDel, EvictionEvicted, MapInv, EvictsTimed
<1>2. Expired = {h \in named : hashmap[h] # 0 /\ mem[hashmap[h]].ts = evictor.ts}
  BY Zenon DEF Expired
<1>3. Due = [ts |-> evictor.ts, keys |-> evictor.keys]
  BY <1>1, Zenon DEF Due
<1>4. Due.ts = evictor.ts /\ Due.keys = evictor.keys
  BY <1>3
<1>5. Due # Map!NothingDue
  BY <1>1, <1>4 DEF Map!NothingDue
<1>6. Due' = Map!NothingDue
  <2>1. evictor'.pc = "next"
    BY DEF evictDel, EvictionEvicted, MapInv, ShardInv, ShardTypeOK, TtlTypeOK, EvictorState
  <2>2. evictor'.pc # "evict"
    BY <2>1
  <2>3. QED
    BY <2>2, Zenon DEF Due, Map!NothingDue
<1> HIDE DEF named
<1>7. Contents' = [h \in Hashes |-> IF h \in Expired THEN Blank ELSE Contents[h]]
  BY <1>1, ContentsAre, SMTT(30)
<1>8. ASSUME NEW h \in Hashes
      PROVE  (IF h \in Expired THEN Blank ELSE Contents[h])
               = IF h \in named /\ Contents[h].ts = evictor.ts THEN Blank ELSE Contents[h]
  <2>1. CASE hashmap[h] = 0
    BY <2>1, <1>2, ContentsAre, Zenon
  <2>2. CASE hashmap[h] # 0
    <3>1. Contents[h] = mem[hashmap[h]]
      BY <1>8, <2>2, ContentsAre, Zenon
    <3>2. h \in Expired <=> h \in named /\ Contents[h].ts = evictor.ts
      BY <1>2, <2>2, <3>1, Zenon
    <3>3. QED
      BY <3>2, Zenon
  <2>3. QED
    BY <2>1, <2>2, Zenon
<1>9. Contents' = [h \in Hashes |-> IF h \in named /\ Contents[h].ts = evictor.ts
                                      THEN Blank ELSE Contents[h]]
  BY <1>7, <1>8, SMTT(30)
<1>10. QED
  BY <1>1, <1>4, <1>5, <1>6, <1>9, Zenon DEF Map!Evict, Map!Hashes, Hashes, named

(* Otherwise the eviction goroutine leaves the map alone; a timestamp and  *)
(* keys are taken from the tree only when the last ones have been evicted. *)
LEMMA EvictorIsMapStep ==
  ASSUME EvictionReceive \/ EvictionFirst \/ EvictionNext, TtlTypeOK
  PROVE  \/ Due' = Due
         \/ Due = Map!NothingDue /\ Due'.ts # 0 /\ Due'.keys \subseteq Keys
<1>1. Due = Map!NothingDue
  <2>1. evictor.pc \in {"wait", "fired", "next"}
    BY Zenon DEF EvictionReceive, EvictionFirst, EvictionNext
  <2>2. evictor.pc # "evict"
    BY <2>1
  <2>3. QED
    BY <2>2, Zenon DEF Due, Map!NothingDue
<1>2. ASSUME evictor'.pc # "evict"
      PROVE  Due' = Due
  BY <1>1, <1>2, Zenon DEF Due, Map!NothingDue
<1>3. CASE EvictionReceive
  <2>1. evictor'.pc = "fired"
    BY <1>3 DEF EvictionReceive, TtlTypeOK, EvictorState
  <2>2. QED
    BY <1>2, <2>1
<1>4. CASE evictor' = Waiting
  BY <1>2, <1>4 DEF Waiting
<1>5. ASSUME NEW ts \in Timestamp, PopHead(ts)
      PROVE  Due'.ts # 0 /\ Due'.keys \subseteq Keys
  <2>1. evictor'.pc = "evict" /\ evictor'.ts = ts /\ evictor'.keys = SetAt(timeTree, ts)
    BY <1>5 DEF PopHead
  <2>2. Due' = [ts |-> ts, keys |-> SetAt(timeTree, ts)]
    BY <2>1, Zenon DEF Due
  <2>3. ts # 0
    BY DEF Timestamp
  <2>4. QED
    BY <2>2, <2>3 DEF SetAt
<1>6. QED
  BY <1>1, <1>3, <1>4, <1>5, Zenon DEF EvictionFirst, EvictionNext, EvictionBackToWait

(* Every step of the shard is a step of the map or leaves it as it is.     *)
LEMMA ShardStepIsMapStep ==
  ASSUME MapInv, [Next]_vars
  PROVE  [Map!Next]_<<Contents, Due, ops, Healthy>>
<1> DEFINE Goal == [Map!Next]_<<Contents, Due, ops, Healthy>>
<1>0. ShardInv
  BY Zenon DEF MapInv
<1>1. CASE ~Healthy'
  BY <1>1, Zenon DEF Map!Next
<1>2. ASSUME Healthy', UNCHANGED <<shardLock, staleFree>>
      PROVE  Healthy /\ (Healthy' <=> Healthy)
  BY <1>2, Zenon DEF Healthy
<1>3. ASSUME Healthy', UNCHANGED <<hashmap, mem, ops, shardLock, staleFree>>, Due' = Due
      PROVE  Goal
  <2>1. Healthy' = Healthy
    BY <1>3 DEF Healthy
  <2>2. QED
    BY <1>3, <2>1, SameContents, Zenon
<1>4. ASSUME Healthy', NEW t \in Threads, SetLocked(t)
      PROVE  Goal
  BY <1>0, <1>2, <1>4, SetIsMapStep, Zenon DEF SetLocked, Map!Next
<1>5. ASSUME NEW t \in Threads, SetFull(t)
      PROVE  Goal
  BY <1>1, <1>5 DEF SetFull, Healthy
<1>6. ASSUME Healthy', NEW t \in Threads, NEW key \in Keys, DelLocked(t, key)
      PROVE  Goal
  BY <1>0, <1>2, <1>6, DelIsMapStep, Zenon DEF DelLocked, Map!Next
<1>7. ASSUME Healthy', NEW t \in Threads, NEW key \in Keys,
             GetLocked(t, key) \/ \E val \in Values, d \in Durations : SetStart(t, key, val, d)
      PROVE  Goal
  <2>1. ops' = ops + 1 /\ UNCHANGED <<hashmap, mem, shardLock, staleFree, evictor>>
    BY <1>7, Zenon DEF GetLocked, SetStart, queueVars, ttlVars
  <2>2. QED
    BY <1>2, <1>7, <2>1, SameContents, SameDue, Zenon DEF Map!Next, Map!Call
<1>8. ASSUME Healthy', NEW t \in Threads,
             SetTtlPut(t) \/ GetRead(t) \/ DelReadTimestamp(t) \/ DelTtlRemove(t)
      PROVE  Goal
  <2>1. UNCHANGED <<hashmap, mem, ops, shardLock, staleFree, evictor>>
    BY <1>8, Zenon DEF SetTtlPut, GetRead, DelReadTimestamp, DelTtlRemove, queueVars,
                       put, remove, ttlVars
  <2>2. QED
    BY <1>3, <1>8, <2>1, SameDue, Zenon
<1>9. ASSUME Healthy', ShardReset
      PROVE  Goal
  <2>1. Healthy
    BY <1>9 DEF ShardReset, Healthy
  <2>2. Contents' = [h \in Hashes |-> Blank]
    <3>1. \A h \in Hashes : hashmap'[h] = 0
      BY <1>9, Zenon DEF ShardReset
    <3>2. QED
      BY <3>1, ContentsAre, SMTT(30)
  <2>3. ops' = ops + 1 /\ evictor' = evictor
    BY <1>9, Zenon DEF ShardReset, reset
  <2>4. QED
    BY <2>1, <2>2, <2>3, SameDue, Zenon DEF Map!Next, Map!Reset, Map!Empty, Map!Hashes, Hashes
<1>10. ASSUME Healthy', evictDel
       PROVE  Goal
  BY <1>2, <1>10, EvictIsMapStep, Zenon DEF evictDel, Map!Next
<1>11. ASSUME Healthy', EvictionReceive \/ EvictionFirst \/ EvictionNext, UNCHANGED shardVars
       PROVE  Goal
  <2>1. UNCHANGED <<hashmap, mem, ops, shardLock, staleFree>>
    BY <1>11, Zenon DEF shardVars
  <2>2. CASE Due' = Due
    BY <1>3, <1>11, <2>1, <2>2, Zenon
  <2>3. CASE Due = Map!NothingDue /\ Due'.ts # 0 /\ Due'.keys \subseteq Keys
    <3>1. Map!HandOver
      BY <2>1, <2>3, SameContents, Zenon DEF Map!HandOver
    <3>2. QED
      BY <1>2, <1>11, <2>1, <3>1, Zenon DEF Map!Next
  <2>4. TtlTypeOK
    BY <1>0, Zenon DEF ShardInv, ShardTypeOK
  <2>5. QED
    BY <1>11, <2>2, <2>3, <2>4, EvictorIsMapStep, Zenon
<1>12. ASSUME Healthy', Fire \/ Tick \/ UNCHANGED ttlVars, UNCHANGED shardVars
       PROVE  Goal
  <2>1. UNCHANGED <<hashmap, mem, ops, shardLock, staleFree, evictor>>
    BY <1>12, Zenon DEF shardVars, Fire, Tick, ttlVars
  <2>2. QED
    BY <1>3, <1>12, <2>1, SameDue, Zenon
<1>13. QED
  BY <1>1, <1>4, <1>5, <1>6, <1>7, <1>8, <1>9, <1>10, <1>11, <1>12, Zenon
  DEF Next, Call, Continue, Evictor, Time, vars

(* The shard is a map from hashes to entries for its callers: with any     *)
(* number of goroutines and any hash function, each critical section       *)
(* changes the entry of one hash, or removes all, or of the keys taken     *)
(* from the tree those that still have the expiry they were taken with,    *)
(* until a set fails or a Reset leaves a free list behind.                 *)
THEOREM ShardIsMap == Spec => ImplementsMap
<1>1. Init => Map!Init
  <2>1. SUFFICES ASSUME Init PROVE Map!Init
    OBVIOUS
  <2>2. Contents = [h \in Hashes |-> Blank]
    BY <2>1, ContentsAre, SMTT(30) DEF Init
  <2>3. Healthy = TRUE /\ ops = 0
    BY <2>1 DEF Init, Healthy
  <2>4. Due = Map!NothingDue
    <3>1. Waiting.pc # "evict"
      BY DEF Waiting
    <3>2. QED
      BY <2>1, <3>1, Zenon DEF Init, TtlInit, Due, Map!NothingDue
  <2>5. QED
    BY <2>2, <2>3, <2>4, Zenon DEF Map!Init, Map!Empty, Map!Hashes, Hashes
<1>2. MapInv /\ [Next]_vars => [Map!Next]_<<Contents, Due, ops, Healthy>>
  BY ShardStepIsMapStep
<1>3. QED
  BY <1>1, <1>2, EvictsOnlyTimed, PTL DEF Spec, ImplementsMap, Map!Spec
=============================================================================
