--------------------------- MODULE IteratorProofs ---------------------------
(***************************************************************************)
(* Proofs about the iterator (bigcache/iterator.go, shard.copyKeys), for   *)
(* any number of shards, keys and places, and writers without end.         *)
(*                                                                         *)
(* What has been returned is told from where SetNext is (Visited): the     *)
(* keys left alone in the shards before the current one, and those under   *)
(* the indexes before the current one.  This needs that the indexes copied *)
(* are all different and include those of the keys left alone (Copied),    *)
(* that no other entry comes into the place of such a key (Placed), and    *)
(* what Value has read between its two steps (Got).  Counted is for the    *)
(* length of the slice that copyKeys takes before it locks.                *)
(***************************************************************************)
EXTENDS Iterator, FiniteSetTheorems, TLAPS

\* Value has been called for an index that SetNext set.
Reading == pc \in {"value", "data"}

\* The indexes in it are those of the current shard.
Underway == pc = "call" \/ Reading

Types ==
    /\ IteratorTypeOK
    /\ it \in [currentShard : Shards, currentIndex : Int, elements : Seq(Slots), valid : BOOLEAN]
    /\ copying \in [shard : Shards, len : Nat]

\* The entry of a key is in its place.  An entry in any other place has been
\* replaced or deleted.
Placed ==
    /\ \A k \in Keys : hashmap[k] # None => entries[getShard[k]][hashmap[k]].key = k
    /\ \A s \in Shards, i \in Slots : entries[s][i].key \in Keys \ touched =>
         /\ getShard[entries[s][i].key] = s /\ hashmap[entries[s][i].key] = i
         /\ entries[s][i].val = "old"

\* The indexes are different, there is an entry at each, and none is missing that
\* has been left alone.
Copied ==
    /\ \A i, j \in 1 .. Len(it.elements) : it.elements[i] = it.elements[j] => i = j
    /\ Len(it.elements) <= Cardinality(Keys)
    /\ Underway =>
         /\ \A i \in 1 .. Len(it.elements) : entries[it.currentShard][it.elements[i]].key \in Keys
         /\ \A k \in Keys \ touched : hashmap[k] # None /\ getShard[k] = it.currentShard =>
              \E i \in 1 .. Len(it.elements) : it.elements[i] = hashmap[k]

\* Where SetNext is.
Position ==
    /\ pc \in {"new", "copy"} => ~it.valid /\ got = NoEntry
    /\ pc = "new" => it.currentShard = 0 /\ it.currentIndex = -1
    /\ pc = "copy" /\ copying.shard = 0 => it.currentShard = 0 /\ it.currentIndex = -1
    /\ pc = "call" => it.currentIndex < Len(it.elements)
    /\ Reading => it.valid
    /\ pc \in {"done", "panic"} => ~it.valid

At(k, i) == getShard[k] = it.currentShard /\ hashmap[k] = it.elements[i]

\* What Value has read is the key left alone in this place, or some other one.
Got ==
    /\ pc = "data" => /\ got.key \in Keys
                      /\ got.key \notin touched => At(got.key, it.currentIndex + 1)
                      /\ \A k \in Keys \ touched : At(k, it.currentIndex + 1) => got.key = k
    /\ pc = "call" /\ got.key \in Keys \ touched => got.val = "old"

\* The shard that is being visited, and how many of its entries have been.
Front ==
    IF pc = "new" THEN 0 ELSE IF pc \in {"copy", "panic"} THEN copying.shard
    ELSE IF pc = "done" THEN ShardCount ELSE it.currentShard

Reached == IF pc = "call" THEN it.currentIndex + 1 ELSE IF Reading THEN it.currentIndex ELSE 0

Passed(k) ==
    \/ getShard[k] < Front
    \/ getShard[k] = Front /\ \E i \in 1 .. Reached : it.elements[i] = hashmap[k]

Visited ==
    \A k \in Keys \ touched : visits[k] = IF hashmap[k] # None /\ Passed(k) THEN 1 ELSE 0

\* What copyKeys has no place for was added since it took the length.
Counted ==
    /\ pc = "copy" => Cardinality(KeysOf(copying.shard) \ added) <= copying.len
    /\ PanicNeedsNewKey

IInv == Types /\ Placed /\ Copied /\ Position /\ Got /\ Visited /\ Counted

-----------------------------------------------------------------------------
(* States and entries *)

\* A step that changes nothing but where the iterator's client is keeps the types
\* and the places.
LEMMA SameTypes ==
    ASSUME Types, Placed, pc' \in {"new", "copy", "call", "value", "data", "done", "panic"},
           UNCHANGED <<getShard, hashmap, entries, it, copying, got, touched, added, visits>>
    PROVE  Types' /\ Placed'
  <1>1. IteratorTypeOK'
    BY DEF Types, IteratorTypeOK
  <1>2. Placed'
    BY DEF Placed
  <1> QED BY <1>1, <1>2 DEF Types

\* What the bytes at an index can be.
LEMMA EntryType ==
    ASSUME Types, NEW s \in Shards, NEW i \in Slots
    PROVE  entries[s][i] \in Entry \union {NoEntry} /\ entries[s][i].val \in {"old", "new", None}
  BY DEF Types, IteratorTypeOK, Entry, NoEntry

\* The bytes under an index copied from the map, if the key there is still the same ...
LEMMA KeyInPlace ==
    ASSUME Placed, NEW k \in Keys, hashmap[k] # None, NEW i, At(k, i)
    PROVE  entries[it.currentShard][it.elements[i]].key = k
  BY Zenon DEF Placed, At

\* ... and those of an entry left alone.
LEMMA EntryLeftAlone ==
    ASSUME Placed, NEW s \in Shards, NEW i \in Slots, entries[s][i].key \in Keys \ touched
    PROVE  /\ getShard[entries[s][i].key] = s /\ hashmap[entries[s][i].key] = i
           /\ entries[s][i].val = "old"
  BY DEF Placed

-----------------------------------------------------------------------------
(* Counting *)

LEMMA CountKeys ==
    ASSUME NEW S \in SUBSET Keys
    PROVE  /\ IsFiniteSet(S) /\ Cardinality(S) \in Nat /\ Cardinality(S) <= Cardinality(Keys)
           /\ Cardinality(Keys) \in Nat
           /\ Cardinality(S) = 0 => S = {}
           /\ \A T \in SUBSET S : Cardinality(T) <= Cardinality(S)
  <1>1. IsFiniteSet(Keys)
    BY IteratorAssumption
  <1>2. IsFiniteSet(S) /\ Cardinality(S) <= Cardinality(Keys)
    BY <1>1, FS_Subset
  <1>3. Cardinality(S) \in Nat /\ Cardinality(Keys) \in Nat
    BY <1>1, <1>2, FS_CardinalityType
  <1>4. \A T \in SUBSET S : Cardinality(T) <= Cardinality(S)
    BY <1>2, FS_Subset
  <1>5. Cardinality(S) = 0 => S = {}
    BY <1>2, FS_EmptySet
  <1> QED BY <1>2, <1>3, <1>4, <1>5

(* A shard has no more slots in use than the cache has keys.               *)
LEMMA CountSlots ==
    ASSUME NEW s
    PROVE  /\ Cardinality(SlotsOf(s)) \in Nat /\ Cardinality(SlotsOf(s)) <= Cardinality(Keys)
           /\ Cardinality(KeysOf(s)) \in Nat /\ Cardinality(KeysOf(s)) <= Cardinality(Keys)
           /\ Cardinality(KeysOf(s)) = 0 => KeysOf(s) = {}
  <1> DEFINE f == [k \in KeysOf(s) |-> hashmap[k]]
  <1>1. KeysOf(s) \in SUBSET Keys
    BY DEF KeysOf
  <1>2. f \in Surjection(KeysOf(s), SlotsOf(s))
    BY DEF Surjection, SlotsOf
  <1>3. /\ IsFiniteSet(SlotsOf(s)) /\ Cardinality(SlotsOf(s)) <= Cardinality(KeysOf(s))
    BY <1>1, <1>2, CountKeys, FS_Surjection
  <1>4. Cardinality(SlotsOf(s)) \in Nat
    BY <1>3, FS_CardinalityType
  <1> QED BY <1>1, <1>3, <1>4, CountKeys

-----------------------------------------------------------------------------
(* The writers *)

LEMMA WriteKeeps ==
    ASSUME IInv, NEW k \in Keys, touched' = touched \union {k},
           \A l \in Keys : l # k => hashmap'[l] = hashmap[l] /\ visits'[l] = visits[l],
           \A s \in Shards, i \in Slots :
               entries'[s][i].key \in Keys \/ entries'[s][i] = entries[s][i],
           UNCHANGED <<getShard, it, pc, copying, got>>
    PROVE  Copied' /\ Position' /\ Got' /\ Visited'
  <1>1. /\ it.currentShard \in Shards /\ it.elements \in Seq(Slots)
        /\ Copied /\ Position /\ Got /\ Visited
    BY DEF IInv, Types
  <1>2. \A i \in 1 .. Len(it.elements) : it.elements[i] \in Slots
    BY <1>1
  <1>3. \A l \in Keys \ touched' : l \in Keys \ touched /\ l # k /\ hashmap'[l] = hashmap[l] /\ visits'[l] = visits[l]
    OBVIOUS
  <1>4. Copied'
    BY <1>1, <1>2, <1>3 DEF Copied, Underway, Reading
  <1>5. Position'
    BY <1>1 DEF Position, Reading
  <1>6. Got'
    BY <1>1, <1>3 DEF Got, At
  <1>7. Front' = Front /\ Reached' = Reached
    BY DEF Front, Reached, Reading
  <1>8. \A l \in Keys \ touched' : Passed(l)' <=> Passed(l)
    BY <1>3, <1>7 DEF Passed
  <1>9. Visited'
    BY <1>1, <1>3, <1>8 DEF Visited
  <1> QED BY <1>4, <1>5, <1>6, <1>9

LEMMA SetKeeps == ASSUME IInv, pc \notin {"done", "panic"}, NEW k \in Keys, Set(k) PROVE IInv'
  <1> DEFINE s == getShard[k]
  <1>1. PICK i \in Places(k) :
          /\ hashmap' = [hashmap EXCEPT ![k] = i]
          /\ entries' = [entries EXCEPT ![s][i] = [key |-> k, val |-> "new"]]
          /\ touched' = touched \union {k} /\ visits' = [visits EXCEPT ![k] = 0]
          /\ added' = IF pc = "copy" /\ hashmap[k] = None THEN added \union {k} ELSE added
          /\ UNCHANGED <<getShard, it, pc, copying, got>>
    BY ZenonT(60) DEF Set, Touch
  <1>2. /\ Types /\ Placed /\ Counted /\ IteratorTypeOK
        /\ hashmap \in [Keys -> Slots \union {None}] /\ getShard \in [Keys -> Shards]
        /\ entries \in [Shards -> [Slots -> Entry \union {NoEntry}]]
        /\ visits \in [Keys -> 0 .. 2]
        /\ s \in Shards /\ i \in Slots /\ i # None
    BY IteratorAssumption DEF IInv, Types, IteratorTypeOK, Places
  <1>3. /\ entries' \in [Shards -> [Slots -> Entry \union {NoEntry}]]
        /\ entries'[s][i] = [key |-> k, val |-> "new"]
        /\ \A t \in Shards, j \in Slots : <<t, j>> # <<s, i>> => entries'[t][j] = entries[t][j]
    BY <1>1, <1>2, Zenon DEF Entry
  <1>4. /\ hashmap' \in [Keys -> Slots \union {None}] /\ hashmap'[k] = i
        /\ \A l \in Keys : l # k => hashmap'[l] = hashmap[l] /\ visits'[l] = visits[l]
        /\ visits' \in [Keys -> 0 .. 2]
    BY <1>1, <1>2
  <1> HIDE DEF s
  <1>5. Types'
    BY <1>1, <1>2, <1>3, <1>4, Zenon DEF Types, IteratorTypeOK
  <1>6. Placed'
    <2>1. ASSUME NEW l \in Keys, hashmap'[l] # None
          PROVE  entries'[getShard'[l]][hashmap'[l]].key = l
      <3>1. CASE l = k
        BY <1>1, <1>3, <1>4, <3>1 DEF s
      <3>2. CASE l # k
        <4>1. hashmap[l] # None /\ hashmap'[l] = hashmap[l] /\ hashmap[l] \in Slots /\ getShard[l] \in Shards
          BY <1>2, <1>4, <2>1, <3>2
        <4>2. ASSUME getShard[l] = s, hashmap[l] = i PROVE FALSE
          <5>1. l \in KeysOf(s) /\ i \in SlotsOf(s)
            BY <4>1, <4>2 DEF KeysOf, SlotsOf
          <5>2. hashmap[k] = i
            BY <5>1 DEF Places, s
          <5> QED BY <1>2, <3>2, <4>2, <5>2 DEF Placed, s
        <4>3. entries'[getShard[l]][hashmap[l]] = entries[getShard[l]][hashmap[l]]
          BY <1>3, <4>1, <4>2, Zenon
        <4> QED BY <1>1, <1>2, <4>1, <4>3 DEF Placed
      <3> QED BY <3>1, <3>2, Zenon
    <2>2. ASSUME NEW t \in Shards, NEW j \in Slots, entries'[t][j].key \in Keys \ touched'
          PROVE  /\ getShard'[entries'[t][j].key] = t /\ hashmap'[entries'[t][j].key] = j
                 /\ entries'[t][j].val = "old"
      <3>1. entries'[t][j].key # k
        BY <1>1, <2>2
      <3>2. entries'[t][j] = entries[t][j]
        BY <1>3, <3>1
      <3> QED BY <1>1, <1>2, <1>4, <2>2, <3>1, <3>2, SMTT(30) DEF Placed
    <2> QED BY <2>1, <2>2, Zenon DEF Placed
  <1>7. Copied' /\ Position' /\ Got' /\ Visited'
    <2>1. \A t \in Shards, j \in Slots : entries'[t][j].key \in Keys \/ entries'[t][j] = entries[t][j]
      BY <1>3
    <2> QED BY <1>1, <1>4, <2>1, WriteKeeps, Zenon
  <1>8. Counted'
    <2>1. pc' # "panic" /\ PanicNeedsNewKey'
      BY <1>1 DEF PanicNeedsNewKey
    <2>2. ASSUME pc = "copy" PROVE Cardinality((KeysOf(copying.shard) \ added)') <= copying'.len
      <3>1. (KeysOf(copying.shard) \ added)' \in SUBSET (KeysOf(copying.shard) \ added)
        BY <1>1, <1>4, <2>2, Zenon DEF KeysOf
      <3>2. /\ KeysOf(copying.shard) \ added \in SUBSET Keys
            /\ Cardinality(KeysOf(copying.shard) \ added) <= copying.len /\ copying' = copying
            /\ copying.len \in Nat
        BY <1>1, <1>2, <2>2, Zenon DEF KeysOf, Counted, Types
      <3> QED BY <3>1, <3>2, CountKeys
    <2> QED BY <1>1, <2>1, <2>2 DEF Counted
  <1> QED BY <1>5, <1>6, <1>7, <1>8 DEF IInv

LEMMA DeleteKeeps == ASSUME IInv, pc \notin {"done", "panic"}, NEW k \in Keys, Delete(k) PROVE IInv'
  <1>1. /\ hashmap' = [hashmap EXCEPT ![k] = None]
        /\ touched' = touched \union {k} /\ visits' = [visits EXCEPT ![k] = 0]
        /\ UNCHANGED <<getShard, entries, it, pc, copying, got, added>>
    BY DEF Delete, Touch
  <1>2. /\ Types /\ Placed /\ Counted /\ IteratorTypeOK
        /\ hashmap \in [Keys -> Slots \union {None}] /\ visits \in [Keys -> 0 .. 2]
    BY Zenon DEF IInv, Types, IteratorTypeOK
  <1>3. /\ hashmap' \in [Keys -> Slots \union {None}] /\ hashmap'[k] = None
        /\ \A l \in Keys : l # k => hashmap'[l] = hashmap[l] /\ visits'[l] = visits[l]
        /\ visits' \in [Keys -> 0 .. 2]
    BY <1>1, <1>2, SMTT(30)
  <1>4. Types'
    BY <1>1, <1>2, <1>3, Zenon DEF Types, IteratorTypeOK
  <1>5. Placed'
    BY <1>1, <1>2, <1>3 DEF Placed
  <1>6. Copied' /\ Position' /\ Got' /\ Visited'
    BY <1>1, <1>3, WriteKeeps, Zenon
  <1>7. Counted'
    <2>1. pc' # "panic" /\ PanicNeedsNewKey'
      BY <1>1 DEF PanicNeedsNewKey
    <2>2. ASSUME pc = "copy" PROVE Cardinality((KeysOf(copying.shard) \ added)') <= copying'.len
      <3>1. (KeysOf(copying.shard) \ added)' \in SUBSET (KeysOf(copying.shard) \ added)
        BY <1>1, <1>3 DEF KeysOf
      <3>2. /\ KeysOf(copying.shard) \ added \in SUBSET Keys
            /\ Cardinality(KeysOf(copying.shard) \ added) <= copying.len /\ copying' = copying
            /\ copying.len \in Nat
        BY <1>1, <1>2, <2>2 DEF KeysOf, Counted, Types
      <3> QED BY <3>1, <3>2, CountKeys
    <2> QED BY <1>1, <2>1, <2>2 DEF Counted
  <1> QED BY <1>4, <1>5, <1>6, <1>7 DEF IInv

-----------------------------------------------------------------------------
(* The iterator *)

\* Where the search for the next shard goes on, no key before it is left out.
LEMMA AdvanceKeeps ==
    ASSUME IInv, NEW s \in Shards, Advance(s), pc \in {"call", "copy"},
           UNCHANGED <<cacheVars, touched, visits>>,
           it' \in [currentShard : Shards, currentIndex : Int, elements : Seq(Slots), valid : BOOLEAN],
           it'.currentIndex \in -1 .. Cardinality(Keys), ~it'.valid, got' = NoEntry,
           \A i, j \in 1 .. Len(it'.elements) : it'.elements[i] = it'.elements[j] => i = j,
           Len(it'.elements) <= Cardinality(Keys),
           Front = s,
           \A k \in Keys \ touched : hashmap[k] # None /\ getShard[k] = s => Passed(k)
    PROVE  IInv'
  <1>0. /\ Types /\ IteratorTypeOK /\ Placed /\ Visited /\ Counted /\ ShardCount \in Nat \ {0}
        /\ getShard \in [Keys -> Shards] /\ Shards \subseteq Int /\ s + 1 \in Int
    BY IteratorAssumption, SMTT(30) DEF IInv, Types, IteratorTypeOK, Shards
  <1>1. /\ pc' \in {"copy", "done"} /\ copying' \in [shard : Shards, len : 0 .. Cardinality(Keys)]
        /\ added' \subseteq touched
        /\ pc' = "copy" => /\ s + 1 \in Shards /\ added' = {}
                           /\ copying' = [shard |-> s + 1, len |-> Cardinality(KeysOf(s + 1))]
        /\ pc' = "done" => s + 1 = ShardCount
    <2>1. CASE s + 1 < ShardCount
      <3>1. s + 1 \in Shards
        BY <1>0, <2>1 DEF Shards
      <3>2. pc' = "copy" /\ added' = {} /\ copying' = [shard |-> s + 1, len |-> Cardinality(KeysOf(s + 1))]
        BY <2>1, Zenon DEF Advance, NextShard, CopyLen
      <3>3. Cardinality(KeysOf(s + 1)) \in 0 .. Cardinality(Keys)
        BY CountSlots, CountKeys, SMTT(30)
      <3> QED BY <3>1, <3>2, <3>3, Zenon
    <2>2. CASE ~(s + 1 < ShardCount)
      <3>1. pc' = "done" /\ copying' = copying /\ added' = added
        BY <2>2 DEF Advance, NextShard
      <3>2. s + 1 = ShardCount
        BY <1>0, <2>2, SMTT(30) DEF Shards
      <3>3. copying \in [shard : Shards, len : 0 .. Cardinality(Keys)] /\ added \subseteq touched
        BY <1>0, Zenon DEF Types, IteratorTypeOK
      <3> QED BY <3>1, <3>2, <3>3, Zenon
    <2> QED BY <2>1, <2>2, Zenon
  <1>2. UNCHANGED <<getShard, hashmap, entries, touched, visits>>
    BY SMTT(30) DEF cacheVars
  <1>3. Types'
    <2>1. copying' \in [shard : Shards, len : Nat]
      BY <1>1, CountKeys
    <2>2. got' \in [key : Keys \union {None}, val : {"old", "new", None}]
      BY Zenon DEF NoEntry
    <2>3. pc' \in {"new", "copy", "call", "value", "data", "done", "panic"}
      BY <1>1, Zenon
    <2> QED BY <1>0, <1>1, <1>2, <2>1, <2>2, <2>3, Zenon DEF Types, IteratorTypeOK
  <1>4. Placed'
    BY <1>0, <1>2, SMTT(30) DEF Placed
  <1>5. Copied'
    BY <1>1, Zenon DEF Copied, Underway, Reading
  <1>6. Position'
    <2>1. pc' = "copy" => copying'.shard # 0
      BY <1>0, <1>1, SMTT(30) DEF Shards
    <2> QED BY <1>1, <2>1, Zenon DEF Position, Reading, NoEntry
  <1>7. Got'
    BY <1>1, Zenon DEF Got
  <1>8. Front' = s + 1 /\ Reached' = 0
    BY <1>1 DEF Front, Reached, Reading
  <1>9. \A k \in Keys \ touched : hashmap[k] # None => (Passed(k)' <=> Passed(k))
    <2> TAKE k \in Keys \ touched
    <2>1. getShard[k] \in Int /\ s \in Int
      BY <1>0, ZenonT(60)
    <2>2. Passed(k)' <=> getShard[k] < s + 1
      BY <1>2, <1>8, <2>1 DEF Passed
    <2>3. Passed(k) => getShard[k] < s + 1
      BY <2>1 DEF Passed
    <2>4. getShard[k] < s => Passed(k)
      BY DEF Passed
    <2> QED BY <2>1, <2>2, <2>3, <2>4
  <1>10. Visited'
    BY <1>0, <1>2, <1>9, Zenon DEF Visited
  <1>11. Counted'
    <2>1. ASSUME pc' = "copy" PROVE Cardinality((KeysOf(copying.shard) \ added)') <= copying'.len
      <3>1. (KeysOf(copying.shard) \ added)' = KeysOf(s + 1)
        BY <1>1, <1>2, <2>1 DEF KeysOf
      <3>2. copying'.len = Cardinality(KeysOf(s + 1)) /\ Cardinality(KeysOf(s + 1)) \in Nat
        BY <1>1, <2>1, CountSlots, SMTT(30)
      <3>3. Cardinality(KeysOf(s + 1)) <= copying'.len
        BY <3>2
      <3> QED BY <3>1, <3>3, Zenon
    <2> QED BY <1>1, <2>1, Zenon DEF Counted, PanicNeedsNewKey
  <1> QED BY <1>3, <1>4, <1>5, <1>6, <1>7, <1>10, <1>11, Zenon DEF IInv

LEMMA NewIteratorKeeps == ASSUME IInv, NewIterator PROVE IInv'
  <1>1. /\ pc = "new" /\ pc' = "copy" /\ copying' = [shard |-> 0, len |-> Cardinality(KeysOf(0))]
        /\ added' = {} /\ UNCHANGED <<getShard, hashmap, entries, it, got, touched, visits>>
    BY SMTT(30) DEF NewIterator, CopyLen, cacheVars
  <1>2. /\ Types /\ Placed /\ Copied /\ Position /\ Visited /\ IteratorTypeOK
        /\ 0 \in Shards /\ getShard \in [Keys -> Shards] /\ Shards \subseteq Nat
    BY IteratorAssumption, SMTT(30) DEF IInv, Types, IteratorTypeOK, Shards
  <1>3. Cardinality(KeysOf(0)) \in 0 .. Cardinality(Keys) /\ Cardinality(KeysOf(0)) \in Nat
    BY CountSlots, CountKeys
  <1>4. Types'
    <2>1. copying' \in [shard : Shards, len : Nat] /\ copying'.len \in 0 .. Cardinality(Keys)
      BY <1>1, <1>2, <1>3, SMTT(30)
    <2> QED BY <1>1, <1>2, <2>1, Zenon DEF Types, IteratorTypeOK
  <1>5. Placed' /\ Copied' /\ Position' /\ Got'
    BY <1>1, <1>2 DEF Placed, Copied, Underway, Reading, Position, Got
  <1>6. \A k \in Keys : ~Passed(k) /\ ~Passed(k)'
    <2>1. Front = 0 /\ Front' = 0 /\ Reached = 0 /\ Reached' = 0
      BY <1>1 DEF Front, Reached, Reading
    <2>2. \A k \in Keys : getShard[k] \in Nat /\ getShard'[k] \in Nat
      BY <1>1, <1>2, ZenonT(60)
    <2> QED BY <2>1, <2>2 DEF Passed
  <1>7. Visited'
    BY <1>1, <1>2, <1>6, Zenon DEF Visited
  <1>8. Counted'
    <2>1. (KeysOf(copying.shard) \ added)' = KeysOf(0)
      BY <1>1, Zenon DEF KeysOf
    <2> QED BY <1>1, <1>3, <2>1 DEF Counted, PanicNeedsNewKey
  <1> QED BY <1>4, <1>5, <1>7, <1>8 DEF IInv

\* The indexes of the entries of a shard, one for each.
Lists(order, s) ==
    /\ order \in Seq(Slots) /\ Len(order) = Cardinality(SlotsOf(s))
    /\ Len(order) <= Cardinality(Keys)
    /\ \A i, j \in 1 .. Len(order) : order[i] = order[j] => i = j
    /\ \A i \in 1 .. Len(order) : entries[s][order[i]].key \in Keys
    /\ \A k \in Keys : hashmap[k] # None /\ getShard[k] = s =>
         \E i \in 1 .. Len(order) : order[i] = hashmap[k]

LEMMA OrderOf ==
    ASSUME IInv, NEW s \in Shards, NEW order \in Orders(SlotsOf(s))
    PROVE  Lists(order, s)
  <1>1. /\ hashmap \in [Keys -> Slots \union {None}] /\ Placed
    BY Zenon DEF IInv, Types, IteratorTypeOK
  <1>2. SlotsOf(s) \subseteq Slots
    BY <1>1 DEF SlotsOf, KeysOf
  <1>3. Cardinality(SlotsOf(s)) \in Nat /\ Cardinality(SlotsOf(s)) <= Cardinality(Keys)
    BY CountSlots
  <1>4. /\ order \in [1 .. Cardinality(SlotsOf(s)) -> SlotsOf(s)]
        /\ \A x \in SlotsOf(s) : \E i \in 1 .. Cardinality(SlotsOf(s)) :
             \A j \in 1 .. Cardinality(SlotsOf(s)) : order[j] = x <=> j = i
    <2>1. /\ order \in [1 .. Cardinality(SlotsOf(s)) -> SlotsOf(s)]
          /\ \A x \in SlotsOf(s) : \E i \in DOMAIN order : \A j \in DOMAIN order : order[j] = x <=> j = i
      BY Zenon DEF Orders
    <2>2. DOMAIN order = 1 .. Cardinality(SlotsOf(s))
      BY <2>1, Zenon
    <2> QED BY <2>1, <2>2
  <1>5. order \in Seq(Slots) /\ Len(order) = Cardinality(SlotsOf(s))
    BY <1>2, <1>3, <1>4
  <1>6. \A i, j \in 1 .. Len(order) : order[i] = order[j] => i = j
    <2> TAKE i, j \in 1 .. Len(order)
    <2>1. order[i] \in SlotsOf(s)
      BY <1>4, <1>5
    <2> QED BY <1>4, <1>5, <2>1
  <1>7. \A i \in 1 .. Len(order) : entries[s][order[i]].key \in Keys
    <2> TAKE i \in 1 .. Len(order)
    <2>1. PICK k \in KeysOf(s) : order[i] = hashmap[k]
      BY <1>4, <1>5, SMTT(30) DEF SlotsOf
    <2> QED BY <1>1, <2>1 DEF KeysOf, Placed
  <1>8. \A k \in Keys : hashmap[k] # None /\ getShard[k] = s =>
          \E i \in 1 .. Len(order) : order[i] = hashmap[k]
    BY <1>4, <1>5, ZenonT(60) DEF SlotsOf, KeysOf
  <1>9. Len(order) <= Cardinality(Keys)
    BY <1>3, <1>5, Zenon
  <1> QED BY <1>5, <1>6, <1>7, <1>8, <1>9, Zenon DEF Lists

\* The indexes of a shard have been copied and none of its entries is visited yet.
LEMMA EnterKeeps ==
    ASSUME IInv, pc = "copy", NEW order \in Orders(SlotsOf(copying.shard)),
           it' \in [currentShard : Shards, currentIndex : Int, elements : Seq(Slots), valid : BOOLEAN],
           it'.currentShard = copying.shard, it'.elements = order,
           \/ pc' = "call" /\ it'.currentIndex = -1 /\ ~it'.valid
           \/ pc' = "value" /\ it'.currentIndex = 0 /\ it'.valid /\ Len(order) > 0,
           copying' = [shard |-> 0, len |-> 0], added' = {},
           UNCHANGED <<cacheVars, got, touched, visits>>
    PROVE  IInv'
  <1> DEFINE s == copying.shard
  <1>0. /\ Types /\ IteratorTypeOK /\ Placed /\ Position /\ Visited /\ s \in Shards /\ 0 \in Shards
        /\ getShard \in [Keys -> Shards] /\ Shards \subseteq Nat /\ Cardinality(Keys) \in Nat
    BY IteratorAssumption, CountKeys, SMTT(30) DEF IInv, Types, IteratorTypeOK, Shards
  <1>1. /\ order \in Seq(Slots) /\ Len(order) <= Cardinality(Keys)
        /\ \A i, j \in 1 .. Len(order) : order[i] = order[j] => i = j
        /\ \A i \in 1 .. Len(order) : entries[s][order[i]].key \in Keys
        /\ \A k \in Keys : hashmap[k] # None /\ getShard[k] = s =>
             \E i \in 1 .. Len(order) : order[i] = hashmap[k]
    <2>1. Lists(order, s)
      BY <1>0, OrderOf, Zenon
    <2> QED BY <2>1, Zenon DEF Lists
  <1>l. Len(order) \in Nat
    <2>1. order \in Seq(Slots)
      BY <1>1, Zenon
    <2> QED BY <2>1
  <1>2. UNCHANGED <<getShard, hashmap, entries, got, touched, visits>>
    BY Zenon DEF cacheVars
  <1>3. Types'
    <2>1. /\ it'.currentIndex \in -1 .. Cardinality(Keys)
          /\ it'.valid => it'.currentIndex \in 0 .. Len(it'.elements) - 1
      <3>1. Cardinality(Keys) \in Nat
        BY <1>0, Zenon
      <3> QED BY <1>l, <3>1
    <2>2. /\ copying' \in [shard : Shards, len : Nat] /\ copying'.len \in 0 .. Cardinality(Keys)
          /\ added' \subseteq touched' /\ pc' \in {"new", "copy", "call", "value", "data", "done", "panic"}
      BY <1>0, SMTT(30)
    <2> QED BY <1>0, <1>2, <2>1, <2>2, Zenon DEF Types, IteratorTypeOK
  <1>4. Placed'
    BY <1>0, <1>2, SMTT(30) DEF Placed
  <1>5. Copied'
    BY <1>1, <1>2, Zenon DEF Copied
  <1>6. Position'
    BY <1>l DEF Position, Reading
  <1>7. Got'
    <2>1. got'.key = None /\ None \notin Keys
      BY <1>0, <1>2, IteratorAssumption DEF Position, NoEntry
    <2> QED BY <2>1, Zenon DEF Got
  <1>8. Front = s /\ Front' = s /\ Reached = 0 /\ Reached' = 0
    BY SMTT(30) DEF Front, Reached, Reading
  <1>9. \A k \in Keys : Passed(k)' <=> Passed(k)
    BY <1>2, <1>8, SMTT(30) DEF Passed
  <1>10. Visited'
    BY <1>0, <1>2, <1>9, Zenon DEF Visited
  <1>11. Counted'
    BY Zenon DEF Counted, PanicNeedsNewKey
  <1> QED BY <1>3, <1>4, <1>5, <1>6, <1>7, <1>10, <1>11 DEF IInv

LEMMA CopyKeysKeeps == ASSUME IInv, CopyKeys PROVE IInv'
  <1> DEFINE s == copying.shard
             n == Cardinality(KeysOf(s))
  <1>0. /\ Types /\ IteratorTypeOK /\ Placed /\ Copied /\ Position /\ Visited /\ Counted
        /\ s \in Shards /\ Shards \subseteq Nat
        /\ it \in [currentShard : Shards, currentIndex : Int, elements : Seq(Slots), valid : BOOLEAN]
        /\ n \in Nat /\ copying.len \in Nat /\ Cardinality(Keys) \in Nat
    BY IteratorAssumption, CountSlots, CountKeys, SMTT(30) DEF IInv, Types, IteratorTypeOK, Shards
  <1>1. pc = "copy" /\ UNCHANGED <<cacheVars, got, touched, visits>>
    BY DEF CopyKeys
  <1>2. CASE TooShort(copying.len, n) /\ pc' = "panic" /\ UNCHANGED <<it, copying, added>>
    <2>1. UNCHANGED <<getShard, hashmap, entries, got, touched, visits, it, copying, added>>
      BY <1>1, <1>2 DEF cacheVars
    <2>2. Types' /\ Placed' /\ Copied' /\ Position' /\ Got'
      <3>1. Types' /\ Placed'
        BY <1>0, <1>2, <2>1, SameTypes, Zenon
      <3>2. Copied'
        <4>1. ~Underway'
          BY <1>2 DEF Underway, Reading
        <4> QED BY <1>0, <2>1, <4>1, Zenon DEF Copied
      <3>3. Position'
        <4>1. ~it.valid
          BY <1>0, <1>1 DEF Position
        <4> QED BY <1>2, <2>1, <4>1 DEF Position, Reading
      <3>4. Got'
        BY <1>2 DEF Got
      <3> QED BY <3>1, <3>2, <3>3, <3>4
    <2>3. Front' = Front /\ Reached' = Reached
      BY <1>1, <1>2, <2>1, Zenon DEF Front, Reached, Reading
    <2>4. \A k \in Keys : Passed(k)' <=> Passed(k)
      BY <2>1, <2>3, Zenon DEF Passed
    <2>5. Visited'
      BY <1>0, <2>1, <2>4, Zenon DEF Visited
    <2>6. \E k \in added : getShard[k] = s
      <3>1. Cardinality(KeysOf(s) \ added) <= copying.len /\ copying.len < n
        BY <1>0, <1>1, <1>2, Zenon DEF Counted, TooShort
      <3>2. Cardinality(KeysOf(s) \ added) \in Nat
        BY CountKeys, Zenon DEF KeysOf
      <3>3. KeysOf(s) \ added # KeysOf(s)
        <4> SUFFICES ASSUME KeysOf(s) \ added = KeysOf(s) PROVE FALSE
          OBVIOUS
        <4>1. n <= copying.len
          BY <3>1, Zenon
        <4> QED BY <1>0, <3>1, <4>1
      <3> QED BY <3>3 DEF KeysOf
    <2>7. Counted'
      BY <1>2, <2>1, <2>6, Zenon DEF Counted, PanicNeedsNewKey
    <2> QED BY <2>2, <2>5, <2>7 DEF IInv
  <1>3. CASE \E order \in Orders(SlotsOf(s)) :
               \/ /\ s = 0
                  /\ it' = [it EXCEPT !.elements = order] /\ pc' = "call"
                  /\ copying' = [shard |-> 0, len |-> 0] /\ added' = {}
               \/ /\ s > 0 /\ n > 0
                  /\ it' = Entered(s, order) /\ pc' = "value"
                  /\ copying' = [shard |-> 0, len |-> 0] /\ added' = {}
               \/ /\ s > 0 /\ n = 0
                  /\ it' = [it EXCEPT !.elements = order]
                  /\ Advance(s)
    <2>1. PICK order \in Orders(SlotsOf(s)) :
               \/ /\ s = 0
                  /\ it' = [it EXCEPT !.elements = order] /\ pc' = "call"
                  /\ copying' = [shard |-> 0, len |-> 0] /\ added' = {}
               \/ /\ s > 0 /\ n > 0
                  /\ it' = Entered(s, order) /\ pc' = "value"
                  /\ copying' = [shard |-> 0, len |-> 0] /\ added' = {}
               \/ /\ s > 0 /\ n = 0
                  /\ it' = [it EXCEPT !.elements = order]
                  /\ Advance(s)
      BY <1>3, SMTT(30)
    <2>2. /\ order \in Seq(Slots) /\ Len(order) = Cardinality(SlotsOf(s))
          /\ Len(order) <= Cardinality(Keys)
          /\ \A i, j \in 1 .. Len(order) : order[i] = order[j] => i = j
          /\ \A k \in Keys : hashmap[k] # None /\ getShard[k] = s =>
               \E i \in 1 .. Len(order) : order[i] = hashmap[k]
      <3>1. Lists(order, s)
        BY <1>0, OrderOf, Zenon
      <3> QED BY <3>1, Zenon DEF Lists
    <2>3. CASE s = 0 /\ it' = [it EXCEPT !.elements = order] /\ pc' = "call"
               /\ copying' = [shard |-> 0, len |-> 0] /\ added' = {}
      <3>1. /\ it' \in [currentShard : Shards, currentIndex : Int, elements : Seq(Slots), valid : BOOLEAN]
            /\ it'.currentShard = s /\ it'.elements = order /\ it'.currentIndex = -1 /\ ~it'.valid
        BY <1>0, <1>1, <2>2, <2>3, Zenon DEF Position
      <3> QED BY <1>1, <2>3, <3>1, EnterKeeps, Zenon
    <2>4. CASE s > 0 /\ n > 0 /\ it' = Entered(s, order) /\ pc' = "value"
               /\ copying' = [shard |-> 0, len |-> 0] /\ added' = {}
      <3>1. /\ it' \in [currentShard : Shards, currentIndex : Int, elements : Seq(Slots), valid : BOOLEAN]
            /\ it'.currentShard = s /\ it'.elements = order /\ it'.currentIndex = 0 /\ it'.valid
        BY <1>0, <2>2, <2>4 DEF Entered
      <3>2. KeysOf(s) # {}
        BY <2>4, FS_EmptySet
      <3>3. Len(order) > 0
        <4>1. PICK k \in Keys : hashmap[k] # None /\ getShard[k] = s
          BY <3>2, Zenon DEF KeysOf
        <4>2. PICK i \in 1 .. Len(order) : order[i] = hashmap[k]
          BY <2>2, <4>1, Zenon
        <4> QED BY <2>2, <4>2
      <3> QED BY <1>1, <2>4, <3>1, <3>3, EnterKeeps, Zenon
    <2>5. CASE s > 0 /\ n = 0 /\ it' = [it EXCEPT !.elements = order] /\ Advance(s)
      <3>1. /\ it' \in [currentShard : Shards, currentIndex : Int, elements : Seq(Slots), valid : BOOLEAN]
            /\ it'.currentIndex = it.currentIndex /\ it'.elements = order /\ ~it'.valid
        BY <1>0, <1>1, <2>2, <2>5, Zenon DEF Position
      <3>2. KeysOf(s) = {}
        BY <2>5, CountSlots
      <3>3. \A k \in Keys : ~(hashmap[k] # None /\ getShard[k] = s)
        BY <3>2 DEF KeysOf
      <3>4. got' = NoEntry
        BY <1>0, <1>1, Zenon DEF Position, IteratorTypeOK, NoEntry
      <3>5. Front = s
        BY <1>1 DEF Front
      <3>6. it'.currentIndex \in -1 .. Cardinality(Keys)
        BY <1>0, <3>1, Zenon DEF IteratorTypeOK
      <3>7. /\ \A i, j \in 1 .. Len(it'.elements) : it'.elements[i] = it'.elements[j] => i = j
            /\ Len(it'.elements) <= Cardinality(Keys)
        BY <2>2, <3>1, Zenon
      <3>8. pc \in {"call", "copy"} /\ s \in Shards
        BY <1>0, <1>1, Zenon
      <3> QED BY <1>1, <2>5, <3>1, <3>3, <3>4, <3>5, <3>6, <3>7, <3>8, AdvanceKeeps, ZenonT(60)
    <2> QED BY <2>1, <2>3, <2>4, <2>5
  <1> QED BY <1>2, <1>3, SMTT(30) DEF CopyKeys

LEMMA SetNextKeeps == ASSUME IInv, SetNext PROVE IInv'
  <1> DEFINE i == it.currentIndex + 1
  <1>0. /\ Types /\ IteratorTypeOK /\ Placed /\ Copied /\ Position /\ Visited
        /\ it \in [currentShard : Shards, currentIndex : Int, elements : Seq(Slots), valid : BOOLEAN]
        /\ Len(it.elements) \in Nat /\ Cardinality(Keys) \in Nat /\ it.currentIndex \in -1 .. Cardinality(Keys)
    BY CountKeys DEF IInv, Types, IteratorTypeOK
  <1>1. /\ pc = "call" /\ it' = [it EXCEPT !.currentIndex = i, !.valid = InRange(i)]
        /\ IF InRange(i) THEN pc' = "value" /\ UNCHANGED <<copying, added>> ELSE Advance(it.currentShard)
        /\ got' = NoEntry /\ UNCHANGED <<cacheVars, touched, visits>>
    BY DEF SetNext
  <1>2. InRange(i) <=> Len(it.elements) > i
    BY DEF InRange
  <1>3. /\ it' \in [currentShard : Shards, currentIndex : Int, elements : Seq(Slots), valid : BOOLEAN]
        /\ it'.currentShard = it.currentShard /\ it'.elements = it.elements
        /\ it'.currentIndex = i /\ (it'.valid <=> InRange(i))
    <2>0. InRange(i) \in BOOLEAN
      BY DEF InRange
    <2>1. PICK b \in BOOLEAN : b = InRange(i)
      BY <2>0, Zenon
    <2>2. it' = [it EXCEPT !.currentIndex = i, !.valid = b] /\ i \in Int
      BY <1>0, <1>1, <2>1
    <2> QED BY <1>0, <2>1, <2>2, ZenonT(60)
  <1>4. /\ i \in 0 .. Len(it.elements) /\ Len(it.elements) <= Cardinality(Keys)
        /\ it'.currentIndex \in -1 .. Cardinality(Keys)
    BY <1>0, <1>1, <1>3 DEF Position, Copied
  <1>5. Front = it.currentShard /\ Reached = i
    BY <1>1 DEF Front, Reached
  <1>6. CASE InRange(i)
    <2>1. /\ pc' = "value" /\ UNCHANGED <<getShard, hashmap, entries, copying, touched, added, visits>>
          /\ it'.valid /\ it'.currentIndex \in 0 .. Len(it'.elements) - 1
      BY <1>0, <1>1, <1>2, <1>3, <1>4, <1>6 DEF cacheVars
    <2>2. got' \in [key : Keys \union {None}, val : {"old", "new", None}]
      BY <1>1 DEF NoEntry
    <2>3. Types'
      BY <1>0, <1>3, <1>4, <2>1, <2>2, Zenon DEF Types, IteratorTypeOK
    <2>4. Placed' /\ Copied' /\ Position' /\ Got'
      <3>1. Placed'
        BY <1>0, <2>1 DEF Placed
      <3>2. Copied'
        BY <1>0, <1>1, <1>3, <2>1 DEF Copied, Underway, Reading
      <3>3. Position'
        BY <2>1 DEF Position, Reading
      <3>4. Got'
        BY <2>1 DEF Got
      <3> QED BY <3>1, <3>2, <3>3, <3>4
    <2>5. Front' = Front /\ Reached' = Reached
      BY <1>3, <1>5, <2>1, Zenon DEF Front, Reached, Reading
    <2>6. \A k \in Keys : Passed(k)' <=> Passed(k)
      BY <1>3, <2>1, <2>5, Zenon DEF Passed
    <2>7. Visited' /\ Counted'
      BY <1>0, <2>1, <2>6, Zenon DEF Visited, Counted, PanicNeedsNewKey
    <2> QED BY <2>3, <2>4, <2>7 DEF IInv
  <1>7. CASE ~InRange(i)
    <2>1. i = Len(it.elements)
      BY <1>0, <1>2, <1>4, <1>7
    <2>2. \A k \in Keys \ touched : hashmap[k] # None /\ getShard[k] = it.currentShard => Passed(k)
      <3> SUFFICES ASSUME NEW k \in Keys \ touched, hashmap[k] # None, getShard[k] = it.currentShard
                   PROVE  Passed(k)
        OBVIOUS
      <3>1. PICK j \in 1 .. Len(it.elements) : it.elements[j] = hashmap[k]
        BY <1>0, <1>1, Zenon DEF Copied, Underway
      <3> QED BY <1>5, <2>1, <3>1, Zenon DEF Passed
    <2>3. /\ \A j, l \in 1 .. Len(it'.elements) : it'.elements[j] = it'.elements[l] => j = l
          /\ Len(it'.elements) <= Cardinality(Keys)
      BY <1>0, <1>3, Zenon DEF Copied
    <2>4. pc \in {"call", "copy"} /\ it.currentShard \in Shards /\ Advance(it.currentShard) /\ ~it'.valid
      BY <1>0, <1>1, <1>3, <1>7
    <2> QED BY <1>1, <1>3, <1>4, <1>5, <2>2, <2>3, <2>4, AdvanceKeeps, Zenon
  <1> QED BY <1>6, <1>7, SMTT(30)

LEMMA ValueKeeps == ASSUME IInv, Value PROVE IInv'
  <1>0. /\ Types /\ IteratorTypeOK /\ Placed /\ Copied /\ Position /\ Visited
        /\ it.currentShard \in Shards /\ it.elements \in Seq(Slots)
        /\ entries \in [Shards -> [Slots -> Entry \union {NoEntry}]]
        /\ got \in [key : Keys \union {None}, val : {"old", "new", None}]
    BY Zenon DEF IInv, Types, IteratorTypeOK
  <1>1. /\ pc = "value" /\ pc' = "data" /\ it.valid /\ got' = [got EXCEPT !.key = Current.key]
        /\ UNCHANGED <<getShard, hashmap, entries, it, copying, touched, added, visits>>
    BY <1>0 DEF Value, Position, Reading, cacheVars, history
  <1>2. it.currentIndex + 1 \in 1 .. Len(it.elements) /\ it.elements[it.currentIndex + 1] \in Slots
    BY <1>0, <1>1, SMTT(30) DEF IteratorTypeOK
  <1>3. Current.key \in Keys
    BY <1>0, <1>1, <1>2, Zenon DEF Current, Copied, Underway, Reading
  <1>4. got' \in [key : Keys \union {None}, val : {"old", "new", None}] /\ got'.key = Current.key
    BY <1>0, <1>1, <1>3
  <1>5. Types'
    BY <1>0, <1>1, <1>4, SMTT(30) DEF Types, IteratorTypeOK
  <1>6. Placed' /\ Copied' /\ Position'
    BY <1>0, <1>1 DEF Placed, Copied, Underway, Reading, Position
  <1>7. Got'
    <2>1. got'.key \notin touched => At(got'.key, it.currentIndex + 1)
      <3>1. Current.key \in Keys \ touched =>
              /\ getShard[Current.key] = it.currentShard
              /\ hashmap[Current.key] = it.elements[it.currentIndex + 1]
        <4>1. PICK s \in Shards, x \in Slots : s = it.currentShard /\ x = it.elements[it.currentIndex + 1]
          BY <1>0, <1>2, Zenon
        <4>2. Current = entries[s][x]
          BY <4>1, SMTT(30) DEF Current
        <4>3. entries[s][x].key \in Keys \ touched =>
                getShard[entries[s][x].key] = s /\ hashmap[entries[s][x].key] = x
          BY <1>0, EntryLeftAlone, Zenon
        <4> QED BY <4>1, <4>2, <4>3, Zenon
      <3> QED BY <1>3, <1>4, <3>1 DEF At
    <2>2. \A k \in Keys \ touched : At(k, it.currentIndex + 1) => got'.key = k
      <3> SUFFICES ASSUME NEW k \in Keys, At(k, it.currentIndex + 1) PROVE got'.key = k
        OBVIOUS
      <3>1. hashmap[k] # None
        BY <1>2, IteratorAssumption, Zenon DEF At
      <3>2. Current.key = k
        BY <1>0, <3>1, KeyInPlace, Zenon DEF Current
      <3> QED BY <1>4, <3>2, Zenon
    <2> QED BY <1>1, <1>3, <1>4, <2>1, <2>2 DEF Got, At
  <1>8. Front' = Front /\ Reached' = Reached
    BY <1>1 DEF Front, Reached, Reading
  <1>9. \A k \in Keys : Passed(k)' <=> Passed(k)
    BY <1>1, <1>8 DEF Passed
  <1>10. Visited' /\ Counted'
    BY <1>0, <1>1, <1>9 DEF Visited, Counted, PanicNeedsNewKey
  <1> QED BY <1>5, <1>6, <1>7, <1>10, SMTT(30) DEF IInv

LEMMA ReadDataKeeps == ASSUME IInv, ReadData PROVE IInv'
  <1> DEFINE n == it.currentIndex + 1
  <1>0. /\ Types /\ IteratorTypeOK /\ Placed /\ Copied /\ Position /\ Got /\ Visited
        /\ it.currentShard \in Shards /\ it.elements \in Seq(Slots) /\ it.currentIndex \in Int
        /\ entries \in [Shards -> [Slots -> Entry \union {NoEntry}]]
        /\ visits \in [Keys -> 0 .. 2]
        /\ got \in [key : Keys \union {None}, val : {"old", "new", None}]
    BY Zenon DEF IInv, Types, IteratorTypeOK
  <1>1. /\ pc = "data" /\ pc' = "call" /\ got' = [got EXCEPT !.val = Current.val]
        /\ visits' = [visits EXCEPT ![got.key] =
                        IF got.key \in touched THEN 0 ELSE IF @ < 2 THEN @ + 1 ELSE @]
        /\ UNCHANGED <<getShard, hashmap, entries, it, copying, touched, added>>
    BY DEF ReadData, cacheVars
  <1>2. /\ it.valid /\ n \in 1 .. Len(it.elements) /\ it.elements[n] \in Slots /\ Len(it.elements) \in Nat
    BY <1>0, <1>1, SMTT(30) DEF Position, Reading, IteratorTypeOK
  <1>3. Current \in Entry \union {NoEntry} /\ Current.val \in {"old", "new", None}
    BY <1>0, <1>2, EntryType, Zenon DEF Current
  <1>4. /\ got' \in [key : Keys \union {None}, val : {"old", "new", None}]
        /\ got'.key = got.key /\ got'.val = Current.val
    BY <1>0, <1>1, <1>3
  <1>5. /\ got.key \in Keys
        /\ got.key \notin touched => At(got.key, n)
        /\ \A k \in Keys \ touched : At(k, n) => got.key = k
    BY <1>0, <1>1 DEF Got
  <1>6. visits' \in [Keys -> 0 .. 2]
    BY <1>0, <1>1, <1>5
  <1>7. Types'
    BY <1>0, <1>1, <1>4, <1>6, Zenon DEF Types, IteratorTypeOK
  <1>8. Placed' /\ Copied' /\ Position'
    BY <1>0, <1>1, <1>2, SMTT(30) DEF Placed, Copied, Underway, Reading, Position
  <1>9. Got'
    <2> SUFFICES ASSUME got.key \notin touched PROVE Current.val = "old"
      BY <1>1, <1>4, SMTT(30) DEF Got
    <2>1. At(got.key, n) /\ hashmap[got.key] # None
      BY <1>2, <1>5, IteratorAssumption, Zenon DEF At
    <2>2. Current.key = got.key
      BY <1>0, <1>5, <2>1, KeyInPlace, Zenon DEF Current
    <2>3. PICK s \in Shards, x \in Slots : s = it.currentShard /\ x = it.elements[n]
      BY <1>0, <1>2, Zenon
    <2>4. Current = entries[s][x]
      BY <2>3, SMTT(30) DEF Current
    <2>5. entries[s][x].key \in Keys \ touched
      BY <1>5, <2>2, <2>4
    <2>6. entries[s][x].val = "old"
      BY <1>0, <2>5, EntryLeftAlone
    <2> QED BY <2>4, <2>6, Zenon
  <1>10. Front = it.currentShard /\ Front' = Front /\ Reached = it.currentIndex /\ Reached' = n
    BY <1>1 DEF Front, Reached, Reading
  <1>11. Visited'
    <2> SUFFICES ASSUME NEW k \in Keys \ touched
                 PROVE  visits'[k] = IF hashmap[k] # None /\ Passed(k)' THEN 1 ELSE 0
      BY <1>1 DEF Visited
    <2>1. visits[k] = IF hashmap[k] # None /\ Passed(k) THEN 1 ELSE 0
      BY <1>0, Zenon DEF Visited
    <2>2. Passed(k)' <=> Passed(k) \/ At(k, n)
      <3>1. \A j : j \in 1 .. n <=> j \in 1 .. it.currentIndex \/ j = n
        BY <1>0, <1>2
      <3> QED BY <1>1, <1>10, <3>1, SMTT(30) DEF Passed, At
    <2>3. CASE k = got.key
      <3>1. At(k, n) /\ hashmap[k] # None
        BY <1>2, <1>5, <2>3, IteratorAssumption, Zenon DEF At
      <3>2. ~Passed(k)
        <4>1. ASSUME NEW j \in 1 .. it.currentIndex, it.elements[j] = hashmap[k] PROVE FALSE
          <5>1. j \in 1 .. Len(it.elements) /\ j # n
            BY <1>0, <1>2
          <5> QED BY <1>0, <1>2, <3>1, <4>1, <5>1, SMTT(30) DEF Copied, At
        <4>2. ~(getShard[k] < Front)
          <5>1. it.currentShard \in Int
            BY <1>0, IteratorAssumption DEF Shards
          <5> QED BY <1>10, <3>1, <5>1 DEF At
        <4> QED BY <1>10, <4>1, <4>2, Zenon DEF Passed
      <3> QED BY <1>0, <1>1, <2>1, <2>2, <2>3, <3>1, <3>2, SMTT(30)
    <2>4. CASE k # got.key
      <3>1. ~At(k, n)
        BY <1>5, <2>4
      <3> QED BY <1>0, <1>1, <2>1, <2>2, <2>4, <3>1
    <2> QED BY <2>3, <2>4
  <1>12. Counted'
    BY <1>1 DEF Counted, PanicNeedsNewKey
  <1> QED BY <1>7, <1>8, <1>9, <1>11, <1>12, SMTT(30) DEF IInv

-----------------------------------------------------------------------------
(* The invariant *)

LEMMA InitInv == Init => IInv
  <1> SUFFICES ASSUME Init PROVE IInv
    BY SMTT(30)
  <1>0. /\ getShard \in [Keys -> Shards] /\ 0 \in Shards /\ Shards \subseteq Nat
        /\ hashmap \in [Keys -> Slots \union {None}] /\ Cardinality(Keys) \in Nat
    BY IteratorAssumption, CountKeys, SMTT(30) DEF Init, Shards
  <1>1. ASSUME NEW s \in Shards, NEW i \in Slots, i \in SlotsOf(s)
        PROVE  \E k \in KeysOf(s) : hashmap[k] = i /\ entries[s][i] = [key |-> k, val |-> "old"]
    <2>1. \E k \in KeysOf(s) : hashmap[k] = i
      BY <1>1, Zenon DEF SlotsOf
    <2>2. entries[s][i] = [key |-> CHOOSE k \in KeysOf(s) : hashmap[k] = i, val |-> "old"]
      BY <1>1, Zenon DEF Init
    <2> QED BY <2>1, <2>2, ZenonT(60)
  <1>2. ASSUME NEW s \in Shards, NEW i \in Slots, i \notin SlotsOf(s)
        PROVE  entries[s][i] = NoEntry
    BY <1>2, Zenon DEF Init
  <1>3. entries \in [Shards -> [Slots -> Entry \union {NoEntry}]]
    <2>1. ASSUME NEW s \in Shards, NEW i \in Slots PROVE entries[s][i] \in Entry \union {NoEntry}
      <3>1. CASE i \in SlotsOf(s)
        <4>1. PICK k \in KeysOf(s) : entries[s][i] = [key |-> k, val |-> "old"]
          BY <1>1, <3>1, ZenonT(60)
        <4> QED BY <4>1, SMTT(30) DEF Entry, KeysOf
      <3>2. CASE i \notin SlotsOf(s)
        BY <1>2, <3>2
      <3> QED BY <3>1, <3>2
    <2>2. entries = [s \in Shards |-> [i \in Slots |-> entries[s][i]]]
      BY Zenon DEF Init
    <2> QED BY <2>1, <2>2
  <1>4. Types
    BY <1>0, <1>3 DEF Init, Types, IteratorTypeOK, NoEntry
  <1>5. Placed
    <2>1. ASSUME NEW k \in Keys, hashmap[k] # None PROVE entries[getShard[k]][hashmap[k]].key = k
      <3>1. k \in KeysOf(getShard[k]) /\ hashmap[k] \in SlotsOf(getShard[k])
        BY <2>1 DEF KeysOf, SlotsOf
      <3>2. PICK l \in KeysOf(getShard[k]) :
              hashmap[l] = hashmap[k] /\ entries[getShard[k]][hashmap[k]] = [key |-> l, val |-> "old"]
        <4>1. getShard[k] \in Shards /\ hashmap[k] \in Slots
          BY <1>0, <2>1, SMTT(30)
        <4> QED BY <1>1, <3>1, <4>1, ZenonT(60)
      <3>3. l = k
        BY <2>1, <3>2, Zenon DEF Init, SamePlace, KeysOf
      <3> QED BY <3>2, <3>3, SMTT(30)
    <2>2. ASSUME NEW s \in Shards, NEW i \in Slots, entries[s][i].key \in Keys \ touched
          PROVE  /\ getShard[entries[s][i].key] = s /\ hashmap[entries[s][i].key] = i
                 /\ entries[s][i].val = "old"
      <3>1. i \in SlotsOf(s)
        BY <1>2, <2>2, IteratorAssumption DEF NoEntry
      <3>2. PICK k \in KeysOf(s) : hashmap[k] = i /\ entries[s][i] = [key |-> k, val |-> "old"]
        BY <1>1, <3>1, Zenon
      <3> QED BY <3>2 DEF KeysOf
    <2> QED BY <2>1, <2>2, Zenon DEF Placed
  <1>6. Copied /\ Position /\ Got /\ Counted
    BY <1>0, SMTT(30) DEF Init, Copied, Underway, Reading, Position, Got, Counted, PanicNeedsNewKey
  <1>7. Visited
    <2>1. Front = 0 /\ Reached = 0
      BY Zenon DEF Init, Front, Reached, Reading
    <2>2. \A k \in Keys : ~Passed(k)
      <3>1. \A k \in Keys : getShard[k] \in Nat
        BY <1>0, ZenonT(60)
      <3> QED BY <2>1, <3>1 DEF Passed
    <2> QED BY <2>2, Zenon DEF Init, Visited
  <1> QED BY <1>4, <1>5, <1>6, <1>7 DEF IInv

LEMMA NextInv == IInv /\ [Next]_vars => IInv'
  <1> SUFFICES ASSUME IInv, [Next]_vars PROVE IInv'
    OBVIOUS
  <1>1. CASE Iterate
    BY <1>1, NewIteratorKeeps, CopyKeysKeeps, SetNextKeeps, ValueKeeps, ReadDataKeeps, Zenon DEF Iterate
  <1>2. CASE Write
    BY <1>2, SetKeeps, DeleteKeeps, Zenon DEF Write
  <1>3. CASE UNCHANGED vars
    <2>1. UNCHANGED <<getShard, hashmap, entries, it, pc, copying, got, touched, added, visits>>
      BY <1>3, Zenon DEF vars, cacheVars, history
    <2>2. Types' /\ Placed'
      <3>1. Types /\ Placed /\ pc' \in {"new", "copy", "call", "value", "data", "done", "panic"}
        BY <2>1, Zenon DEF IInv, Types, IteratorTypeOK
      <3> QED BY <2>1, <3>1, SameTypes, Zenon
    <2>3. Copied' /\ Position'
      BY <2>1, Zenon DEF IInv, Copied, Underway, Reading, Position
    <2>4. Got' /\ Counted'
      BY <2>1, Zenon DEF IInv, Got, At, Counted, KeysOf, PanicNeedsNewKey
    <2>5. Visited'
      BY <2>1 DEF IInv, Visited, Passed, Front, Reached, Reading
    <2> QED BY <2>2, <2>3, <2>4, <2>5 DEF IInv
  <1> QED BY <1>1, <1>2, <1>3 DEF Next

LEMMA Invariance == Spec => []IInv
  BY InitInv, NextInv, PTL DEF Spec

(* The variables keep their types and the indexes their ranges: SetNext    *)
(* sets valid only for an index that was copied, so that Value never reads *)
(* beyond the end of elements.                                             *)
THEOREM IteratorTypes == Spec => []IteratorTypeOK
  <1>1. IInv => IteratorTypeOK
    BY DEF IInv, Types
  <1> QED BY <1>1, Invariance, PTL

(* However many shards, keys and places there are, and whatever is set and *)
(* deleted meanwhile: SetNext and Value return an entry that is left alone *)
(* exactly once.                                                           *)
THEOREM LeftAloneOnce == Spec => []UntouchedOnce
  <1>1. IInv => UntouchedOnce
    <2> SUFFICES ASSUME IInv, NEW k \in Keys \ touched
                 PROVE  visits[k] <= 1 /\ (pc = "done" => visits[k] = IF hashmap[k] # None THEN 1 ELSE 0)
      BY Zenon DEF UntouchedOnce
    <2>1. visits[k] = IF hashmap[k] # None /\ Passed(k) THEN 1 ELSE 0
      BY Zenon DEF IInv, Visited
    <2>2. pc = "done" => Passed(k)
      <3>1. getShard[k] \in Shards
        BY IteratorAssumption DEF IInv, Types, IteratorTypeOK
      <3> QED BY <3>1, IteratorAssumption DEF Passed, Front, Shards
    <2> QED BY <2>1, <2>2
  <1> QED BY <1>1, Invariance, PTL

(* Value, which reads key and data in two steps without the shard's lock,  *)
(* returns such an entry as it was set: whatever Push puts into freed      *)
(* places in between, it is not that place.                                *)
THEOREM LeftAloneIntact == Spec => []UntouchedIntact
  <1>1. IInv => UntouchedIntact
    BY DEF IInv, Got, UntouchedIntact
  <1> QED BY <1>1, Invariance, PTL

(* copyKeys overruns its slice only if a key was added to the shard        *)
(* between taking the length and taking the lock.                          *)
THEOREM OnlyNewKeysPanic == Spec => []PanicNeedsNewKey
  <1>1. IInv => PanicNeedsNewKey
    BY DEF IInv, Counted
  <1> QED BY <1>1, Invariance, PTL
=============================================================================
