------------------------------ MODULE Iterator ------------------------------
(***************************************************************************)
(* The iterator over a BigCache while other goroutines set and delete      *)
(* (bigcache/iterator.go, bigcache/bigcache.go, shard.copyKeys).           *)
(*                                                                         *)
(* One goroutine runs "for it.SetNext() { it.Value() }".  SetNext copies   *)
(* the indexes of one shard after the other; Value reads the entry at an   *)
(* index without the lock of the shard, part of it after it has released   *)
(* the mutex of the iterator.  A shard is a hash map to slots and, in each *)
(* slot, the entry written there last: a freed slot keeps its key and its  *)
(* value until it is written again.  Writers are atomic here, CacheShard   *)
(* has their steps; their number is not bounded.                           *)
(***************************************************************************)
EXTENDS Integers, Sequences, FiniteSets

CONSTANTS Keys,
          Slots,         \* places for entries, in each shard
          ShardCount,    \* config.Shards
          Hashings,      \* the assignments of keys to shards that are explored
          None

Shards == 0 .. ShardCount - 1

ASSUME IteratorAssumption ==
    /\ ShardCount \in Nat \ {0}
    /\ Hashings \subseteq [Keys -> Shards]
    /\ IsFiniteSet(Keys) /\ None \notin Keys /\ None \notin Slots
    \* Room for all entries of a shard.
    /\ \A h \in Hashings : \A s \in Shards :
         Cardinality({k \in Keys : h[k] = s}) <= Cardinality(Slots)

VARIABLES getShard,    \* the shard of each key
          hashmap,     \* key -> its slot, or None
          entries,     \* the entry in each slot of each shard
          it,          \* the EntryInfoIterator
          pc,          \* where the iterating goroutine is
          copying,     \* copyKeys: the shard and the length of the new slice
          got,         \* Value: what has been read so far
          touched,     \* history: the keys set or deleted since the start
          added,       \* history: those added to the cache since copyKeys took the length
          visits       \* history: how often Value returned a key not touched so far

cacheVars == <<getShard, hashmap, entries>>
history == <<touched, added, visits>>
vars == <<cacheVars, it, pc, copying, got, history>>

Entry == [key : Keys, val : {"old", "new"}]
NoEntry == [key |-> None, val |-> None]

IteratorTypeOK ==
    /\ getShard \in Hashings
    /\ hashmap \in [Keys -> Slots \union {None}]
    /\ entries \in [Shards -> [Slots -> Entry \union {NoEntry}]]
    /\ it.currentShard \in Shards
    /\ it.currentIndex \in -1 .. Cardinality(Keys)
    /\ it.elements \in Seq(Slots)
    /\ it.valid => it.currentIndex \in 0 .. Len(it.elements) - 1
    /\ pc \in {"new", "copy", "call", "value", "data", "done", "panic"}
    /\ copying.shard \in Shards /\ copying.len \in 0 .. Cardinality(Keys)
    /\ got \in [key : Keys \union {None}, val : {"old", "new", None}]
    /\ touched \subseteq Keys /\ added \subseteq touched
    /\ visits \in [Keys -> 0 .. 2]

-----------------------------------------------------------------------------
(* The writers *)

KeysOf(s) == {k \in Keys : getShard[k] = s /\ hashmap[k] # None}
SlotsOf(s) == {hashmap[k] : k \in KeysOf(s)}

Touch(k) ==
    /\ touched' = touched \union {k}
    /\ visits' = [visits EXCEPT ![k] = 0]

\* Set frees the previous entry of the key and takes any place that is free.
MutPlaces(k) == Slots
Places(k) == Slots \ (SlotsOf(getShard[k]) \ {hashmap[k]})

Set(k) ==
    LET s == getShard[k] IN
    \E i \in Places(k) :
        /\ hashmap' = [hashmap EXCEPT ![k] = i]
        /\ entries' = [entries EXCEPT ![s][i] = [key |-> k, val |-> "new"]]
        /\ Touch(k)
        /\ added' = IF pc = "copy" /\ hashmap[k] = None THEN added \union {k} ELSE added
        /\ UNCHANGED <<getShard, it, pc, copying, got>>

Delete(k) ==
    /\ hashmap[k] # None
    /\ hashmap' = [hashmap EXCEPT ![k] = None]
    /\ Touch(k)
    /\ UNCHANGED <<getShard, entries, it, pc, copying, got, added>>

-----------------------------------------------------------------------------
(* copyKeys: make the slice, lock, fill it *)

CopyLen(s) ==
    /\ copying' = [shard |-> s, len |-> Cardinality(KeysOf(s))]
    /\ added' = {}
    /\ pc' = "copy"

\* The slice is one place shorter.
MutTooShort(len, n) == len <= n /\ n > 0
TooShort(len, n) == len < n

\* The search starts with the current shard, which newIterator had not left yet.
MutNextShard(s) == IF s = 0 THEN 1 ELSE s
NextShard(s) == s + 1

\* On to the next shard, if there is one.
Advance(s) ==
    IF NextShard(s) < ShardCount
      THEN CopyLen(NextShard(s))
      ELSE pc' = "done" /\ UNCHANGED <<copying, added>>

\* newIterator copies the first shard.
NewIterator ==
    /\ pc = "new"
    /\ CopyLen(0)
    /\ UNCHANGED <<cacheVars, it, got, touched, visits>>

\* SetNext stays with a shard that is not empty.  The mutant starts at its second entry.
MutEntered(s, elements) ==
    [currentShard |-> s, currentIndex |-> 1, elements |-> elements, valid |-> Len(elements) > 1]
Entered(s, elements) ==
    [currentShard |-> s, currentIndex |-> 0, elements |-> elements, valid |-> TRUE]

\* The order in which the range statement visits a map is not specified.
Orders(S) == {s \in [1 .. Cardinality(S) -> S] :
                \A x \in S : \E i \in DOMAIN s : \A j \in DOMAIN s : s[j] = x <=> j = i}

CopyKeys ==
    LET s == copying.shard
        n == Cardinality(KeysOf(s))
    IN
    /\ pc = "copy"
    /\ \/ /\ TooShort(copying.len, n)      \* index out of range
          /\ pc' = "panic"
          /\ UNCHANGED <<it, copying, added>>
       \/ /\ ~TooShort(copying.len, n)
          /\ \E elements \in Orders(SlotsOf(s)) :
               \/ /\ s = 0                 \* newIterator
                  /\ it' = [it EXCEPT !.elements = elements]
                  /\ pc' = "call"
                  /\ copying' = [shard |-> 0, len |-> 0] /\ added' = {}
               \/ /\ s > 0 /\ n > 0
                  /\ it' = Entered(s, elements)
                  /\ pc' = "value"
                  /\ copying' = [shard |-> 0, len |-> 0] /\ added' = {}
               \/ /\ s > 0 /\ n = 0
                  /\ it' = [it EXCEPT !.elements = elements]
                  /\ Advance(s)
    /\ UNCHANGED <<cacheVars, got, touched, visits>>

-----------------------------------------------------------------------------
(* The iterator *)

\* The test is off by one.
MutInRange(i) == Len(it.elements) >= i
InRange(i) == Len(it.elements) > i

SetNext ==
    LET i == it.currentIndex + 1 IN
    /\ pc = "call"
    /\ it' = [it EXCEPT !.currentIndex = i, !.valid = InRange(i)]
    /\ IF InRange(i)
         THEN pc' = "value" /\ UNCHANGED <<copying, added>>
         ELSE Advance(it.currentShard)
    /\ got' = NoEntry
    /\ UNCHANGED <<cacheVars, touched, visits>>

Current == entries[it.currentShard][it.elements[it.currentIndex + 1]]

\* Value: getEntry returns a slice of the shard's array, and its fields are read
\* from there, one by one.  It fails only for an index beyond the array or in an
\* array that is empty: that takes a Reset, which is no step of this module.
Value ==
    /\ pc = "value"
    /\ IF it.valid
         THEN pc' = "data" /\ got' = [got EXCEPT !.key = Current.key]
         ELSE pc' = "call" /\ UNCHANGED got      \* ErrInvalidIteratorState
    /\ UNCHANGED <<cacheVars, it, copying, history>>

ReadData ==
    /\ pc = "data"
    /\ got' = [got EXCEPT !.val = Current.val]
    /\ visits' = [visits EXCEPT ![got.key] = IF got.key \in touched THEN 0 ELSE IF @ < 2 THEN @ + 1 ELSE @]
    /\ pc' = "call"
    /\ UNCHANGED <<cacheVars, it, copying, touched, added>>

-----------------------------------------------------------------------------
SamePlace(k, l) == getShard[k] = getShard[l] /\ hashmap[k] = hashmap[l]

\* A cache with some entries, each in a place of its own.
Init ==
    /\ getShard \in Hashings
    /\ hashmap \in [Keys -> Slots \union {None}]
    /\ \A k, l \in Keys : hashmap[k] # None /\ SamePlace(k, l) => k = l
    /\ entries = [s \in Shards |-> [i \in Slots |->
                    IF i \in SlotsOf(s)
                      THEN [key |-> CHOOSE k \in KeysOf(s) : hashmap[k] = i, val |-> "old"]
                      ELSE NoEntry]]
    /\ it = [currentShard |-> 0, currentIndex |-> -1, elements |-> <<>>, valid |-> FALSE]
    /\ pc = "new"
    /\ copying = [shard |-> 0, len |-> 0]
    /\ got = NoEntry
    /\ touched = {} /\ added = {}
    /\ visits = [k \in Keys |-> 0]

Iterate == NewIterator \/ CopyKeys \/ SetNext \/ Value \/ ReadData

\* What the writers do after the iteration is of no interest.
Write == pc \notin {"done", "panic"} /\ \E k \in Keys : Set(k) \/ Delete(k)

Next == Iterate \/ Write

Spec == Init /\ [][Next]_vars

\* The iterating goroutine goes on; the writers may do so for ever.
FairSpec == Spec /\ WF_vars(Iterate)

-----------------------------------------------------------------------------
(* Properties *)

(* An entry that nobody sets or deletes during the iteration is returned   *)
(* exactly once, whatever happens to the others: SetNext neither skips nor *)
(* repeats a shard or an index.                                            *)
UntouchedOnce ==
    \A k \in Keys \ touched :
        /\ visits[k] <= 1
        /\ pc = "done" => visits[k] = IF hashmap[k] # None THEN 1 ELSE 0

(* Value returns such an entry as it was set, although it reads it piece   *)
(* by piece and without a lock: no other entry is ever put into its place. *)
UntouchedIntact ==
    pc = "call" /\ got.key \in Keys \ touched => got.val = "old"

(* copyKeys takes the length of the hash map before it locks.  It writes   *)
(* past its slice only if a key is added to the shard between the two:     *)
(* overwriting and deleting entries never makes an iteration panic.        *)
PanicNeedsNewKey == pc = "panic" => \E k \in added : getShard[k] = copying.shard

(* An iteration comes to an end, even while entries are set for ever.      *)
IterationEnds == <>(pc \in {"done", "panic"})
=============================================================================
