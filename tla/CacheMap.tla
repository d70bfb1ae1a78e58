------------------------------ MODULE CacheMap ------------------------------
(***************************************************************************)
(* What a cache shard (bigcache/shard.go) is to its callers: a map from    *)
(* hashes to entries.  A set replaces the entry of one hash, a del removes *)
(* one, a reset removes all.  The expiry manager hands over a time and the *)
(* keys due then; of their entries those that still have that time go, and *)
(* no others.  Where the shard keeps the bytes and which goroutine is how  *)
(* far is its own business.                                                *)
(*                                                                         *)
(* The promise ends where the code gives it up: sound becomes false when a *)
(* set fails, or when a reset leaves a free list behind, and nothing is    *)
(* said of what follows.                                                   *)
(***************************************************************************)
EXTENDS Integers

CONSTANTS Keys, Hash,   \* the hash of each key
          NoEntry

VARIABLES content,      \* hash -> entry, or NoEntry
          due,          \* the time and the keys handed over for eviction
          calls,        \* calls made so far
          sound

Hashes == {Hash[k] : k \in Keys}

Empty == [h \in Hashes |-> NoEntry]
NothingDue == [ts |-> 0, keys |-> {}]

Init == content = Empty /\ due = NothingDue /\ calls = 0 /\ sound = TRUE

\* A set that has not written yet, a get, a del that finds nothing.
Call == calls' = calls + 1 /\ UNCHANGED <<content, due>>

Set ==
    \E h \in Hashes :
        /\ content'[h].key \in Keys /\ Hash[content'[h].key] = h
        /\ content' = [content EXCEPT ![h] = content'[h]]
        /\ UNCHANGED <<due, calls>>

Delete ==
    \E h \in Hashes :
        /\ content[h] # NoEntry
        /\ content' = [content EXCEPT ![h] = NoEntry]
        /\ calls' = calls + 1
        /\ due' = due

\* Entries without expiry have the timestamp 0, which is never due.
HandOver ==
    /\ due = NothingDue
    /\ due'.ts # 0 /\ due'.keys \subseteq Keys
    /\ UNCHANGED <<content, calls>>

\* What was set anew since it was handed over has another timestamp and stays.
Evict ==
    /\ due # NothingDue
    /\ content' = [h \in Hashes |->
         IF h \in {Hash[k] : k \in due.keys} /\ content[h].ts = due.ts THEN NoEntry ELSE content[h]]
    /\ due' = NothingDue
    /\ calls' = calls

Reset == content' = Empty /\ calls' = calls + 1 /\ due' = due

Next == sound' => sound /\ (Call \/ Set \/ Delete \/ HandOver \/ Evict \/ Reset)

Spec == Init /\ [][Next]_<<content, due, calls, sound>>
=============================================================================
