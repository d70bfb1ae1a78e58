----------------------------- MODULE EntryStore -----------------------------
(***************************************************************************)
(* What the cache shard relies on in its byte queue                        *)
(* (bigcache/queue/bytes_queue.go): a store that hands out an index for    *)
(* every entry, under which the same bytes are read until the entry is     *)
(* removed.  Where it keeps them, how it uses freed room again and when it *)
(* grows is its own business.                                              *)
(***************************************************************************)
VARIABLE store      \* the entries in use: index -> what is read there

Lost == 0           \* not an entry

Indexes == DOMAIN store

Init == store = [i \in {} |-> Lost]

\* An index that is not in use, and no entry moves or changes.
Push ==
    \E i \in DOMAIN store' \ Indexes :
        /\ store'[i] # Lost
        /\ store' = [j \in Indexes \union {i} |-> IF j = i THEN store'[i] ELSE store[j]]

\* Delete and Pop.
Remove == \E i \in Indexes : store' = [j \in Indexes \ {i} |-> store[j]]

Reset == store' = [i \in {} |-> Lost]

Next == Push \/ Remove \/ Reset

Spec == Init /\ [][Next]_store
=============================================================================
