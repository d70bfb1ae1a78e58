----------------------------- MODULE ShardLocks -----------------------------
(***************************************************************************)
(* The shard of CacheShard with its two locks: the lock of the shard       *)
(* (bigcache/shard.go) and treeLock of its expiry manager                  *)
(* (bigcache/ttl.go).                                                      *)
(*                                                                         *)
(* CacheShard takes a critical section for one action, also where set and  *)
(* reset call the expiry manager with the shard's lock held.  Here they    *)
(* take the lock of the shard first and may have to wait for treeLock      *)
(* while they hold it; the eviction goroutine takes treeLock, pops the     *)
(* head, unlocks and goes on to the shard.  A section that takes one lock, *)
(* or its last one, is one step: it waits for nothing any more, so that    *)
(* nobody can tell.  What happens in a section is CacheShard's.            *)
(***************************************************************************)
EXTENDS CacheShard

VARIABLES shardOwner,  \* who holds the lock of the shard and goes on waiting
          treeOwner    \* who holds treeLock, likewise

locksVars == <<vars, shardOwner, treeOwner>>

Nobody == "nobody"

ShardFree == shardOwner = Nobody /\ shardLock = "free"
TreeFree == treeOwner = Nobody

-----------------------------------------------------------------------------
(* set *)

\* A Reset that has the lock is among the calls the bound allows.
BeginSet(t) ==
    /\ shardOwner = "reset" => ops + 1 < MaxOps
    /\ \E key \in Keys, val \in Values, d \in Durations : SetStart(t, key, val, d)
    /\ UNCHANGED <<shardOwner, treeOwner>>

\* The hash map has an entry, which set removes from the tree.
HasPrevious(t) == hashmap[Hash[op[t].key]] # 0

SetLock(t) ==
    /\ op[t].pc = "set"
    /\ HasPrevious(t)
    /\ ShardFree
    /\ shardOwner' = t
    /\ UNCHANGED <<vars, treeOwner>>

SetSection(t) ==
    /\ op[t].pc = "set"
    /\ IF HasPrevious(t) THEN shardOwner = t /\ TreeFree ELSE ShardFree
    /\ SetLocked(t) \/ SetFull(t)
    /\ shardOwner' = Nobody
    /\ treeOwner' = treeOwner

-----------------------------------------------------------------------------
(* get, del, and what set and del do once they have unlocked the shard *)

ShardSection(t) ==
    /\ ShardFree
    /\ \E key \in Keys : GetLocked(t, key) \/ DelLocked(t, key)
    /\ UNCHANGED <<shardOwner, treeOwner>>

ReadUnlocked(t) ==
    /\ GetRead(t) \/ DelReadTimestamp(t)
    /\ UNCHANGED <<shardOwner, treeOwner>>

TreeSection(t) ==
    /\ TreeFree
    /\ SetTtlPut(t) \/ DelTtlRemove(t)
    /\ UNCHANGED <<shardOwner, treeOwner>>

-----------------------------------------------------------------------------
(* reset *)

ResetLock ==
    /\ Resets
    /\ ops < MaxOps
    /\ ShardFree
    /\ shardOwner' = "reset"
    /\ UNCHANGED <<vars, treeOwner>>

ResetSection ==
    /\ shardOwner = "reset"
    /\ TreeFree
    /\ ShardReset
    /\ shardOwner' = Nobody
    /\ treeOwner' = treeOwner

-----------------------------------------------------------------------------
(* The eviction goroutine, the timer and the clock *)

Receive == EvictionReceive /\ UNCHANGED <<shardVars, shardOwner, treeOwner>>

EvictionLock ==
    /\ evictor.pc \in {"fired", "next"}
    /\ TreeFree
    /\ treeOwner' = "evictor"
    /\ UNCHANGED <<vars, shardOwner>>

EvictionPop ==
    /\ treeOwner = "evictor"
    /\ EvictionFirst \/ EvictionNext
    /\ treeOwner' = Nobody
    /\ UNCHANGED <<shardVars, shardOwner>>

\* Mutant: evict runs with the tree locked.
MutEvictSection ==
    /\ evictor.pc = "evict"
    /\ IF treeOwner # "evictor"
       THEN TreeFree /\ treeOwner' = "evictor" /\ UNCHANGED <<vars, shardOwner>>
       ELSE ShardFree /\ evictDel /\ treeOwner' = Nobody /\ shardOwner' = shardOwner

EvictSection ==
    /\ ShardFree
    /\ evictDel
    /\ UNCHANGED <<shardOwner, treeOwner>>

TimerFires == Fire /\ UNCHANGED <<shardVars, shardOwner, treeOwner>>
ClockTicks == Tick /\ UNCHANGED <<shardVars, shardOwner, treeOwner>>

-----------------------------------------------------------------------------
LocksInit == Init /\ shardOwner = Nobody /\ treeOwner = Nobody

\* A goroutine inside a call, and the eviction goroutine.
GoOn(t) == SetLock(t) \/ SetSection(t) \/ ReadUnlocked(t) \/ TreeSection(t)
Evicting == Receive \/ EvictionLock \/ EvictionPop \/ EvictSection

LocksNext ==
    \/ \E t \in Threads : BeginSet(t) \/ ShardSection(t) \/ GoOn(t)
    \/ ResetLock \/ ResetSection
    \/ Evicting
    \/ TimerFires \/ ClockTicks

\* Goroutines that have started a call go on, so do the eviction goroutine,
\* the runtime's timers and the clock; nothing makes a client call.
LocksFairness ==
    /\ \A t \in Threads : WF_locksVars(GoOn(t))
    /\ WF_locksVars(ResetSection)
    /\ WF_locksVars(Evicting)
    /\ WF_locksVars(TimerFires) /\ WF_locksVars(ClockTicks)

LocksSpec == LocksInit /\ [][LocksNext]_locksVars /\ LocksFairness

-----------------------------------------------------------------------------
(* Every call returns.  set and reset wait for the tree with the shard's   *)
(* lock held, and the eviction goroutine goes from the tree to the shard:  *)
(* they never wait for each other, since it has unlocked the tree by then. *)
(* A set whose Push fails returns without unlocking, and then whoever      *)
(* waits for the shard waits for ever; those that have passed it still     *)
(* return.                                                                 *)
EveryCallReturns ==
    \A t \in Threads :
        op[t].pc # "idle" ~> \/ op[t].pc = "idle"
                             \/ op[t].pc = "set" /\ shardLock = "leaked"
=============================================================================
