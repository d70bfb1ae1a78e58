----------------------------- MODULE TtlManager -----------------------------
(***************************************************************************)
(* The expiry manager of one cache shard (bigcache/ttl.go): a tree of      *)
(* expiry timestamps, each with the set of keys that expire then, one Go   *)
(* timer that is kept armed for the smallest timestamp, and the eviction   *)
(* goroutine that waits for the timer.                                     *)
(*                                                                         *)
(* Every critical section of treeLock is one action.  None of them waits   *)
(* for anything while it holds the lock, so the interleavings of critical  *)
(* sections are the interleavings of the program.  The eviction goroutine  *)
(* owns no lock between receiving from timer.C, popping the head of the    *)
(* tree, evicting it from the shard and looking at the next head: those    *)
(* are four actions.                                                       *)
(*                                                                         *)
(* The tree is the set of its pairs <<timestamp, key>>.  A timestamp whose *)
(* hash set becomes empty leaves the tree in the same critical section     *)
(* (lines 71-79), so the pairs determine the tree.                         *)
(***************************************************************************)
EXTENDS Integers

CONSTANTS Keys,       \* the cache keys
          Start,      \* time.Now().Unix() when the manager is created
          MaxTime,    \* bound on the clock
          InitDelay,  \* the initial timer period (10 hours in the code)
          HalfWord    \* 2^63: half the range of uint64

ASSUME TimeAssumption ==
    /\ MaxTime \in Nat /\ Start \in 0 .. MaxTime /\ InitDelay \in Nat
    /\ HalfWord \in Nat /\ MaxTime < HalfWord

VARIABLES now,         \* time.Now().Unix()
          timeTree,    \* pairs <<timestamp, key>>
          timerArmed,  \* the runtime timer is running
          deadline,    \* when it fires, if it is running
          timerC,      \* number of values buffered in timer.C
          evictor      \* the eviction goroutine

ttlVars == <<now, timeTree, timerArmed, deadline, timerC, evictor>>

Timestamp == 1 .. MaxTime

EvictorState ==
    [pc : {"wait", "fired", "evict", "next"}, ts : Nat, keys : SUBSET Keys]

Waiting == [pc |-> "wait", ts |-> 0, keys |-> {}]

TtlTypeOK ==
    /\ now \in 0 .. MaxTime
    /\ timeTree \in SUBSET (Timestamp \X Keys)
    /\ timerArmed \in {0, 1}
    /\ deadline \in Int
    /\ timerC \in {0, 1}
    /\ evictor \in EvictorState

-----------------------------------------------------------------------------
(* The ordered tree *)

Found(tree, ts) == \E k \in Keys : <<ts, k>> \in tree

SetAt(tree, ts) == {k \in Keys : <<ts, k>> \in tree}

Without(tree, ts) == {p \in tree : p[1] # ts}

\* peek() returns the smallest timestamp.
IsHead(tree, ts) == Found(tree, ts) /\ \A p \in tree : ts <= p[1]

-----------------------------------------------------------------------------
(* The Go timer and the unsigned arithmetic of its interval *)

U64Sub(a, b) == IF a >= b THEN a - b ELSE a - b + 2 * HalfWord

\* Mutant: the duration keeps its unsigned value.
MutAsDuration(u) == u

\* time.Duration(interval): the same bits read as a signed number.
AsDuration(u) == IF u < HalfWord THEN u ELSE u - 2 * HalfWord

\* Mutant: a value the old timer has left stays in the channel.
MutStopAndDrain == UNCHANGED timerC

\* Stop, and drain the channel if the timer was not running any more.
StopAndDrain == timerC' = IF timerArmed = 1 THEN timerC ELSE 0

resetTimer(ts) ==
    /\ StopAndDrain
    /\ timerArmed' = 1
    /\ deadline' = now + AsDuration(U64Sub(ts, now))

stopTimer ==
    /\ StopAndDrain
    /\ timerArmed' = 0
    /\ UNCHANGED deadline

timerUnchanged == UNCHANGED <<timerArmed, deadline, timerC>>

\* The runtime fires the timer at or after its deadline.
Fire ==
    /\ timerArmed = 1
    /\ now >= deadline
    /\ timerArmed' = 0
    /\ timerC' = 1
    /\ UNCHANGED <<now, timeTree, deadline, evictor>>

Tick ==
    /\ now < MaxTime
    /\ now' = now + 1
    /\ UNCHANGED <<timeTree, timerArmed, deadline, timerC, evictor>>

-----------------------------------------------------------------------------
(* The operations the shard calls *)

\* Mutant: a timestamp that is in the tree does not get the key.
MutPut(ts, key) ==
    /\ timeTree' = IF Found(timeTree, ts) THEN timeTree ELSE timeTree \union {<<ts, key>>}
    /\ IF ~Found(timeTree, ts) /\ IsHead(timeTree', ts)
         THEN resetTimer(ts)
         ELSE timerUnchanged
    /\ UNCHANGED <<now, evictor>>

put(ts, key) ==
    /\ timeTree' = timeTree \union {<<ts, key>>}
    /\ IF ~Found(timeTree, ts) /\ IsHead(timeTree', ts)
         THEN resetTimer(ts)
         ELSE timerUnchanged
    /\ UNCHANGED <<now, evictor>>

\* Mutant: the timer is not set for the next head.
MutRemoveKeepsTimer(ts, key) ==
    /\ timeTree' = timeTree \ {<<ts, key>>}
    /\ timerUnchanged
    /\ UNCHANGED <<now, evictor>>

remove(ts, key) ==
    /\ timeTree' = timeTree \ {<<ts, key>>}
    /\ IF IsHead(timeTree, ts) /\ ~Found(timeTree', ts) /\ timeTree' # {}
         THEN \E head \in Timestamp : IsHead(timeTree', head) /\ resetTimer(head)
         ELSE timerUnchanged
    /\ UNCHANGED <<now, evictor>>

reset ==
    /\ timeTree' = {}
    /\ stopTimer
    /\ UNCHANGED <<now, evictor>>

-----------------------------------------------------------------------------
(* The eviction goroutine *)

EvictionReceive ==
    /\ evictor.pc = "wait"
    /\ timerC = 1
    /\ timerC' = 0
    /\ evictor' = [evictor EXCEPT !.pc = "fired"]
    /\ UNCHANGED <<now, timeTree, timerArmed, deadline>>

PopHead(ts) ==
    /\ evictor' = [pc |-> "evict", ts |-> ts, keys |-> SetAt(timeTree, ts)]
    /\ timeTree' = Without(timeTree, ts)
    /\ UNCHANGED now
    /\ timerUnchanged

EvictionBackToWait ==
    /\ timeTree = {}
    /\ evictor' = Waiting
    /\ UNCHANGED <<now, timeTree>>
    /\ timerUnchanged

EvictionFirst ==
    /\ evictor.pc = "fired"
    /\ \/ EvictionBackToWait
       \/ \E ts \in Timestamp : IsHead(timeTree, ts) /\ PopHead(ts)

\* evict() calls the shard's evictDel; what that does is the shard's business.
EvictionEvicted ==
    /\ evictor.pc = "evict"
    /\ evictor' = [evictor EXCEPT !.pc = "next"]
    /\ UNCHANGED <<now, timeTree>>
    /\ timerUnchanged

EvictionNext ==
    /\ evictor.pc = "next"
    /\ \/ EvictionBackToWait
       \/ \E ts \in Timestamp :
            /\ IsHead(timeTree, ts)
            /\ U64Sub(ts, now) = 0
            /\ PopHead(ts)
       \/ \E ts \in Timestamp :
            /\ IsHead(timeTree, ts)
            /\ U64Sub(ts, now) # 0
            /\ resetTimer(ts)
            /\ evictor' = Waiting
            /\ UNCHANGED <<now, timeTree>>

-----------------------------------------------------------------------------
TtlInit ==
    /\ now = Start
    /\ timeTree = {}
    /\ timerArmed = 1
    /\ deadline = Start + InitDelay
    /\ timerC = 0
    /\ evictor = Waiting

\* Any caller may put and remove any pair: the shard module narrows this.
TtlNext ==
    \/ \E ts \in Timestamp, key \in Keys : put(ts, key) \/ remove(ts, key)
    \/ reset
    \/ EvictionReceive \/ EvictionFirst \/ EvictionEvicted \/ EvictionNext
    \/ Fire \/ Tick

(* What the manager promises whatever its callers do: only these critical  *)
(* sections, each of them whole, change the tree, the timer and the        *)
(* eviction goroutine.  It is what the shard has to keep to.               *)
TtlSpec == TtlInit /\ [][TtlNext]_ttlVars

-----------------------------------------------------------------------------
(* Whenever the eviction goroutine waits on timer.C and keys are due to    *)
(* expire, the wakeup for the head of the tree is on its way and is not    *)
(* early: the timer is armed for exactly the smallest timestamp, or it has *)
(* fired, the value is still in the channel and that timestamp is reached. *)
(* put, remove, reset and the eviction loop each re-arm the one timer, and *)
(* a single missed or stale re-arm loses or advances an expiry.            *)
TimerTracksHead ==
    evictor.pc = "wait" /\ timeTree # {} =>
        \E head \in Timestamp :
            /\ IsHead(timeTree, head)
            /\ \/ timerArmed = 1 /\ deadline = head
               \/ timerC = 1 /\ head <= now

(* The strengthening that makes TimerTracksHead inductive: a running timer *)
(* has left nothing in its channel (StopAndDrain relies on it).            *)
TtlInv ==
    /\ TtlTypeOK
    /\ timerArmed = 1 => timerC = 0
    /\ TimerTracksHead
=============================================================================
