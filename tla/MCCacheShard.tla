---------------------------- MODULE MCCacheShard ----------------------------
(* Instances of CacheShard for TLC. *)
EXTENDS CacheShard, TLC

CONSTANTS k1, k2, k3, t1, t2

\* Every key has its own hash.
MCDistinctHash == k1 :> 1 @@ k2 :> 2

\* The first two keys collide.
MCCollidingHash == k1 :> 1 @@ k2 :> 1 @@ k3 :> 2

\* No expiry, one second, and a duration that has passed already.
MCSignedDurations == {-2, 0, 2}

ThreadSymmetry == Permutations({t1, t2})

\* With MCCollidingHash the first two keys can be exchanged as well.
CollidingSymmetry == ThreadSymmetry \union Permutations({k1, k2})
=============================================================================
