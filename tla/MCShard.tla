------------------------------ MODULE MCShard ------------------------------
(* Model-checking instance of Shard: two keys that collide on one hash, so *)
(* that overwrites by a colliding key and stale cohorts both happen.       *)
EXTENDS Shard, TLC

CONSTANTS k1, k2

\* both keys hash to 7
MCKeyHash == [k \in {k1, k2} |-> 7]

\* distinct hashes, for the runs that are not about collisions
MCKeyHashDistinct == (k1 :> 1) @@ (k2 :> 2)
=============================================================================
