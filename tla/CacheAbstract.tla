--------------------------- MODULE CacheAbstract ---------------------------
(***************************************************************************)
(* What one shard promises its callers (spec 4.2 and the Shard invariants  *)
(* of spec 3), with no locks, queue slots or timers: a function from each  *)
(* hash to the one entry stored under it, or Absent.                       *)
(*                                                                         *)
(*  - Set(k, v, exp) replaces whatever the hash held (last writer for the  *)
(*    hash wins), with an expiry computed before the write took effect,    *)
(*    and uses one of the Cap slots of the queue; nothing in               *)
(*    this package reclaims a slot.  A Set on a full queue fails with      *)
(*    QueueFull and leaves the hash empty (the prior entry is removed and  *)
(*    not restored).                                                       *)
(*  - Delete(k) does the same lookup as Get: it removes the entry only if  *)
(*    the stored key is k, and otherwise reports NotFound.                 *)
(*  - Evict removes entries whose expiry second has passed; an entry with  *)
(*    expiry 0 (NO_EXPIRY) is never evicted.                               *)
(*  - Reset empties the shard.                                             *)
(***************************************************************************)
EXTENDS Naturals

CONSTANTS
    Keys,       \* keys (model values)
    KeyHash,    \* the injected hasher
    Values,     \* values stored
    Expiries,   \* expiry seconds an entry can carry; 0 is NO_EXPIRY
    MaxTime,    \* last epoch second
    Cap,        \* slots of the queue
    Absent      \* what a hash holds when nothing is stored under it

Hashes == {KeyHash[k] : k \in Keys}

VARIABLES
    now,        \* the clock, in seconds
    cache,      \* hash -> [key, val, exp] or Absent
    used        \* queue slots used so far

vars == <<now, cache, used>>

Stored == [key : Keys, val : Values, exp : Expiries]

TypeOK ==
    /\ now \in 0 .. MaxTime
    /\ cache \in [Hashes -> Stored \cup {Absent}]
    /\ used \in 0 .. Cap

\* an entry is expired once its (finite) expiry second has been reached
Expired(e) == e # Absent /\ e.exp # 0 /\ e.exp <= now

Init ==
    /\ now = 0
    /\ cache = [h \in Hashes |-> Absent]
    /\ used = 0

\* the expiry is the one the caller computed from the clock before the
\* write (spec 4.2): it may already have passed when the entry is stored
Set(k, v, exp) ==
    /\ used < Cap
    /\ cache' = [cache EXCEPT ![KeyHash[k]] = [key |-> k, val |-> v, exp |-> exp]]
    /\ used' = used + 1
    /\ UNCHANGED now

SetQueueFull(k) ==
    /\ used = Cap
    /\ cache' = [cache EXCEPT ![KeyHash[k]] = Absent]
    /\ UNCHANGED <<now, used>>

Delete(k) ==
    /\ cache[KeyHash[k]] # Absent
    /\ cache[KeyHash[k]].key = k
    /\ cache' = [cache EXCEPT ![KeyHash[k]] = Absent]
    /\ UNCHANGED <<now, used>>

\* one eviction pass removes some of the expired entries at once
Evict ==
    \E due \in SUBSET {h \in Hashes : Expired(cache[h])} :
        /\ due # {}
        /\ cache' = [h \in Hashes |-> IF h \in due THEN Absent ELSE cache[h]]
        /\ UNCHANGED <<now, used>>

Reset ==
    /\ cache' = [h \in Hashes |-> Absent]
    /\ used' = 0
    /\ UNCHANGED now

Tick ==
    /\ now < MaxTime
    /\ now' = now + 1
    /\ UNCHANGED <<cache, used>>

Next ==
    \/ \E k \in Keys, v \in Values, e \in Expiries : Set(k, v, e)
    \/ \E k \in Keys : SetQueueFull(k) \/ Delete(k)
    \/ Evict \/ Reset \/ Tick

Spec == Init /\ [][Next]_vars

=============================================================================
