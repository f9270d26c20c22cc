------------------------------- MODULE Shard -------------------------------
(***************************************************************************)
(* One cacheShard (src/unnamed/part_000, package bigcache) with the two    *)
(* collaborators it owns: its BytesQueue `entries` and its ttlManager      *)
(* `ttlTable`.  Client goroutines call get, set and del; the ttlManager    *)
(* timer goroutine pops due cohorts and calls evictDel.                    *)
(*                                                                         *)
(* A critical section under s.lock is one atomic step: nothing else can    *)
(* touch the hashmap or the queue while it runs, and the ttlManager calls  *)
(* it makes are atomic under the ttlManager's own mutex.  What the code    *)
(* does AFTER releasing s.lock (set's ttlTable.put, del's ttlTable.remove, *)
(* get's readEntry) is a step of its own, so other goroutines interleave   *)
(* there.                                                                  *)
(*                                                                         *)
(* The BytesQueue is abstracted to a sequence of equally sized slots: an   *)
(* index is a slot number (0 stays the "absent" sentinel), a Delete marks  *)
(* the slot dead (tombstoned header, zeroed key length), and Push fails    *)
(* once Cap slots are used.  Nothing in this package ever pops the queue   *)
(* (cleanUp and the compactor are commented out), so slots are never      *)
(* reclaimed.                                                              *)
(***************************************************************************)
EXTENDS Integers, Sequences, FiniteSets

CONSTANTS
    Threads,    \* goroutines calling get / set / del on this shard
    Keys,       \* keys (model values)
    KeyHash,    \* the injected hasher: [Keys -> hashes], collisions allowed
    Values,     \* values stored (model values)
    TTLs,       \* durations in seconds passed to set; 0 is NO_EXPIRY
    Cap,        \* slots the BytesQueue holds before Push fails
    MaxTime,    \* last epoch second explored
    MaxOps,     \* operations each thread performs
    NoThread,   \* lock holder when s.lock is free
    NotFound,   \* result of a get that misses
    Corrupt     \* bytes returned by a torn readEntry

ASSUME /\ KeyHash \in [Keys -> Nat]
       /\ TTLs \subseteq Nat /\ 0 \in TTLs
       /\ Cap \in Nat \ {0} /\ MaxTime \in Nat /\ MaxOps \in Nat
       /\ {NoThread, NotFound, Corrupt} \cap (Threads \cup Values) = {}

\* NO_EXPIRY means data placed into a shard will never expire
NO_EXPIRY == 0

Hashes == {KeyHash[k] : k \in Keys}
MaxTTL == CHOOSE d \in TTLs : \A e \in TTLs : e <= d
Expiries == 0 .. MaxTime + MaxTTL

\* A wrapped entry: the fields of wrapEntry, plus whether the slot is live.
Entry == [hash : Hashes, key : Keys, exp : Expiries, val : Values, live : BOOLEAN]

VARIABLES
    now,         \* clock.epoch()
    entries,     \* the BytesQueue, as a sequence of slots
    hashmap,     \* hashed key -> slot index, 0 when absent
    lockHolder,  \* goroutine that holds s.lock and never released it
    ttlTable,    \* ttlManager cohorts, as a set of <<expiry, key>> pairs
    firing,      \* cohorts the timer has popped and not yet evicted
    pc,          \* where each client goroutine is
    op,          \* each client goroutine's locals: key, expiry, slot index
    ops,         \* operations each client goroutine has started
    ret,         \* the key and result of each goroutine's last get
    stored       \* history: values a successful set stored under each key

vars == <<now, entries, hashmap, lockHolder, ttlTable, firing, pc, op, ops, ret, stored>>

Locals == [key : Keys, val : Values, exp : Expiries, idx : 0 .. Cap]

TypeOK ==
    /\ now \in 0 .. MaxTime
    /\ entries \in Seq(Entry) /\ Len(entries) <= Cap
    /\ hashmap \in [Hashes -> 0 .. Len(entries)]
    /\ lockHolder \in Threads \cup {NoThread}
    /\ ttlTable \subseteq Expiries \X Keys
    /\ firing \subseteq Expiries \X Keys
    /\ pc \in [Threads -> {"idle", "set_lock", "set_ttl", "del_ttl", "get_read", "copy_keys", "copy_panic"}]
    /\ op \in [Threads -> Locals]
    /\ ops \in [Threads -> 0 .. MaxOps]
    /\ ret \in [Threads -> [key : Keys, val : Values \cup {NotFound, Corrupt}]]
    /\ stored \in [Keys -> SUBSET Values]

-----------------------------------------------------------------------------
(* BytesQueue and entry encoding helpers                                   *)

\* entries.Get(index) succeeds: the index is in range and its header is not
\* the tombstone
QueueGetOk(i) == i \in 1 .. Len(entries) /\ entries[i].live

\* Mutant: the slot is left as it was (s.delete not called)
InvalidateDropped(q, i) == q

\* resetKeyFromEntry(wrappedEntry) followed by s.delete(index)
Invalidate(q, i) == [q EXCEPT ![i].live = FALSE]

\* Mutant: the 1-based offset is added twice
PushIndexTwiceOffset(q) == Len(q) + 2

\* The index entries.Push returns for a payload appended to q: its position
\* plus one, so that 0 stays the "absent" sentinel.
PushIndex(q) == Len(q) + 1

\* the slot is in the queue and alive
Live(i) == i \in 1 .. Len(entries) /\ entries[i].live

-----------------------------------------------------------------------------
(* initNewShard                                                            *)

Init ==
    /\ now = 0
    /\ entries = << >>
    /\ hashmap = [h \in Hashes |-> 0]
    /\ lockHolder = NoThread
    /\ ttlTable = {}
    /\ firing = {}
    /\ pc = [t \in Threads |-> "idle"]
    /\ op = [t \in Threads |-> [key |-> CHOOSE k \in Keys : TRUE, val |-> CHOOSE v \in Values : TRUE,
                                 exp |-> 0, idx |-> 0]]
    /\ ops = [t \in Threads |-> 0]
    /\ ret = [t \in Threads |-> [key |-> CHOOSE k \in Keys : TRUE, val |-> NotFound]]
    /\ stored = [k \in Keys |-> {}]

\* A client goroutine may start an operation: it is idle, has operations
\* left, and s.lock (read or write) can be acquired.
CanStart(t) ==
    /\ pc[t] = "idle"
    /\ ops[t] < MaxOps
    /\ lockHolder = NoThread

-----------------------------------------------------------------------------
(* cacheShard.get: the locked lookup, then readEntry after RUnlock         *)

get(t, k) ==
    /\ CanStart(t)
    /\ LET i   == hashmap[KeyHash[k]]
           hit == i # 0 /\ QueueGetOk(i) /\ entries[i].key = k
       IN \/ /\ ~hit          \* index 0, entries.Get error, or a collision
             /\ ret' = [ret EXCEPT ![t] = [key |-> k, val |-> NotFound]]
             /\ UNCHANGED <<pc, op>>
          \/ /\ hit
             /\ pc' = [pc EXCEPT ![t] = "get_read"]
             /\ op' = [op EXCEPT ![t] = [@ EXCEPT !.key = k, !.exp = 0, !.idx = i]]
             /\ UNCHANGED ret
    /\ ops' = [ops EXCEPT ![t] = @ + 1]
    /\ UNCHANGED <<now, entries, hashmap, lockHolder, ttlTable, firing, stored>>

\* readEntry(wrappedEntry) runs after s.lock.RUnlock() on a view into the
\* queue.  A writer that invalidated the slot meanwhile zeroed its key
\* length without any happens-before edge to this read: the read may see
\* either length, and with the zero one returns key and value bytes.
getRead(t) ==
    /\ pc[t] = "get_read"
    /\ LET e == entries[op[t].idx]
       IN \E r \in IF e.live THEN {e.val} ELSE {e.val, Corrupt} :
             ret' = [ret EXCEPT ![t] = [key |-> op[t].key, val |-> r]]
    /\ pc' = [pc EXCEPT ![t] = "idle"]
    /\ UNCHANGED <<now, entries, hashmap, lockHolder, ttlTable, firing, op, ops, stored>>

-----------------------------------------------------------------------------
(* cacheShard.set                                                          *)

\* expiryTimestamp: clock.epoch() plus the duration's seconds, or NO_EXPIRY
ExpiryOf(d) == IF d # NO_EXPIRY THEN now + d ELSE NO_EXPIRY

\* expiryTimestamp is computed from clock.epoch() BEFORE s.lock.Lock(): a
\* set that then waits for the lock can store an expiry that has passed.
setEpoch(t, k, v, d) ==
    /\ pc[t] = "idle"
    /\ ops[t] < MaxOps
    /\ pc' = [pc EXCEPT ![t] = "set_lock"]
    /\ op' = [op EXCEPT ![t] = [key |-> k, val |-> v, exp |-> ExpiryOf(d), idx |-> 0]]
    /\ UNCHANGED <<now, entries, hashmap, lockHolder, ttlTable, firing, ops, ret, stored>>

\* The locked part.  The previous entry of the same HASH is invalidated and
\* ttlTable.remove is called with its timestamp and the NEW key.  If Push
\* fails the function returns without s.lock.Unlock().  An expiry of
\* NO_EXPIRY is the only one not registered with the ttlManager.
set(t) ==
    /\ pc[t] = "set_lock"
    /\ lockHolder = NoThread
    /\ LET k       == op[t].key
           h       == KeyHash[k]
           exp     == op[t].exp
           prev    == hashmap[h]
           hadPrev == prev # 0 /\ QueueGetOk(prev)
           kept    == IF hadPrev THEN Invalidate(entries, prev) ELSE entries
           w       == [hash |-> h, key |-> k, exp |-> exp, val |-> op[t].val, live |-> TRUE]
       IN /\ ttlTable' = IF hadPrev THEN ttlTable \ {<<entries[prev].exp, k>>}
                                    ELSE ttlTable
          /\ \/ /\ Len(kept) < Cap          \* Push succeeds
                /\ entries' = Append(kept, w)
                /\ hashmap' = [hashmap EXCEPT ![h] = PushIndex(kept)]
                /\ pc' = [pc EXCEPT ![t] = IF exp # NO_EXPIRY THEN "set_ttl" ELSE "idle"]
                /\ stored' = [stored EXCEPT ![k] = @ \cup {op[t].val}]
                /\ UNCHANGED lockHolder
             \/ /\ Len(kept) = Cap          \* Push fails: lock kept
                /\ entries' = kept
                /\ lockHolder' = t
                /\ UNCHANGED <<hashmap, pc, stored>>
    /\ ops' = [ops EXCEPT ![t] = @ + 1]
    /\ UNCHANGED <<now, firing, op, ret>>

\* Mutant: the entry is never registered with the ttlManager
setTTLDropped(t) ==
    /\ pc[t] = "set_ttl"
    /\ pc' = [pc EXCEPT ![t] = "idle"]
    /\ UNCHANGED <<now, entries, hashmap, lockHolder, ttlTable, firing, op, ops, ret, stored>>

\* s.ttlTable.put(expiryTimestamp, key), after s.lock.Unlock()
setTTL(t) ==
    /\ pc[t] = "set_ttl"
    /\ ttlTable' = ttlTable \cup {<<op[t].exp, op[t].key>>}
    /\ pc' = [pc EXCEPT ![t] = "idle"]
    /\ UNCHANGED <<now, entries, hashmap, lockHolder, firing, op, ops, ret, stored>>

-----------------------------------------------------------------------------
(* cacheShard.del                                                          *)

\* The locked part.  The slot is looked up by hash only: no key comparison.
del(t, k) ==
    /\ CanStart(t)
    /\ LET h == KeyHash[k]
           i == hashmap[h]
       IN \/ /\ ~(i # 0 /\ QueueGetOk(i))      \* notFound or entries.Get error
             /\ UNCHANGED <<entries, hashmap, pc, op>>
          \/ /\ i # 0 /\ QueueGetOk(i)
             /\ hashmap' = [hashmap EXCEPT ![h] = 0]
             /\ entries' = Invalidate(entries, i)
             /\ pc' = [pc EXCEPT ![t] = "del_ttl"]
             /\ op' = [op EXCEPT ![t] = [@ EXCEPT !.key = k, !.exp = entries[i].exp, !.idx = i]]
    /\ ops' = [ops EXCEPT ![t] = @ + 1]
    /\ UNCHANGED <<now, lockHolder, ttlTable, firing, ret, stored>>

\* s.ttlTable.remove(timestamp, key), after s.lock.Unlock()
delTTL(t) ==
    /\ pc[t] = "del_ttl"
    /\ ttlTable' = ttlTable \ {<<op[t].exp, op[t].key>>}
    /\ pc' = [pc EXCEPT ![t] = "idle"]
    /\ UNCHANGED <<now, entries, hashmap, lockHolder, firing, op, ops, ret, stored>>

-----------------------------------------------------------------------------
(* cacheShard.copyKeys                                                     *)

\* len(s.hashmap): the number of hashes present
MapLen == Cardinality({h \in Hashes : hashmap[h] # 0})

\* keys = make([]uint32, len(s.hashmap)) runs BEFORE s.lock.RLock()
copyKeys(t) ==
    /\ pc[t] = "idle"
    /\ ops[t] < MaxOps
    /\ pc' = [pc EXCEPT ![t] = "copy_keys"]
    /\ op' = [op EXCEPT ![t].idx = MapLen]
    /\ ops' = [ops EXCEPT ![t] = @ + 1]
    /\ UNCHANGED <<now, entries, hashmap, lockHolder, ttlTable, firing, ret, stored>>

\* Under s.lock.RLock() every index of the map is written to keys[next].
\* With more entries than the slice was made for, keys[next] is out of
\* range and the goroutine panics ("copy_panic").
copyKeysFill(t) ==
    /\ pc[t] = "copy_keys"
    /\ lockHolder = NoThread
    /\ pc' = [pc EXCEPT ![t] = IF MapLen <= op[t].idx THEN "idle" ELSE "copy_panic"]
    /\ UNCHANGED <<now, entries, hashmap, lockHolder, ttlTable, firing, op, ops, ret, stored>>

-----------------------------------------------------------------------------
(* ttlManager timer and cacheShard.evictDel                                *)

\* The timer fires: every cohort due at `now` is taken out of the table.
tick ==
    /\ firing = {}
    /\ \E p \in ttlTable : p[1] <= now
    /\ firing' = {p \in ttlTable : p[1] <= now}
    /\ ttlTable' = ttlTable \ firing'
    /\ UNCHANGED <<now, entries, hashmap, lockHolder, pc, op, ops, ret, stored>>

\* Mutant: the stored timestamp is not compared with the cohort's
CohortHitNoTimestamp(h, ts) == hashmap[h] # 0 /\ QueueGetOk(hashmap[h])

\* evictDel's test for one key of the cohort with hash h: its index is not 0,
\* entries.Get succeeds, and the stored timestamp is the cohort's.
CohortHit(h, ts) ==
    /\ hashmap[h] # 0
    /\ QueueGetOk(hashmap[h])
    /\ entries[hashmap[h]].exp = ts

\* evictDel(timeStamp, set) for the earliest popped cohort, under s.lock:
\* each key is looked up by hash and its slot removed only when the stored
\* timestamp equals the cohort's.
evictDel ==
    /\ firing # {}
    /\ lockHolder = NoThread
    /\ LET ts     == CHOOSE e \in {p[1] : p \in firing} : \A q \in firing : e <= q[1]
           cohort == {p[2] : p \in {q \in firing : q[1] = ts}}
           due    == {h \in {KeyHash[k] : k \in cohort} : CohortHit(h, ts)}
           slots  == {hashmap[h] : h \in due}
       IN /\ hashmap' = [h \in Hashes |-> IF h \in due THEN 0 ELSE hashmap[h]]
          /\ entries' = [i \in 1 .. Len(entries) |->
                           IF i \in slots THEN [entries[i] EXCEPT !.live = FALSE]
                                          ELSE entries[i]]
          /\ firing' = {q \in firing : q[1] # ts}
    /\ UNCHANGED <<now, lockHolder, ttlTable, pc, op, ops, ret, stored>>

\* The wall clock advances one second.
clockTick ==
    /\ now < MaxTime
    /\ now' = now + 1
    /\ UNCHANGED <<entries, hashmap, lockHolder, ttlTable, firing, pc, op, ops, ret, stored>>

-----------------------------------------------------------------------------

\* Every goroutine has finished, time is up and no cohort is due.
Terminated ==
    /\ \A t \in Threads : pc[t] \in {"idle", "copy_panic"} /\ ops[t] = MaxOps
    /\ now = MaxTime
    /\ firing = {}
    /\ \A p \in ttlTable : p[1] > now

Client(t) ==
    \/ \E k \in Keys : get(t, k) \/ del(t, k)
    \/ \E k \in Keys, v \in Values, d \in TTLs : setEpoch(t, k, v, d)
    \/ set(t)
    \/ copyKeys(t)
    \/ getRead(t) \/ setTTL(t) \/ delTTL(t) \/ copyKeysFill(t)

Next ==
    \/ \E t \in Threads : Client(t)
    \/ tick \/ evictDel \/ clockTick
    \/ Terminated /\ UNCHANGED vars

\* A goroutine that has started a set gets s.lock unless it was leaked,
\* a goroutine that has released s.lock runs to the end of its call, the
\* timer goroutine runs when a cohort is due, and time passes.  Starting a
\* new call is up to the application and is not fair.
Fairness ==
    /\ \A t \in Threads : WF_vars(set(t) \/ getRead(t) \/ setTTL(t) \/ delTTL(t) \/ copyKeysFill(t))
    /\ WF_vars(tick) /\ WF_vars(evictDel) /\ WF_vars(clockTick)

Spec == Init /\ [][Next]_vars /\ Fairness

-----------------------------------------------------------------------------
(* Refinement of CacheAbstract                                             *)

\* What the shard holds under each hash, as its callers see it: the live
\* entry the hashmap points to, or nothing.  A hashmap entry left pointing
\* at an invalidated slot (the failed Push of set) reads as nothing, since
\* entries.Get of a tombstoned slot fails.  The queue's used slots are the
\* length of the slot sequence.
AbsCache ==
    [h \in Hashes |->
        IF Live(hashmap[h])
        THEN [key |-> entries[hashmap[h]].key, val |-> entries[hashmap[h]].val,
              exp |-> entries[hashmap[h]].exp]
        ELSE NotFound]

Abs == INSTANCE CacheAbstract WITH cache <- AbsCache, used <- Len(entries), Absent <- NotFound

-----------------------------------------------------------------------------
(* Properties                                                              *)

\* The shard implements the cache of spec 4.2: each locked step of set, del
\* and evictDel is one Set, SetQueueFull, Delete or Evict of the abstract
\* cache, and every step outside the lock leaves it unchanged.  In
\* particular del removes only the entry of the key it is given, a failed
\* Push empties the hash only when the queue is full, and evictDel removes
\* only entries whose expiry second has passed, even when the cohort it runs
\* is stale for a key that has since been set again.
CacheRefinement == Abs!Spec

\* Whenever s.lock is free, the hashmap and the queue agree: a slot is live
\* exactly when the hashmap maps its hash to it.  set must invalidate the
\* previous slot of the hash before pushing, del and evictDel must clear the
\* hashmap entry together with the slot.
LiveSlotsIndexed ==
    lockHolder = NoThread =>
        /\ \A i \in 1 .. Len(entries) : entries[i].live <=> hashmap[entries[i].hash] = i
        /\ \A h \in Hashes : hashmap[h] # 0 => entries[hashmap[h]].hash = h

\* No entry disappears before its expiry second unless a set or del of a key
\* with its hash is the step that removes it.  A stale cohort left behind
\* by an overwrite (or by a colliding key) must not evict the new entry:
\* evictDel compares the stored timestamp with the cohort's.
NoPrematureEviction ==
    [][\A i \in 1 .. Len(entries) :
         (entries[i].live /\ ~entries'[i].live) =>
            \/ entries[i].exp \in 1 .. now
            \/ \E t \in Threads : ops'[t] = ops[t] + 1
                                  /\ KeyHash[op'[t].key] = entries[i].hash]_vars

\* An entry whose expiry second has passed is eventually removed (by the
\* timer, or by a later set or del): set's ttlTable.put and del's
\* ttlTable.remove run after s.lock is released and must not leave a live
\* expiring entry unregistered.
ExpiredEventuallyEvicted ==
    \A i \in 1 .. Cap :
        (Live(i) /\ entries[i].exp # NO_EXPIRY /\ entries[i].exp <= now) ~> ~Live(i)

\* A get that hits returns a value some set stored under that key, never
\* bytes read through a slot invalidated after the lookup.
GetReturnsStoredValue ==
    \A t \in Threads : ret[t].val # NotFound => ret[t].val \in stored[ret[t].key]

=============================================================================
