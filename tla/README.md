# TLA+ models of ngbigcache

This directory holds TLA+ models of the concurrent parts of ngbigcache and
the TLC configurations that check them. ngbigcache is a sharded in-memory
byte cache with per-second TTL eviction and a cluster layer that replicates
writes to peers over TCP. Every module is translated from the Go source
under `src/`. `PROJECT.json` maps each definition to the source lines it
models, lists the runs, the mutants that show each property can fail, the
findings, and the hazards.

## The system

The implementation is in two files under `src/`.

- **cacheShard** (`src/unnamed/part_000`). One shard holds:
  - a `hashmap` from 64-bit key hash to a 1-based queue index (0 means
    absent);
  - a `BytesQueue` of wrapped entries (expiry, hash, key, value);
  - one `sync.RWMutex`;
  - a `ttlManager` of expiry cohorts.

  The operations are `get`, `set`, `del`, `evictDel`, `copyKeys`, `reset`
  and `len`. `get` and `copyKeys` take the read lock; the other operations
  take the write lock. There are three places where the code acts after it
  releases the lock:
  - `set` registers the TTL after `Unlock`;
  - `del` removes the TTL after `Unlock`;
  - `get` decodes the value after `RUnlock`.

  The ttlManager's timer pops every cohort whose second has passed and calls
  `evictDel(ts, keys)`. `evictDel` takes the write lock and removes a key
  only if the entry's stored expiry is still `ts`.
- **ttlManager** and **BytesQueue**. Their source is not under `src/`, so
  they are modelled from spec 4.3 and 4.1. These definitions are marked
  `spec_modelled`. Nothing ever pops the queue, because `cleanUp` and the
  compactor are commented out. A `Delete` leaves a tombstone, and `Push`
  fails when the queue is full.
- **remoteNode** (`src/Cluster/remoteNode.go`). This is one peer
  connection. `start()` takes a temporary `wg.Add(1)` and hands seven actors
  to an `oklog/run.Group`, started with `go g.Run()`. Then it sends VERIFY.
  The actors are:
  - `done`, which waits on `r.done`;
  - the ping ticker;
  - the ping-timeout watcher;
  - `networkConsumer`, which reads the socket and calls
    `queueInboundMessage`;
  - `handleMessage`;
  - `networkSender`;
  - the teardown actor, which runs `wg.Wait()` and then `tearDown()`.

  When the first actor returns, `Run` calls the seven interrupt functions
  in order. They close `r.done` and the two ping channels, set
  `Disconnected`, close the inbound and outbound queues, and close the
  connection and drop the temporary increment. The parent
  `ClusteredBigCache` calls `shutDown()` and `getData()` on the node, and it
  admits or refuses the node in `handleVerify` (`eventVerifyRemoteNode`).
- **ClusteredBigCache**, **CacheFacade** and the **message codec** are not
  under `src/`. The Go tests in `src/unnamed/part_001` exercise the cluster
  node.

## Modules

| Module | Models | State | Actions |
|---|---|---|---|
| `Shard` | cacheShard with its ttlManager and a slot abstraction of BytesQueue | `entries` (slots `[hash,key,exp,val,live]`), `hashmap`, `lockHolder`, `ttlTable` (set of `<<exp,key>>`), `firing` (popped cohorts), `now`, per-goroutine `pc`/`op`/`ret`, `stored` (last value set per key) | `get`, `getRead`, `set`, `setTTL`, `del`, `delTTL`, `copyKeys`, `copyKeysFill`, `tick`, `evictDel`, `clockTick` |
| `CacheAbstract` | what a shard promises (spec 4.2): one entry or nothing per hash | `cache` (hash to `[key,val,exp]` or Absent), `used` (queue slots used), `now` | `Set`, `SetQueueFull`, `Delete`, `Evict`, `Reset`, `Tick` |
| `MCShard` | model values and the two hash functions (colliding and distinct) | | |
| `RemoteNode` | one remoteNode from `start()` to `tearDown()`, the parent's calls and the remote end | `state`, each actor's status, `added` and `wg` (the WaitGroup), `intr` (interrupts run), `closed` channels, `inbound`/`outbound` queues, `remoteSent` and `remoteClosed` (the remote end), `timerMade`, `pendingNil`, `registered`, `crashed` (an unrecovered panic) | `Launch`, `sendVerify`, the pinger, watcher, consumer, handler and sender steps, `doneExit`, `teardownRun`, `interrupt`, `shutDown`, `getCheck`/`getStore`/`getSend`, `remoteHangup` |
| `MCRemoteNode` | the sets of remote message codes | | |
| `RemoteNodeTimed` | one outbound remoteNode with time, from `join()` to teardown: `checkConfig`, join and `connect` with retries, `start` and `sendVerify`, the ping ticker and ping-timeout watcher actors, `handleVerify`, `handleVerifyOK`'s poller, `handlePong`, the Handshake filter of `queueInboundMessage`, and a remote end that answers VERIFY and PINGs until it dies | `jpc`/`tries` (the join goroutine), `state`, `tickIn`/`tickC` (the ticker and its channel), `timeoutIn`/`timeoutC` (`r.pingTimeout` and its channel), `pingFailure`, `ppc`/`wpc`/`hpc` (the actors), `wire` (our messages the remote end has not read, by age), `inq` (the inbound queue), `rverified`/`rvLeft`/`alive` (the remote end), `opc`/`pollLeft`/`count`/`syncSent` (the poller), `gpc`/`getLeft`/`replyC`/`doneC`/`slotFrom`/`result` (the parent's Get, its `replyChan` and `done`), `pending` (`r.pendingGet`); history `attempts`, `pend`, `overdue`, `okAge`, `budgetMet`, `first` | `joinStart`, `connectOk`/`connectFail`, `joinRetry`, `start`, `sendVerify`, `tickerFire`, `timeoutFire`, `pingerTick`/`pingerDrain`/`pingerReset`/`pingerSend`, `watcherRecv`/`watcherCount`/`watcherCheck`, `handleVerify`, `handleVerifyOK`, `handlePong`/`pongDrain`/`pongZero`, `pollCheck`/`pollWake`, `getStart` (`getData`), `otherReply`, `handleGetResponse`, `getReceive`/`getTimeout`/`getClose`/`getCleanup`, `remoteRead`, `remoteVerify`, `remoteDies`, `secondPasses` |

Shard actions and the lock:
- Each critical section of the Go code is one atomic step. The lock is held
  for the whole step.
- Code that runs after the unlock is a step of its own, taken by the same
  goroutine: `setTTL`, `delTTL`, `getRead` and `copyKeysFill`. Between the
  two steps the goroutine's `pc` says where it is.
- When `set`'s `Push` fails, the step ends with `lockHolder` still set and
  `pc` idle. That is exactly what the code does.
- `getRead` returns either the stored value or `Corrupt`. It returns
  `Corrupt` when the slot has been invalidated since the lookup. This is
  the data race of reading a slot that `resetKeyFromEntry` is zeroing.

Refinement of CacheAbstract:
- `Shard` instantiates `CacheAbstract` as `Abs` with `cache <- AbsCache`
  and `used <- Len(entries)`. `AbsCache` maps each hash to the live entry
  the hashmap points to, or to nothing. A hashmap entry left pointing at
  an invalidated slot reads as nothing, because `entries.Get` of a
  tombstoned slot fails.
- Every locked step of `set`, `del` and `evictDel` is one abstract step.
  Every step outside the lock (`getRead`, `setTTL`, `delTTL`,
  `copyKeysFill`, `tick`) is an abstract stutter.
- The refinement cannot see which key a `del` was called with. Abstract
  `\E k : Delete(k)` matches a delete of whichever key is stored, which is
  why the refinement run uses distinct hashes (see the hazard at
  `part_000:134`).

RemoteNode actions:
- Each actor is a little program counter (`cpc`, `hpc`, `ppc`). A blocking
  channel operation is an action that is disabled until the channel is
  ready.
- `SendResults` and `InboundResults` give the possible next queue contents
  of a `select` that sends on a queue or receives from `r.done`. A send on a
  closed channel panics, and that panic is recovered.
- The two nil dereferences are not recovered. They set `crashed`, and every
  action requires `Alive`.
- Time is abstracted. A ticker tick can happen at any moment (at most
  `MaxPings` times). The watcher's fault (`watcherFault`) needs at least
  `PingFailureThreshHold - 1` ticks, because every expiry after the first
  timer needs a tick's `Reset`. Beyond that the fault is an
  over-approximation: it can happen after any later tick, with no
  accounting of PONGs. `RemoteNodeTimed` models when that fault really happens.

RemoteNodeTimed actions:
- The join goroutine is `jpc`. `connect` either succeeds (only to a live
  remote end) and sets Handshake, or fails. After a failure, join sleeps
  and then counts the try against `ConnectRetries`. Its 3-second sleep and
  the 5-second dial timeout take no model time, because nothing else of the
  node runs before `start`.
- `start` launches the actors (`Running` holds from then until the
  interrupts set Disconnected) and then `sendVerify` queues our VERIFY. The
  pinger's first PING races it.
- The remote end reads our messages in order, within `MaxLatency` seconds.
  It makes itself Connected on our VERIFY and replies VERIFY_OK. Before
  that it drops PINGs, as its own Handshake filter does. Its own VERIFY
  reaches us within `VerifyDelay` seconds of start, in either order with
  VERIFY_OK.
- What the remote end sends passes our `queueInboundMessage` filter
  (`Deliver`): in Handshake a PONG is dropped.
- `handleVerify` admits or rejects nondeterministically
  (`eventVerifyRemoteNode`, or both passive). A rejection sets
  Disconnected, as handleMessage's return and the interrupts do.
- A ping fault sets Disconnected in the same step: the watcher returns and
  the run.Group interrupts the others.
- The poller (`opc`) is not a run.Group actor. It outlives the node and
  keeps sleeping after a teardown. `sendMessage` drops its SYNC_REQ once
  the node is Disconnected.
- Time is discrete. Each pending event holds the seconds left until it is
  due, so behaviours of any length have finite state and liveness is
  checked without a time bound.
- `secondPasses` is enabled only when every goroutine is blocked and nothing
  is due. A runnable goroutine runs within the second.
- Timers follow Go's semantics:
  - the channel has capacity 1 and the runtime fills it without blocking;
  - `Stop` disarms the timer and reports true only if it had not fired;
  - the drain is a non-blocking receive that races the watcher.
- Two events due in the same second fire in either order.
- The cross-peer Get. The parent's `Get` is not under `src/` and is
  modelled from spec 4.6. It calls `getData` (`getStart`): unless the node
  is Disconnected, that stores the pending key and sends GET_REQ. The
  remote end's `handleGetRequest` answers with data on a hit and an empty
  body on a miss (`Answer`). `handleGetResponse` does `Load` (return if
  absent), `Delete`, the empty-body return, and the `select` on `done`,
  `replyChan` and `default`. The `select` picks at random among the ready
  cases (`SelectCases`). The other peers the Get fans out to are an
  environment (`otherReply`): their `handleGetResponse` may fill the
  one-slot `replyChan` at any time while the Get waits. The Get waits
  `GetTimeout` seconds, takes a reply or times out, then closes `done`
  and cleans up the pending entry. One Get is made per behaviour.

## Runs

Pass runs:

| Run | Checks | Shows |
|---|---|---|
| `shard_safety` | TypeOK, LiveSlotsIndexed, CacheRefinement | Two goroutines work on two keys with distinct hashes, with a queue of 3 that fills. Whenever the lock is free, the live slots are exactly those the hashmap points to. The shard implements `CacheAbstract`. `set` reads the clock before it takes the lock, so it may store an entry whose expiry has already passed, as the abstract `Set` allows. A failed set empties the hash only when the queue is full; evictDel removes only expired entries. |
| `shard_ttl_single` | ExpiredEventuallyEvicted, NoPrematureEviction | One goroutine works on two colliding keys, racing the timer. Every expired entry is eventually evicted. No entry is evicted before its expiry second, unless a client operation on the same hash removes it, even when a stale cohort of the colliding key fires. |
| `node_traffic` | TypeOK, NoRegistrationAfterTearDown | The remote end writes VERIFY or PING twice and the parent calls `getData`. A torn-down node is never left in the parent's registry. |
| `node_liveness` | StoppedNodeTornDown | The remote end stays silent, the ticker ticks once and the parent may call `shutDown`. Once any actor returns, tearDown eventually runs. |
| `node_timed` | TypeOK, NoSpuriousTimeout, JoinGivesUpAfterRetries, SyncOnlyAfterAdmission, FaultOnlyForSilentPeer, FirstReplyWins, SilentPeerDetected | The config leaves PingInterval and the threshold unset, so the defaults of 5 s and 5 failures apply. PingTimeout is 4 s and ConnectRetries 2. The remote end answers within 0 to 4 s, so at times late, and may die at any point. Join gives up after exactly 2 failed attempts. No failure is counted while every PING has its PONG handled in time. Dropped first PINGs, PONGs lost to the Handshake filter and late PONGs never add up to a fault of a live peer. A dead remote end always brings the node down. A SYNC_REQ goes only to a peer admitted within the poll budget, never after a rejection. A Get returns the first non-empty reply handled while it waited, from this node or another, and never an empty one (spec 8, First-reply-wins). A timeout beats only a reply that came in the second the Get was due. |

Violation runs. Each one checks a property that the spec, a comment or the
code's intent states, and the code breaks it. See `findings` in
PROJECT.json.

| Run | Property | What the code does |
|---|---|---|
| `shard_ttl_race` | ExpiredEventuallyEvicted | `del`'s late `ttlTable.remove` erases a concurrent `set`'s registration, so the entry never expires. |
| `shard_torn_get` | GetReturnsStoredValue | `get` decodes the slot after `RUnlock`. |
| `node_late_add` | TearDownAfterWorkersExit | The ping timer actor makes its ticker and sends the first PING before it calls `r.wg.Add(1)`. When the remote end hangs up first, `wg.Wait` returns and `tearDown` runs while the pinger is running. The threshold is 2 and there are no ticks, so the watcher cannot fault in this trace. |
| `node_reconnected` | DisconnectedIsFinal | `handleVerify` sets Connected after the interrupts have set Disconnected. |
| `node_nil_deref` | NoNilDereference | `getData` stores into a pendingGet that tearDown has set to nil. The model also keeps a tick or a PONG that uses `r.pingTimeout` before it exists. This run has no tick and no PONG, so it cannot reach that case; it is listed as an unchecked hazard. |
| `ping_equal` | SilentPeerDetected | With PingTimeout equal to PingInterval, which `checkConfig` accepts silently, each re-armed timeout falls due in the second of the next tick. The tick's `Stop` can disarm it before the watcher receives it, so a dead remote end is never detected. |
| `sync_budget` | SyncWithinBudget | The poller reads the state at 0 to 4 s and breaks after the fifth sleep without reading it again. A peer admitted in the fifth second after VERIFY_OK, inside spec 4.5's 5-second budget, gets no SYNC_REQ. |

Every property of a pass run has a mutant in PROJECT.json: a plausible bug
in one mapped definition that TLC then catches under the same cfg.

## Bounds and why they are enough

Shard bounds:
- Two goroutines and two keys. Under `MCKeyHash` the keys share one hash,
  which exercises collisions. Under `MCKeyHashDistinct` they have two
  hashes.
- Queue capacity 2 to 4, so that `Push` failure happens.
- TTLs of 0 (no expiry), 1 and 2, and a clock of up to 3 seconds, so that
  cohorts of different seconds overlap and a key can be re-set with the
  same or a different expiry.
- `MaxOps` caps the client operations.
- Durations are whole seconds. `set` truncates a sub-second TTL with
  `uint64(duration.Seconds())`, which is not modelled.
- `setEpoch` computes the expiry from the clock before `s.lock.Lock()`, and
  `set` stores it once the lock is free. A tick can come between the two
  steps.
- The refinement run uses distinct hashes, because with colliding hashes
  `del` removes the other key's entry (spec 4.2 says Delete compares the
  key, as Get does). Collisions are checked by `shard_ttl_single`, whose one goroutine still meets stale
  cohorts of the colliding key.

RemoteNodeTimed bounds:
- Time is unbounded. The only bounds are the configuration itself, the
  remote end's latency, `VerifyDelay` and `ConnectRetries`.
- `node_timed` uses the shipped defaults for the interval and the
  threshold, so detection needs 5 timeouts over about 25 seconds.
- The latency of up to 4 s lets an answer come after the 4 s timeout,
  which is when `handlePong` finds the timer fired and drains it.
- At most 2 PINGs are in flight, since the latency is below the interval.
- `ConnectRetries` 2 gives a first failure that is retried and a second
  one that gives up. `VerifyDelay` 2 lets the remote end's VERIFY come
  before or after VERIFY_OK, so that the poller both finds Connected at
  once and sleeps, and PONGs meet the Handshake filter.
- The Get waits 2 s and may start at any point of the node's life. With a
  round trip of up to 8 s, its reply comes in time, in the deadline
  second, too late, or after the node is down. `OtherPeers` lets another
  peer's reply come before ours, after it, or not at all. The violation
  runs make no Get that bears on them (`GetTimeout` 0, no other peers).
- `sync_budget` has `VerifyDelay` 5, so admission can fall in every
  second of the poller's budget. `ping_equal` uses one connect attempt
  and no sync, because neither bears on its question.

RemoteNode bounds:
- `CHAN_SIZE` is reduced to 1, so both queues fill and the blocking
  `select`s happen.
- The remote end writes 0 to 2 messages and may hang up at any time.
- `MaxPings` is 0 or 1.
- The parent's calls are split between the two pass runs to keep each run
  within a few minutes: `getData` in `node_traffic`, `shutDown` in
  `node_liveness`.
- Only networkConsumer reads the socket. The remote end's write of a
  message is therefore folded into the `consumerRead` step that returns it,
  and the model keeps only the count of messages written.

Each violation is found at the smallest bounds that allow it.

## Fairness

Shard fairness:
- A goroutine that has left the lock eventually runs its continuation
  (weak fairness on `getRead`, `setTTL`, `delTTL` and `copyKeysFill`).
- The timer fires, `evictDel` runs and the clock advances (weak fairness):
  the Go runtime schedules runnable goroutines and timers.
- Starting a client operation is not fair: callers may stop calling.

RemoteNodeTimed fairness:
- Every goroutine step, the firing of a due timer, the passing of time and
  the remote end's reads while alive are weakly fair. The remote end's
  death is not fair. Nor is the outcome of a dial: join's step is fair,
  but whether `connect` succeeds is not.
- The Get's steps after it has started are fair, as goroutine steps. The
  parent's call of `Get`, and whether another peer answers, are not.
- At a second where the tick and the timeout coincide, weak fairness does
  not make the timeout win: the tick's `Stop` disables it. `ping_equal`
  rests on exactly this.

RemoteNode fairness:
- Every goroutine step is weakly fair, because a runnable goroutine
  eventually runs. This covers a launch, a send that can proceed, a read of
  data that is there, and an interrupt.
- The ticker, the ping fault, the remote end and the parent are not fair.
  They depend on time, on the network and on the caller.

Why `CHECK_DEADLOCK FALSE` is used where it is:
- For RemoteNode, a connection that is idle and open blocks for ever in the
  code too.
- For `shard_safety`, the leaked lock of a failed `Push` is a real hang.
  The run is about the other properties. The hang is listed as a hazard.
- RemoteNodeTimed checks deadlock: time can always pass while the node
  runs or the poller sleeps. A join that gave up, and a node that is down
  with its poller finished, stop by the stutter step `Finished`.

## Not modelled, and the plan

Not modelled yet:
- `reset` and `len` of the shard, and the stats counters. `reset` is test
  support and has no caller under `src/`. `len` is a locked read. The stats
  are counters with no effect on control.
- Three races kept in the models but not checked by a run, each listed as
  a hazard:
  - the leaked lock of a failed `Push`;
  - `copyKeys` sizing its slice before it takes the lock;
  - `shutDown`'s dropped send.
  Each takes a single interleaving, which a plain test reaches.
- The start-up order of the ping actors in RemoteNodeTimed: it starts with
  both timers made. The nil `r.pingTimeout` before the watcher makes it is
  RemoteNode's `NoNilDereference`. The remote end's own rejection of our
  VERIFY, and its pings to us, are left out: a rejection closes the socket,
  which RemoteNode models as `remoteHangup`.
- The infinite retry of `ConnectRetries <= 0` is in the model, but no
  run uses it, because a remote end that never accepts then keeps join
  looping for ever, as the spec says.
- SYNC_REQ/SYNC_RSP, `handlePut` and `handleDelete`. These handlers only
  call the parent: its cache, its registry (`getRemoteNodes`) and its
  `joinQueue`, none of which is under `src/`. `handleSyncResponse`'s
  blocking `joinQueue` send is listed as a hazard (`remoteNode.go:573`).
- `tearDown`'s `joinQueue` send when `ReconnectOnDisconnect` is set
  (`remoteNode.go:388`). `teardownRun` leaves it out: the queue belongs to
  the parent, which is not under `src/`, and the node runs with
  reconnection off.
- `remoteRead` in RemoteNodeTimed is a friendlier remote end than a real
  one. It answers every PING and GET_REQ it reads after our VERIFY, and it
  never rejects. Only its latency and its death are adversarial.
- The fan-out of the Get to several real remoteNodes. RemoteNodeTimed has
  one, and the others act through `replyChan` alone.
- `removeOldestEntry`: its only caller, `cleanUp`, is commented out.
- The ClusteredBigCache node: the accept loop, admission, and replication
  of PUT/DEL to peers.
- The byte-level BytesQueue: wrap-around, right margin and growth.
- The codec, which is a pure conversion.
- The `del` key contract (hazard `part_000:134`): two colliding keys and one
  `del` break it, a case spec test 6 describes, which a unit test reaches.
  Its run slot went to the timing case `sync_budget`.

Planned modules:
1. `ByteQueue`: the byte-level queue, refining Shard's slot queue.
2. `Cluster`: two nodes, admission, PUT/DEL replication over FIFO
   connections, and the Get fanned out to several modelled peers.
3. The sync exchange (`sendSyncResponse`, `handleSyncResponse`) on top of
   RemoteNodeTimed's poller.
