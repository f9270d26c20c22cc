-------------------------- MODULE RemoteNodeTimed --------------------------
(***************************************************************************)
(* One outbound remoteNode (src/Cluster/remoteNode.go) with time, from     *)
(* join to teardown: the join goroutine and connect, start and the first   *)
(* VERIFY, the ping ticker and ping-timeout watcher actors, the handler's  *)
(* handleVerify, handleVerifyOK and handlePong, the VERIFY_OK poller       *)
(* goroutine, and the remote end, which answers our VERIFY with VERIFY_OK, *)
(* sends its own VERIFY, and answers PINGs with PONGs until it dies.       *)
(*                                                                         *)
(* r.pingTimer is a time.Ticker and r.pingTimeout a time.Timer, each with  *)
(* a channel of capacity 1 that the runtime fills without blocking when   *)
(* it fires.  Stop reports whether it stopped a timer that had not fired;  *)
(* both the ticker actor and handlePong then drain the channel with a      *)
(* non-blocking receive, racing the watcher that blocks on it.             *)
(*                                                                         *)
(* Time is discrete and kept relative: each pending event holds the       *)
(* seconds left until it is due, so behaviours of any length have finite   *)
(* state.  A goroutine that can run does so within the second: time        *)
(* advances only when every actor is blocked and no event is due.  Join's  *)
(* 3-second sleep and connect's 5-second dial timeout are steps without    *)
(* time: nothing else of the node runs before start.  The workers' wait    *)
(* group, shutDown and the queues' capacity are the subject of RemoteNode; *)
(* the run.Group's interrupts are one step here that sets Disconnected.    *)
(***************************************************************************)
EXTENDS Integers, Sequences

CONSTANTS
    PingIntervalCfg,    \* config.PingInterval as given
    PingTimeoutCfg,     \* config.PingTimeout as given
    ThresholdCfg,       \* config.PingFailureThreshHold as given
    ConnectRetries,     \* config.ConnectRetries
    Sync,               \* config.Sync: this node joined to sync
    MaxLatency,         \* seconds the remote end takes to read our message
    VerifyDelay,        \* seconds after start by which the remote end's
                        \* VERIFY has reached us
    GetTimeout,         \* seconds the parent's Get waits for a reply
    OtherPeers          \* the parent's Get also fans out to other peers

-----------------------------------------------------------------------------
(* checkConfig                                                             *)

PingInterval == IF PingIntervalCfg < 1 THEN 5 ELSE PingIntervalCfg
PingTimeout  == IF PingTimeoutCfg < 1 THEN 3 ELSE PingTimeoutCfg
PingFailureThreshHold == IF ThresholdCfg = 0 THEN 5 ELSE ThresholdCfg

\* the configuration checkConfig warns about: "pings will NEVER timeout"
WarnsNeverTimeout == PingTimeout > PingInterval

ASSUME /\ {PingIntervalCfg, PingTimeoutCfg, ThresholdCfg, ConnectRetries} \subseteq Int
       /\ Sync \in BOOLEAN
       /\ MaxLatency \in 0 .. PingInterval - 1
       /\ VerifyDelay \in Nat
       /\ GetTimeout \in Nat /\ OtherPeers \in BOOLEAN

\* handleVerifyOK's poller sleeps a second at a time, at most this often
PollBudget == 5

\* a stopped (or fired) timer has no due time; the remote VERIFY was sent
Disarmed == -1

\* GET_RSP with data, and GET_RSP with an empty body (the peer missed)
RspCodes == {"GET_RSP", "GET_RSP_EMPTY"}

Codes == {"VERIFY", "VERIFY_OK", "PONG"} \cup RspCodes

\* no non-empty reply has been handled yet
NoReply == [who |-> "none", inTime |-> FALSE]

VARIABLES
    jpc,            \* the join goroutine
    tries,          \* join's tries
    attempts,       \* history: connect calls made, when ConnectRetries > 0
    state,          \* r.state
    tickIn,         \* seconds until the ticker next fires
    tickC,          \* a tick is waiting in r.pingTimer.C
    timeoutIn,      \* seconds until r.pingTimeout fires, or Disarmed
    timeoutC,       \* an expiry is waiting in r.pingTimeout.C
    pingFailure,    \* r.pingFailure
    ppc,            \* the ping ticker actor
    wpc,            \* the ping-timeout watcher actor
    hpc,            \* handleMessage inside handlePong
    wire,           \* our messages the remote end has yet to read
    inq,            \* r.inboundMsgQueue: codes queued for handleMessage
    rverified,      \* the remote end has handled our VERIFY
    rvLeft,         \* seconds left for the remote end's VERIFY, or Disarmed
    alive,          \* the remote end still answers
    opc,            \* the handleVerifyOK poller goroutine
    pollLeft,       \* seconds left of the poller's time.Sleep
    count,          \* the poller's count
    syncSent,       \* a SYNC_REQ has been queued
    pend,           \* history: ages of PINGs whose PONG is not yet handled
    overdue,        \* history: some PING went PingTimeout seconds unanswered
    okAge,          \* history: seconds since VERIFY_OK was handled
    budgetMet,      \* history: Connected within PollBudget s of VERIFY_OK
    gpc,            \* the parent's Get (ClusterNode, spec 4.6)
    getLeft,        \* seconds left of the Get's wait on replyChan
    pending,        \* r.pendingGet holds the Get's pendingKey
    replyC,         \* a reply is waiting in replyChan (capacity 1)
    doneC,          \* the Get has closed done
    slotFrom,       \* who put the reply in replyChan: "ours" or "other"
    result,         \* what the Get returned
    first           \* history: the first non-empty reply handled while
                    \* the Get waited, and whether it came before the deadline

joinVars  == <<jpc, tries, attempts>>
timerVars == <<tickIn, tickC, timeoutIn, timeoutC>>
actorVars == <<pingFailure, ppc, wpc, hpc>>
linkVars  == <<wire, inq, rverified, rvLeft, alive>>
pollVars  == <<opc, pollLeft, count, syncSent>>
histVars  == <<pend, overdue, okAge, budgetMet>>
getVars   == <<gpc, getLeft, pending, replyC, doneC, slotFrom, result, first>>
vars == <<joinVars, state, timerVars, actorVars, linkVars, pollVars, histVars, getVars>>

TypeOK ==
    /\ jpc \in {"idle", "connect", "sleep", "start", "verify", "started", "gaveup"}
    /\ tries \in Nat /\ attempts \in Nat
    /\ state \in {"Disconnected", "Connecting", "Handshake", "Connected"}
    /\ tickIn \in 0 .. PingInterval
    /\ tickC \in BOOLEAN
    /\ timeoutIn \in {Disarmed} \cup 0 .. PingInterval + PingTimeout
    /\ timeoutC \in BOOLEAN
    /\ pingFailure \in 0 .. PingFailureThreshHold
    /\ ppc \in {"wait", "drain", "reset", "send"}
    /\ wpc \in {"wait", "count", "check", "fault"}
    /\ hpc \in {"idle", "drain", "zero"}
    /\ wire \in Seq([m : {"VERIFY", "PING", "GET_REQ"}, age : 0 .. MaxLatency])
    /\ inq \in Seq(Codes)
    /\ rverified \in BOOLEAN /\ alive \in BOOLEAN
    /\ rvLeft \in {Disarmed} \cup 0 .. VerifyDelay
    /\ opc \in {"none", "check", "sleep", "done"}
    /\ pollLeft \in 0 .. 1
    /\ count \in 0 .. PollBudget
    /\ syncSent \in BOOLEAN
    /\ pend \in Seq(0 .. PingTimeout - 1)
    /\ overdue \in BOOLEAN
    /\ okAge \in 0 .. PollBudget + 1
    /\ budgetMet \in BOOLEAN
    /\ gpc \in {"idle", "wait", "close", "cleanup", "done"}
    /\ getLeft \in 0 .. GetTimeout
    /\ pending \in BOOLEAN /\ replyC \in BOOLEAN /\ doneC \in BOOLEAN
    /\ slotFrom \in {"none", "ours", "other"}
    /\ result \in {"none", "ours", "other", "notfound"}
    /\ first \in [who : {"none", "ours", "other"}, inTime : BOOLEAN]

\* newRemoteNode: Disconnected, join's goroutine about to run.  The ticker,
\* the timer and the remote end's VERIFY are set up at start; no time
\* passes before it, so they hold their first due times from the outset.
Init ==
    /\ jpc = "idle" /\ tries = 0 /\ attempts = 0
    /\ state = "Disconnected"
    /\ tickIn = PingInterval /\ tickC = FALSE
    /\ timeoutIn = PingTimeout /\ timeoutC = FALSE
    /\ pingFailure = 0 /\ ppc = "send" /\ wpc = "wait" /\ hpc = "idle"
    /\ wire = << >> /\ inq = << >> /\ rverified = FALSE
    /\ rvLeft = VerifyDelay /\ alive = TRUE
    /\ opc = "none" /\ pollLeft = 0 /\ count = 0 /\ syncSent = FALSE
    /\ pend = << >> /\ overdue = FALSE /\ okAge = 0 /\ budgetMet = FALSE
    /\ gpc = "idle" /\ getLeft = GetTimeout /\ pending = FALSE
    /\ replyC = FALSE /\ doneC = FALSE /\ slotFrom = "none"
    /\ result = "none" /\ first = NoReply

\* start has run g.Run and the interrupts have not set Disconnected
Running == jpc \in {"verify", "started"} /\ state # "Disconnected"

\* Stop on r.pingTimeout: it disarms the timer, and returns true, only if
\* the timer had not yet fired
StopTimeout == IF timeoutIn # Disarmed THEN Disarmed ELSE timeoutIn
Stopped == timeoutIn # Disarmed

\* queueInboundMessage: in Handshake only VERIFY and VERIFY_OK are queued
Deliver(c) ==
    IF state = "Handshake" /\ c \notin {"VERIFY", "VERIFY_OK"} THEN inq ELSE Append(inq, c)

-----------------------------------------------------------------------------
(* join and connect, remoteNode.go 271-311                                 *)

joinStart ==
    /\ jpc = "idle"
    /\ jpc' = "connect" /\ state' = "Connecting"
    /\ UNCHANGED <<getVars, tries, attempts, timerVars, actorVars, linkVars, pollVars, histVars>>

Attempted == IF ConnectRetries > 0 THEN attempts + 1 ELSE attempts

\* comms.NewConnection succeeds (only to a live remote end), then
\* setState(Handshake); the loop breaks and join calls r.start()
connectOk ==
    /\ jpc = "connect" /\ alive
    /\ attempts' = Attempted
    /\ state' = "Handshake" /\ jpc' = "start"
    /\ UNCHANGED <<getVars, tries, timerVars, actorVars, linkVars, pollVars, histVars>>

\* the dial is refused or times out; join sleeps 3 seconds
connectFail ==
    /\ jpc = "connect"
    /\ attempts' = Attempted
    /\ jpc' = "sleep"
    /\ UNCHANGED <<getVars, tries, state, timerVars, actorVars, linkVars, pollVars, histVars>>

\* Mutant: one more attempt than configured
GiveUpLate(n) == n > ConnectRetries

\* tries >= r.config.ConnectRetries
GiveUp(n) == n >= ConnectRetries

\* after the sleep: if ConnectRetries > 0 { tries++; if tries >= ... {
\* eventUnableToConnect; return } }
joinRetry ==
    /\ jpc = "sleep"
    /\ IF ConnectRetries > 0
       THEN /\ tries' = tries + 1
            /\ jpc' = IF GiveUp(tries + 1) THEN "gaveup" ELSE "connect"
       ELSE jpc' = "connect" /\ UNCHANGED tries
    /\ UNCHANGED <<getVars, attempts, state, timerVars, actorVars, linkVars, pollVars, histVars>>

\* start: go g.Run() (every actor now runs), then r.sendVerify()
start ==
    /\ jpc = "start"
    /\ jpc' = "verify"
    /\ UNCHANGED <<getVars, tries, attempts, state, timerVars, actorVars, linkVars, pollVars, histVars>>

\* sendMessage(VERIFY) queues it unless the node is already Disconnected;
\* a dead remote end never reads it
sendVerify ==
    /\ jpc = "verify"
    /\ jpc' = "started"
    /\ wire' = IF Running /\ alive THEN Append(wire, [m |-> "VERIFY", age |-> 0]) ELSE wire
    /\ UNCHANGED <<getVars, tries, attempts, state, timerVars, actorVars, inq, rverified, rvLeft, alive, pollVars, histVars>>

-----------------------------------------------------------------------------
(* The runtime: the ticker and the timer fire                              *)

tickerFire ==
    /\ Running /\ tickIn = 0
    /\ tickIn' = PingInterval
    /\ tickC' = TRUE
    /\ UNCHANGED <<getVars, joinVars, state, timeoutIn, timeoutC, actorVars, linkVars, pollVars, histVars>>

timeoutFire ==
    /\ Running /\ timeoutIn = 0
    /\ timeoutIn' = Disarmed
    /\ timeoutC' = TRUE
    /\ UNCHANGED <<getVars, joinVars, state, tickIn, tickC, actorVars, linkVars, pollVars, histVars>>

-----------------------------------------------------------------------------
(* The ping ticker actor, remoteNode.go 145-167                            *)

\* case <-r.pingTimer.C: if !r.pingTimeout.Stop() { drain }
pingerTick ==
    /\ Running /\ ppc = "wait" /\ tickC
    /\ tickC' = FALSE
    /\ timeoutIn' = StopTimeout
    /\ ppc' = IF Stopped THEN "reset" ELSE "drain"
    /\ UNCHANGED <<getVars, joinVars, state, tickIn, timeoutC, pingFailure, wpc, hpc, linkVars, pollVars, histVars>>

\* select { case <-r.pingTimeout.C: default: }
pingerDrain ==
    /\ Running /\ ppc = "drain"
    /\ timeoutC' = FALSE
    /\ ppc' = "reset"
    /\ UNCHANGED <<getVars, joinVars, state, tickIn, tickC, timeoutIn, pingFailure, wpc, hpc, linkVars, pollVars, histVars>>

\* Mutant: the timer is re-armed with the ping interval
ResetDueInterval == PingInterval

\* r.pingTimeout.Reset(PingTimeout seconds)
ResetDue == PingTimeout

pingerReset ==
    /\ Running /\ ppc = "reset"
    /\ timeoutIn' = ResetDue
    /\ ppc' = "send"
    /\ UNCHANGED <<getVars, joinVars, state, tickIn, tickC, timeoutC, pingFailure, wpc, hpc, linkVars, pollVars, histVars>>

\* r.sendMessage(&message.PingMessage{}): the first PING right after the
\* ticker is made, then one per tick; the remote end reads it only while
\* it is alive
pingerSend ==
    /\ Running /\ ppc = "send"
    /\ wire' = IF alive THEN Append(wire, [m |-> "PING", age |-> 0]) ELSE wire
    /\ pend' = Append(pend, 0)
    /\ ppc' = "wait"
    /\ UNCHANGED <<getVars, joinVars, state, timerVars, pingFailure, wpc, hpc, inq, rverified, rvLeft, alive, pollVars, overdue, okAge, budgetMet>>

-----------------------------------------------------------------------------
(* The ping-timeout watcher actor, remoteNode.go 176-213                   *)

\* case <-r.pingTimeout.C
watcherRecv ==
    /\ Running /\ wpc = "wait" /\ timeoutC
    /\ timeoutC' = FALSE
    /\ wpc' = "count"
    /\ UNCHANGED <<getVars, joinVars, state, tickIn, tickC, timeoutIn, pingFailure, ppc, hpc, linkVars, pollVars, histVars>>

\* atomic.AddInt32(&r.pingFailure, 1), in Handshake as in Connected
watcherCount ==
    /\ Running /\ wpc = "count"
    /\ pingFailure' = pingFailure + 1
    /\ wpc' = "check"
    /\ UNCHANGED <<getVars, joinVars, state, timerVars, ppc, hpc, linkVars, pollVars, histVars>>

\* Mutant: the threshold is compared strictly
FaultReachedStrict(n) == n > PingFailureThreshHold

\* r.pingFailure >= r.config.PingFailureThreshHold
FaultReached(n) == n >= PingFailureThreshHold

\* if r.pingFailure >= threshold { r.pingTimeout.Stop(); fault = true; break }
\* The watcher returns and the run.Group's interrupts set Disconnected.
watcherCheck ==
    /\ Running /\ wpc = "check"
    /\ IF FaultReached(pingFailure)
       THEN /\ wpc' = "fault" /\ timeoutIn' = StopTimeout
            /\ state' = "Disconnected"
       ELSE wpc' = "wait" /\ UNCHANGED <<timeoutIn, state>>
    /\ UNCHANGED <<getVars, joinVars, tickIn, tickC, timeoutC, pingFailure, ppc, hpc, linkVars, pollVars, histVars>>

-----------------------------------------------------------------------------
(* handleMessage, remoteNode.go 423-452, 467-517, 526-537                  *)

\* handleVerify: eventVerifyRemoteNode admits the peer (setState(Connected);
\* the VERIFY_OK reply is not modelled) or rejects it (a duplicate id, or
\* both passive): handleMessage returns and the interrupts set Disconnected
handleVerify(admit) ==
    /\ Running /\ hpc = "idle" /\ inq # << >> /\ Head(inq) = "VERIFY"
    /\ inq' = Tail(inq)
    /\ state' = IF admit THEN "Connected" ELSE "Disconnected"
    /\ budgetMet' = (budgetMet \/ (admit /\ opc # "none" /\ okAge <= PollBudget))
    /\ UNCHANGED <<getVars, joinVars, timerVars, actorVars, wire, rverified, rvLeft, alive, pollVars, pend, overdue, okAge>>

\* handleVerifyOK: go func() { count := 0; for r.state == Handshake ... }
handleVerifyOK ==
    /\ Running /\ hpc = "idle" /\ inq # << >> /\ Head(inq) = "VERIFY_OK"
    /\ inq' = Tail(inq)
    /\ opc' = "check" /\ count' = 0
    /\ okAge' = 0 /\ budgetMet' = (state = "Connected")
    /\ UNCHANGED <<getVars, joinVars, state, timerVars, actorVars, wire, rverified, rvLeft, alive, pollLeft, syncSent, pend, overdue>>

\* Mutant: the timer is left running
pongStopKept == timeoutIn

pongStop == StopTimeout

\* handlePong: if !r.pingTimeout.Stop() { drain }; the PONG answers the
\* oldest PING still waiting
handlePong ==
    /\ Running /\ hpc = "idle" /\ inq # << >> /\ Head(inq) = "PONG"
    /\ inq' = Tail(inq)
    /\ timeoutIn' = pongStop
    /\ hpc' = IF Stopped THEN "zero" ELSE "drain"
    /\ pend' = IF pend = << >> THEN pend ELSE Tail(pend)
    /\ UNCHANGED <<getVars, joinVars, state, tickIn, tickC, timeoutC, pingFailure, ppc, wpc, wire, rverified, rvLeft, alive, pollVars, overdue, okAge, budgetMet>>

\* select { case <-r.pingTimeout.C: default: }
pongDrain ==
    /\ Running /\ hpc = "drain"
    /\ timeoutC' = FALSE
    /\ hpc' = "zero"
    /\ UNCHANGED <<getVars, joinVars, state, tickIn, tickC, timeoutIn, pingFailure, ppc, wpc, linkVars, pollVars, histVars>>

\* Mutant: the failure count is left as it is
FailureKept == pingFailure

\* atomic.StoreInt32(&r.pingFailure, 0)
FailureCleared == 0

pongZero ==
    /\ Running /\ hpc = "zero"
    /\ pingFailure' = FailureCleared
    /\ hpc' = "idle"
    /\ UNCHANGED <<getVars, joinVars, state, timerVars, ppc, wpc, linkVars, pollVars, histVars>>

-----------------------------------------------------------------------------
(* The handleVerifyOK poller, remoteNode.go 500-517; it is not one of the  *)
(* run.Group's actors and outlives the node                                *)

\* Mutant: sendMessage without its Disconnected check
SyncSendsDisconnected == count < PollBudget /\ Sync

\* if count < 5 { if r.config.Sync { r.sendMessage(SyncReq) } }, and
\* sendMessage returns at once on a Disconnected node
SyncSends == count < PollBudget /\ Sync /\ state # "Disconnected"

\* for r.state == nodeStateHandshake { time.Sleep(1s) ... }, else leave
\* the loop and send the SYNC_REQ
pollCheck ==
    /\ opc = "check"
    /\ IF state = "Handshake"
       THEN opc' = "sleep" /\ pollLeft' = 1 /\ UNCHANGED syncSent
       ELSE opc' = "done" /\ syncSent' = (syncSent \/ SyncSends) /\ UNCHANGED pollLeft
    /\ UNCHANGED <<getVars, joinVars, state, timerVars, actorVars, linkVars, count, histVars>>

\* count++; if count >= 5 { warn; break }: the loop is left without
\* reading the state again, and no SYNC_REQ is sent
pollWake ==
    /\ opc = "sleep" /\ pollLeft = 0
    /\ count' = count + 1
    /\ opc' = IF count + 1 >= PollBudget THEN "done" ELSE "check"
    /\ UNCHANGED <<getVars, joinVars, state, timerVars, actorVars, linkVars, pollLeft, syncSent, histVars>>

-----------------------------------------------------------------------------
(* The cross-peer Get: the parent's Get calls getData, remoteNode.go       *)
(* 577-584, and handleMessage's handleGetResponse, 593-614, resolves it    *)

\* ClusterNode.Get on a local miss (spec 4.6) allocates replyChan and done
\* and calls getData on each node of its registry: if r.state is not
\* Disconnected, r.pendingGet.Store(pendingKey) and sendMessage(GET_REQ)
getStart ==
    /\ gpc = "idle" /\ jpc = "started" /\ state \in {"Connected", "Disconnected"}
    /\ gpc' = "wait" /\ getLeft' = GetTimeout
    /\ pending' = Running
    /\ wire' = IF Running /\ alive THEN Append(wire, [m |-> "GET_REQ", age |-> 0]) ELSE wire
    /\ UNCHANGED <<joinVars, state, timerVars, actorVars, inq, rverified, rvLeft, alive,
                   pollVars, histVars, replyC, doneC, slotFrom, result, first>>

\* the first non-empty reply handled while the Get waits
FirstOf(who) ==
    IF first = NoReply THEN [who |-> who, inTime |-> getLeft > 0] ELSE first

\* the handleGetResponse of another node the Get fanned out to: its
\* select puts its data in replyChan while there is room
otherReply ==
    /\ OtherPeers /\ gpc = "wait" /\ ~replyC
    /\ replyC' = TRUE /\ slotFrom' = "other"
    /\ first' = FirstOf("other")
    /\ UNCHANGED <<joinVars, state, timerVars, actorVars, linkVars, pollVars, histVars,
                   gpc, getLeft, pending, doneC, result>>

\* Mutant: the empty-body check is dropped
HasDataAny(c) == TRUE

\* if len(rspMsg.Data) < 1 { return }
HasData(c) == c = "GET_RSP"

\* select { case <-reqData.done: case reqData.replyChan <- data: default: }
\* picks one ready case at random, and default only when none is ready
SelectCases ==
    LET ready == {k \in {"done", "send"} : IF k = "done" THEN doneC ELSE ~replyC}
    IN  IF ready = {} THEN {"default"} ELSE ready

\* pendingGet.Load(pendingKey), returning if it is not there; Delete; the
\* empty-body return; and the select
handleGetResponse(c) ==
    /\ Running /\ hpc = "idle" /\ inq # << >> /\ Head(inq) = c
    /\ inq' = Tail(inq)
    /\ pending' = FALSE
    /\ first' = IF c = "GET_RSP" /\ gpc = "wait" THEN FirstOf("ours") ELSE first
    /\ IF pending /\ HasData(c)
       THEN \E k \in SelectCases :
               /\ replyC' = (replyC \/ k = "send")
               /\ slotFrom' = IF k = "send" THEN "ours" ELSE slotFrom
       ELSE UNCHANGED <<replyC, slotFrom>>
    /\ UNCHANGED <<joinVars, state, timerVars, actorVars, wire, rverified, rvLeft, alive,
                   pollVars, histVars, gpc, getLeft, doneC, result>>

\* the Get's wait: a reply from replyChan, or the timeout (a select: when
\* both are ready in the same second either may win)
getReceive ==
    /\ gpc = "wait" /\ replyC
    /\ replyC' = FALSE /\ result' = slotFrom /\ gpc' = "close"
    /\ UNCHANGED <<joinVars, state, timerVars, actorVars, linkVars, pollVars, histVars,
                   getLeft, pending, doneC, slotFrom, first>>

getTimeout ==
    /\ gpc = "wait" /\ getLeft = 0
    /\ result' = "notfound" /\ gpc' = "close"
    /\ UNCHANGED <<joinVars, state, timerVars, actorVars, linkVars, pollVars, histVars,
                   getLeft, pending, replyC, doneC, slotFrom, first>>

\* then close(done), and the pending entries are cleaned up
getClose ==
    /\ gpc = "close"
    /\ doneC' = TRUE /\ gpc' = "cleanup"
    /\ UNCHANGED <<joinVars, state, timerVars, actorVars, linkVars, pollVars, histVars,
                   getLeft, pending, replyC, slotFrom, result, first>>

getCleanup ==
    /\ gpc = "cleanup"
    /\ pending' = FALSE /\ gpc' = "done"
    /\ UNCHANGED <<joinVars, state, timerVars, actorVars, linkVars, pollVars, histVars,
                   getLeft, replyC, doneC, slotFrom, result, first>>

-----------------------------------------------------------------------------
(* The remote end                                                          *)

\* The remote end's answer to a PING, and its handleGetRequest: the GET_RSP
\* carries what its cache.Get returned, empty on a miss
Answer(m, hit) ==
    CASE m = "PING" -> "PONG"
      [] m = "GET_REQ" /\ hit -> "GET_RSP"
      [] m = "GET_REQ" /\ ~hit -> "GET_RSP_EMPTY"

\* it reads our oldest message: our VERIFY makes it Connected and it
\* replies VERIFY_OK; a PING or GET_REQ it answers only once it has
\* handled our VERIFY (in Handshake it drops everything else)
remoteRead(hit) ==
    /\ Running /\ alive /\ wire # << >>
    /\ wire' = Tail(wire)
    /\ IF Head(wire).m = "VERIFY"
       THEN rverified' = TRUE /\ inq' = Deliver("VERIFY_OK")
       ELSE inq' = (IF rverified THEN Deliver(Answer(Head(wire).m, hit)) ELSE inq) /\ UNCHANGED rverified
    /\ UNCHANGED <<getVars, joinVars, state, timerVars, actorVars, rvLeft, alive, pollVars, histVars>>

\* the VERIFY its own start sent reaches our networkConsumer
remoteVerify ==
    /\ Running /\ alive /\ rvLeft # Disarmed
    /\ inq' = Deliver("VERIFY")
    /\ rvLeft' = Disarmed
    /\ UNCHANGED <<getVars, joinVars, state, timerVars, actorVars, wire, rverified, alive, pollVars, histVars>>

\* the remote end stops answering (it hangs, or the network drops)
remoteDies ==
    /\ alive /\ state # "Disconnected"
    /\ alive' = FALSE
    /\ wire' = << >> /\ rvLeft' = Disarmed
    /\ UNCHANGED <<getVars, joinVars, state, timerVars, actorVars, inq, rverified, pollVars, histVars>>

-----------------------------------------------------------------------------
(* The clock                                                               *)

\* every goroutine is blocked and nothing is due in this second
Quiescent ==
    /\ opc # "check" /\ (opc = "sleep" => pollLeft > 0)
    /\ gpc \notin {"close", "cleanup"} /\ (gpc = "wait" => getLeft > 0 /\ ~replyC)
    /\ Running =>
        /\ jpc = "started"
        /\ tickIn > 0 /\ timeoutIn # 0 /\ ~tickC /\ ~timeoutC
        /\ ppc = "wait" /\ wpc = "wait" /\ hpc = "idle" /\ inq = << >>
        /\ \A i \in 1 .. Len(wire) : wire[i].age < MaxLatency
        /\ rvLeft # 0

\* PINGs still waiting, a second older; those reaching PingTimeout are over
Aged == [i \in 1 .. Len(pend) |-> pend[i] + 1]

secondPasses ==
    /\ Quiescent /\ (Running \/ opc = "sleep" \/ gpc = "wait")
    /\ IF Running
       THEN /\ tickIn' = tickIn - 1
            /\ timeoutIn' = IF timeoutIn = Disarmed THEN Disarmed ELSE timeoutIn - 1
            /\ wire' = [i \in 1 .. Len(wire) |-> [wire[i] EXCEPT !.age = @ + 1]]
            /\ rvLeft' = IF rvLeft = Disarmed THEN Disarmed ELSE rvLeft - 1
            /\ pend' = SelectSeq(Aged, LAMBDA a : a < PingTimeout)
            /\ overdue' = (overdue \/ \E i \in 1 .. Len(pend) : Aged[i] = PingTimeout)
       ELSE UNCHANGED <<tickIn, timeoutIn, wire, rvLeft, pend, overdue>>
    /\ pollLeft' = 0
    /\ okAge' = IF opc = "none" \/ okAge > PollBudget THEN okAge ELSE okAge + 1
    /\ getLeft' = IF gpc = "wait" THEN getLeft - 1 ELSE getLeft
    /\ UNCHANGED <<joinVars, state, tickC, timeoutC, actorVars, inq, rverified, alive, opc, count, syncSent, budgetMet,
                   gpc, pending, replyC, doneC, slotFrom, result, first>>

\* nothing of the node is left to run: join gave up, or the node is down
\* and its poller has finished
Finished ==
    /\ ~Running /\ jpc \in {"started", "gaveup"} /\ opc \in {"none", "done"}
    /\ gpc \in {"idle", "done"}
    /\ UNCHANGED vars

Next ==
    \/ joinStart \/ connectOk \/ connectFail \/ joinRetry \/ start \/ sendVerify
    \/ tickerFire \/ timeoutFire
    \/ pingerTick \/ pingerDrain \/ pingerReset \/ pingerSend
    \/ watcherRecv \/ watcherCount \/ watcherCheck
    \/ \E admit \in BOOLEAN : handleVerify(admit)
    \/ handleVerifyOK \/ handlePong \/ pongDrain \/ pongZero
    \/ pollCheck \/ pollWake
    \/ getStart \/ otherReply \/ \E c \in RspCodes : handleGetResponse(c)
    \/ getReceive \/ getTimeout \/ getClose \/ getCleanup
    \/ \E hit \in BOOLEAN : remoteRead(hit)
    \/ remoteVerify \/ remoteDies
    \/ secondPasses \/ Finished

\* Goroutines that can run do; the runtime fires due timers; the remote
\* end, while alive, reads what we send; time passes.  Dying is not fair,
\* and neither is a dial's outcome, the parent's call of Get, or whether
\* another peer answers it.
Fairness ==
    /\ WF_vars(joinStart) /\ WF_vars(connectOk \/ connectFail)
    /\ WF_vars(joinRetry) /\ WF_vars(start) /\ WF_vars(sendVerify)
    /\ WF_vars(tickerFire) /\ WF_vars(timeoutFire)
    /\ WF_vars(pingerTick) /\ WF_vars(pingerDrain) /\ WF_vars(pingerReset) /\ WF_vars(pingerSend)
    /\ WF_vars(watcherRecv) /\ WF_vars(watcherCount) /\ WF_vars(watcherCheck)
    /\ WF_vars(\E admit \in BOOLEAN : handleVerify(admit))
    /\ WF_vars(handleVerifyOK) /\ WF_vars(handlePong) /\ WF_vars(pongDrain) /\ WF_vars(pongZero)
    /\ WF_vars(pollCheck) /\ WF_vars(pollWake)
    /\ WF_vars(\E c \in RspCodes : handleGetResponse(c))
    /\ WF_vars(getReceive \/ getTimeout) /\ WF_vars(getClose) /\ WF_vars(getCleanup)
    /\ WF_vars(\E hit \in BOOLEAN : remoteRead(hit)) /\ WF_vars(remoteVerify) /\ WF_vars(secondPasses)

Spec == Init /\ [][Next]_vars /\ Fairness

-----------------------------------------------------------------------------
(* Properties                                                              *)

\* A started node whose remote end stops answering is eventually brought
\* down: every ticker tick re-arms r.pingTimeout, and the timer must still
\* get to fire and reach the watcher before the next tick's Stop and
\* Reset, so that pingFailure climbs to the threshold.
SilentPeerDetected == (~alive /\ jpc = "started") ~> ~Running

\* While the remote end is alive and every PING has had its PONG handled
\* within PingTimeout seconds, no ping failure is ever counted: handlePong's
\* Stop keeps each answered PING's timer from firing, and the ticker's Stop,
\* drain and Reset re-arm it for the next PING only.  A PING the remote
\* end drops before it has our VERIFY, or a PONG our Handshake filter
\* drops, stays unanswered and makes the PING overdue.
NoSpuriousTimeout == pingFailure > 0 => (overdue \/ ~alive)

\* The ping watcher brings a node down only when its remote end has stopped
\* answering: a PING dropped by the remote end before it has our VERIFY
\* (the pinger's first PING races sendVerify), PONGs our Handshake filter
\* drops, and late PONGs that land after an expiry each count one failure,
\* but handlePong's StoreInt32(0) clears them before they reach the
\* threshold.
FaultOnlyForSilentPeer == wpc = "fault" => ~alive

\* join makes at most ConnectRetries connect attempts (spec: "max connect
\* attempts per peer") and reports eventUnableToConnect only after exactly
\* that many have failed.
JoinGivesUpAfterRetries ==
    ConnectRetries > 0 =>
        /\ attempts <= ConnectRetries
        /\ (jpc = "gaveup" => attempts = ConnectRetries)

\* The poller queues a SYNC_REQ only once this node has admitted the peer
\* (Connected) within the poll budget after VERIFY_OK: a handshake that is
\* rejected while the poller sleeps, which sets Disconnected and so also
\* ends the poller's loop with count < 5, sends none.
SyncOnlyAfterAdmission == syncSent => budgetMet

\* Spec 4.5: on VERIFY_OK the poller waits up to 5 seconds for Connected and
\* then, with Sync, sends SYNC_REQ: a peer admitted within that budget is
\* eventually sent one.
SyncWithinBudget == budgetMet ~> syncSent

\* Spec 8 (First-reply-wins): the Get returns the first non-empty reply
\* handled while it waited, whichever peer's handleGetResponse that was,
\* and never an empty one: handleGetResponse returns on an empty body, and
\* a later reply finds replyChan full and takes the select's default.  A
\* timeout wins only over a reply that came in the second the Get was due.
FirstReplyWins ==
    gpc \in {"close", "cleanup", "done"} =>
        \/ first # NoReply /\ result = first.who
        \/ result = "notfound" /\ (first = NoReply \/ ~first.inTime)

=============================================================================
