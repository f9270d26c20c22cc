----------------------------- MODULE RemoteNode -----------------------------
(***************************************************************************)
(* One remoteNode of src/Cluster/remoteNode.go from start() to tearDown(). *)
(*                                                                         *)
(* start() takes a temporary wg.Add(1) and hands seven actors to a         *)
(* run.Group whose Run() is started in a goroutine; then it sends VERIFY.  *)
(* The actors are goroutines: "done" (waits on r.done), "pinger" (ping     *)
(* ticker), "watcher" (ping-timeout timer), "consumer" (networkConsumer),  *)
(* "handler" (handleMessage), "sender" (networkSender) and "teardown"      *)
(* (wg.Wait then tearDown).  When the first actor returns, Run() calls the *)
(* seven interrupt functions in the order they were added; each is a step  *)
(* of its own.                                                             *)
(*                                                                         *)
(* The parent ClusteredBigCache appears through the calls it makes on the  *)
(* node: shutDown() and getData() (from its Get fan-out).  The remote end  *)
(* writes messages to our socket and may hang up.  Time is abstracted: a   *)
(* ticker tick and a ping-timeout fault may happen at any moment.          *)
(***************************************************************************)
EXTENDS Integers, Sequences, FiniteSets

CONSTANTS
    ChanSize,     \* CHAN_SIZE, capacity of inboundMsgQueue and outboundMsgQueue
    RemoteCodes,  \* message codes the remote end may send
    RemoteMsgs,   \* how many messages the remote end sends at most
    MaxPings,     \* ping ticker ticks explored
    PassivePair,  \* both this node and the remote one are PASSIVE
    ParentCalls,  \* the calls the parent makes: "shutDown", "getData"
    PingFailureThreshHold, \* config.PingFailureThreshHold after checkConfig
    None

\* Message codes (message.Msg*); "PUT" stands for every code whose handler
\* only touches the cache or the parent.
Codes == {"VERIFY", "VERIFY_OK", "PING", "PONG", "GET_REQ", "GET_RSP", "PUT"}

\* the codes queueInboundMessage lets through while in Handshake
HandshakeCodes == {"VERIFY", "VERIFY_OK"}

\* the message a handler answers a code with (handlePing, handleGetRequest)
Reply(c) == CASE c = "PING"    -> "PONG"
              [] c = "GET_REQ" -> "GET_RSP"
              [] OTHER         -> None

ASSUME /\ ChanSize \in Nat \ {0}
       /\ RemoteCodes \subseteq Codes
       /\ RemoteMsgs \in Nat /\ MaxPings \in Nat
       /\ PassivePair \in BOOLEAN
       /\ ParentCalls \subseteq {"shutDown", "getData"}
       /\ PingFailureThreshHold \in Nat \ {0}
       /\ None \notin Codes

\* nodeStateConnecting .. nodeStateHandshake
States == {"Connecting", "Connected", "Disconnected", "Handshake"}

Actors  == {"done", "pinger", "watcher", "consumer", "handler", "sender", "teardown"}
Workers == {"pinger", "watcher", "consumer", "handler", "sender"}

\* Channels closed by the interrupt functions, and the connection
Closable == {"done", "pingDone", "timeoutDone", "inbound", "outbound", "conn"}

VARIABLES
    state,        \* r.state
    actor,        \* each actor goroutine: "launched", "running" or "returned"
    added,        \* actors that have executed their r.wg.Add(1)
    wg,           \* the WaitGroup counter
    intr,         \* how many interrupt functions Run() has called
    closed,       \* channels (and the connection) closed so far
    inbound,      \* r.inboundMsgQueue
    outbound,     \* r.outboundMsgQueue
    remoteSent,   \* messages the remote end has written
    remoteClosed, \* the remote end hung up
    timerMade,    \* r.pingTimeout has been assigned by the watcher
    pendingNil,   \* r.pendingGet has been set to nil by tearDown
    cpc, cmsg,    \* consumer: where it is, the message it read
    hpc, hmsg,    \* handler: where it is, the message it handles or sends
    ppc, pings,   \* pinger: where it is, ticks taken
    spc,          \* start(): whether sendVerify has run
    gpc,          \* parent's getData call
    registered,   \* the parent holds this node in its remoteNodes registry
    shutdown,     \* parent has called shutDown()
    tornDown,     \* tearDown() has run
    crashed       \* an unrecovered panic: None, "pendingGet" or "pingTimeout"

vars == <<state, actor, added, wg, intr, closed, inbound, outbound,
          remoteSent, remoteClosed, timerMade, pendingNil, cpc, cmsg,
          hpc, hmsg, ppc, pings, spc, gpc, registered, shutdown, tornDown, crashed>>

TypeOK ==
    /\ state \in States
    /\ actor \in [Actors -> {"launched", "running", "returned"}]
    /\ added \subseteq Actors
    /\ wg \in 0 .. Cardinality(Actors) + 1
    /\ intr \in 0 .. 7
    /\ closed \subseteq Closable
    /\ inbound \in Seq(Codes) /\ Len(inbound) <= ChanSize
    /\ outbound \in Seq(Codes) /\ Len(outbound) <= ChanSize
    /\ remoteSent \in 0 .. RemoteMsgs
    /\ remoteClosed \in BOOLEAN /\ timerMade \in BOOLEAN /\ pendingNil \in BOOLEAN
    /\ cpc \in {"loop", "read", "queue"} /\ cmsg \in Codes \cup {None}
    /\ hpc \in {"recv", "verify", "send"} /\ hmsg \in Codes \cup {None}
    /\ ppc \in {"first", "add", "loop", "send"} /\ pings \in 0 .. MaxPings
    /\ spc \in {"verify", "done"}
    /\ gpc \in {"idle", "store", "send", "done"}
    /\ registered \in BOOLEAN /\ shutdown \in BOOLEAN /\ tornDown \in BOOLEAN
    /\ crashed \in {None, "pendingGet", "pingTimeout"}

-----------------------------------------------------------------------------
(* sendMessage: drop when Disconnected, else select on r.done and on the   *)
(* outbound queue; a send on the closed queue panics and is recovered.     *)
(* The possible next values of the outbound queue; empty while blocked.   *)

\* Mutant: the send never blocks on a full queue.
SendResultsUnbounded(code) ==
    IF state = "Disconnected" THEN {outbound}
    ELSE (IF {"done", "outbound"} \cap closed # {} THEN {outbound} ELSE {})
         \cup (IF "outbound" \notin closed THEN {Append(outbound, code)} ELSE {})

SendResults(code) ==
    IF state = "Disconnected" THEN {outbound}
    ELSE (IF {"done", "outbound"} \cap closed # {} THEN {outbound} ELSE {})
         \cup (IF "outbound" \notin closed /\ Len(outbound) < ChanSize
                 THEN {Append(outbound, code)} ELSE {})

\* No unrecovered panic has stopped the process.
Alive == crashed = None

\* A step of goroutine `a` that ends it: wg.Done() if it had added itself.
Return(a) ==
    /\ actor' = [actor EXCEPT ![a] = "returned"]
    /\ wg' = IF a \in added THEN wg - 1 ELSE wg

-----------------------------------------------------------------------------

Init ==
    /\ state = "Handshake"                 \* set by connect() or on accept
    \* the teardown actor only waits on r.wg: running it at once is the same
    /\ actor = [a \in Actors |-> IF a = "teardown" THEN "running" ELSE "launched"]
    /\ added = {}
    /\ wg = 1                              \* the temporary increment
    /\ intr = 0
    /\ closed = {}
    /\ inbound = << >> /\ outbound = << >>
    /\ remoteSent = 0 /\ remoteClosed = FALSE
    /\ timerMade = FALSE /\ pendingNil = FALSE
    /\ cpc = "loop" /\ cmsg = None
    /\ hpc = "recv" /\ hmsg = None
    /\ ppc = "first" /\ pings = 0
    /\ spc = "verify"
    /\ gpc = "idle"
    /\ registered = FALSE
    /\ shutdown = FALSE /\ tornDown = FALSE
    /\ crashed = None

remoteVars   == <<remoteSent, remoteClosed>>
consumerVars == <<cpc, cmsg>>
handlerVars  == <<hpc, hmsg>>
pingerVars   == <<ppc, pings>>

\* Mutant: the handler adds itself to r.wg late, like the pinger.
LaunchNoHandlerAdd(a) ==
    /\ actor[a] = "launched"
    /\ a # "watcher"
    /\ actor' = [actor EXCEPT ![a] = "running"]
    /\ IF a \in {"consumer", "sender"}
         THEN added' = added \cup {a} /\ wg' = wg + 1
         ELSE UNCHANGED <<added, wg>>
    /\ UNCHANGED <<state, intr, closed, inbound, outbound, remoteVars,
                   timerMade, pendingNil, consumerVars, handlerVars, pingerVars,
                   spc, gpc, registered, shutdown, tornDown, crashed>>

\* An actor goroutine begins to run.  consumer, handler and sender call
\* r.wg.Add(1) first thing; the pinger adds itself later and the watcher
\* starts in watcherStart; the done and teardown actors never add.
Launch(a) ==
    /\ Alive
    /\ actor[a] = "launched"
    /\ a # "watcher"
    /\ actor' = [actor EXCEPT ![a] = "running"]
    /\ IF a \in {"consumer", "handler", "sender"}
         THEN added' = added \cup {a} /\ wg' = wg + 1
         ELSE UNCHANGED <<added, wg>>
    /\ UNCHANGED <<state, intr, closed, inbound, outbound, remoteVars,
                   timerMade, pendingNil, consumerVars, handlerVars, pingerVars,
                   spc, gpc, registered, shutdown, tornDown, crashed>>

\* start(): r.sendVerify() after `go g.Run()`
sendVerify ==
    /\ Alive
    /\ spc = "verify"
    /\ \E q \in SendResults("VERIFY") : outbound' = q
    /\ spc' = "done"
    /\ UNCHANGED <<state, actor, added, wg, intr, closed, inbound, remoteVars,
                   timerMade, pendingNil, consumerVars, handlerVars,
                   pingerVars, gpc, registered, shutdown, tornDown, crashed>>

-----------------------------------------------------------------------------
(* The ping-timer actor                                                    *)

\* r.sendMessage(&message.PingMessage{}) before the loop, then r.wg.Add(1)
pingerFirst ==
    /\ Alive
    /\ actor["pinger"] = "running" /\ ppc = "first"
    /\ \E q \in SendResults("PING") : outbound' = q
    /\ ppc' = "add"
    /\ UNCHANGED <<state, actor, added, wg, intr, closed, inbound, remoteVars,
                   timerMade, pendingNil, consumerVars, handlerVars,
                   pings, spc, gpc, registered, shutdown, tornDown, crashed>>

pingerAdd ==
    /\ Alive
    /\ actor["pinger"] = "running" /\ ppc = "add"
    /\ added' = added \cup {"pinger"} /\ wg' = wg + 1
    /\ ppc' = "loop"
    /\ UNCHANGED <<state, actor, intr, closed, inbound, outbound, remoteVars,
                   timerMade, pendingNil, consumerVars, handlerVars,
                   pings, spc, gpc, registered, shutdown, tornDown, crashed>>

\* <-r.pingTimer.C: r.pingTimeout.Stop() and Reset(), then send a PING.
\* r.pingTimeout is assigned by the watcher goroutine; before that it is nil.
pingerTick ==
    /\ Alive
    /\ ppc = "loop" /\ actor["pinger"] = "running"
    /\ pings < MaxPings
    /\ pings' = pings + 1
    /\ IF timerMade THEN ppc' = "send" /\ UNCHANGED crashed
                    ELSE crashed' = "pingTimeout" /\ UNCHANGED ppc
    /\ UNCHANGED <<state, actor, added, wg, intr, closed, inbound, outbound,
                   remoteVars, timerMade, pendingNil, consumerVars,
                   handlerVars, spc, gpc, registered, shutdown, tornDown>>

pingerSend ==
    /\ Alive
    /\ actor["pinger"] = "running" /\ ppc = "send"
    /\ \E q \in SendResults("PING") : outbound' = q
    /\ ppc' = "loop"
    /\ UNCHANGED <<state, actor, added, wg, intr, closed, inbound, remoteVars,
                   timerMade, pendingNil, consumerVars, handlerVars,
                   pings, spc, gpc, registered, shutdown, tornDown, crashed>>

\* <-done (closed by this actor's interrupt): wg.Done() and return
pingerExit ==
    /\ Alive
    /\ ppc = "loop" /\ actor["pinger"] = "running"
    /\ "pingDone" \in closed
    /\ Return("pinger")
    /\ UNCHANGED <<state, added, intr, closed, inbound, outbound, remoteVars,
                   timerMade, pendingNil, consumerVars, handlerVars,
                   pingerVars, spc, gpc, registered, shutdown, tornDown, crashed>>

-----------------------------------------------------------------------------
(* The ping-timeout actor                                                  *)

\* r.pingTimeout = time.NewTimer(...), then r.wg.Add(1)
watcherStart ==
    /\ Alive
    /\ actor["watcher"] = "launched"
    /\ actor' = [actor EXCEPT !["watcher"] = "running"]
    /\ timerMade' = TRUE
    /\ added' = added \cup {"watcher"} /\ wg' = wg + 1
    /\ UNCHANGED <<state, intr, closed, inbound, outbound, remoteVars,
                   pendingNil, consumerVars, handlerVars, pingerVars, spc, gpc,
                   registered, shutdown, tornDown, crashed>>

\* <-r.pingTimeout.C often enough that pingFailure reaches the threshold:
\* the actor returns (fault), which stops the whole group.  Each expiry
\* after the one of the timer NewTimer made needs a tick's Reset, so the
\* fault takes at least PingFailureThreshHold - 1 ticks.
watcherFault ==
    /\ Alive
    /\ actor["watcher"] = "running"
    /\ pings >= PingFailureThreshHold - 1
    /\ Return("watcher")
    /\ UNCHANGED <<state, added, intr, closed, inbound, outbound, remoteVars,
                   timerMade, pendingNil, consumerVars, handlerVars,
                   pingerVars, spc, gpc, registered, shutdown, tornDown, crashed>>

watcherExit ==
    /\ Alive
    /\ actor["watcher"] = "running"
    /\ "timeoutDone" \in closed
    /\ Return("watcher")
    /\ UNCHANGED <<state, added, intr, closed, inbound, outbound, remoteVars,
                   timerMade, pendingNil, consumerVars, handlerVars,
                   pingerVars, spc, gpc, registered, shutdown, tornDown, crashed>>

-----------------------------------------------------------------------------
(* networkConsumer and queueInboundMessage                                 *)

\* The loop condition: keep reading while Connected or in Handshake.
consumerLoop ==
    /\ Alive
    /\ actor["consumer"] = "running" /\ cpc = "loop"
    /\ IF state \in {"Connected", "Handshake"}
         THEN cpc' = "read" /\ UNCHANGED <<actor, wg>>
         ELSE Return("consumer") /\ UNCHANGED cpc
    /\ UNCHANGED <<state, added, intr, closed, inbound, outbound, remoteVars,
                   timerMade, pendingNil, cmsg, handlerVars, pingerVars,
                   spc, gpc, registered, shutdown, tornDown, crashed>>

\* r.connection.ReadData blocks until a message arrives or the connection
\* fails (the remote end hung up, or connection.Close() in an interrupt).
\* Only this goroutine reads the socket, so the remote end's write of a
\* message is folded into the read that returns it.
consumerRead ==
    /\ Alive
    /\ actor["consumer"] = "running" /\ cpc = "read"
    /\ \/ /\ remoteClosed \/ "conn" \in closed
          /\ Return("consumer")
          /\ UNCHANGED <<cpc, cmsg, remoteSent>>
       \/ /\ ~(remoteClosed \/ "conn" \in closed)
          /\ remoteSent < RemoteMsgs
          /\ \E c \in RemoteCodes : cmsg' = c
          /\ remoteSent' = remoteSent + 1
          /\ cpc' = "queue"
          /\ UNCHANGED <<actor, wg>>
    /\ UNCHANGED <<state, added, intr, closed, inbound, outbound,
                   remoteClosed, timerMade, pendingNil, handlerVars,
                   pingerVars, spc, gpc, registered, shutdown, tornDown, crashed>>

\* The possible next values of the inbound queue for message m: dropped in
\* Handshake unless VERIFY or VERIFY_OK, dropped when Disconnected, else a
\* select on r.done and on the queue (a send on the closed queue panics and
\* is recovered).  Empty while blocked.
\* Mutant: queueInboundMessage without the Handshake filter.
InboundResultsUnfiltered(m) ==
    IF state = "Disconnected" THEN {inbound}
    ELSE (IF {"done", "inbound"} \cap closed # {} THEN {inbound} ELSE {})
         \cup (IF "inbound" \notin closed /\ Len(inbound) < ChanSize
                 THEN {Append(inbound, m)} ELSE {})

InboundResults(m) ==
    IF \/ state = "Handshake" /\ m \notin HandshakeCodes
       \/ state = "Disconnected"
    THEN {inbound}
    ELSE (IF {"done", "inbound"} \cap closed # {} THEN {inbound} ELSE {})
         \cup (IF "inbound" \notin closed /\ Len(inbound) < ChanSize
                 THEN {Append(inbound, m)} ELSE {})

consumerQueue ==
    /\ Alive
    /\ actor["consumer"] = "running" /\ cpc = "queue"
    /\ \E q \in InboundResults(cmsg) : inbound' = q
    /\ cpc' = "loop" /\ cmsg' = None
    /\ UNCHANGED <<state, actor, added, wg, intr, closed, outbound, remoteVars,
                   timerMade, pendingNil, handlerVars, pingerVars,
                   spc, gpc, registered, shutdown, tornDown, crashed>>

-----------------------------------------------------------------------------
(* handleMessage                                                           *)

\* `for msg := range r.inboundMsgQueue`: skip when Disconnected, else
\* dispatch.  handlePong stops r.pingTimeout, nil until the watcher starts.
\* handleVerifyOK only starts a poller that may send SYNC_REQ, and PUT,
\* DEL and GET_RSP only touch the cache and the pending-get map.
handlerRecv ==
    /\ Alive
    /\ actor["handler"] = "running" /\ hpc = "recv"
    /\ \/ /\ inbound = << >> /\ "inbound" \in closed
          /\ Return("handler")
          /\ UNCHANGED <<inbound, handlerVars, crashed>>
       \/ /\ inbound # << >>
          /\ inbound' = Tail(inbound)
          /\ LET m == Head(inbound) IN
             \/ /\ state = "Disconnected" \/ m \in {"VERIFY_OK", "GET_RSP", "PUT"}
                /\ UNCHANGED <<handlerVars, crashed>>
             \/ /\ state # "Disconnected" /\ m = "VERIFY"
                /\ hpc' = "verify" /\ hmsg' = m
                /\ UNCHANGED crashed
             \/ /\ state # "Disconnected" /\ Reply(m) # None
                /\ hpc' = "send" /\ hmsg' = Reply(m)
                /\ UNCHANGED crashed
             \/ /\ state # "Disconnected" /\ m = "PONG"
                /\ crashed' = IF timerMade THEN crashed ELSE "pingTimeout"
                /\ UNCHANGED handlerVars
          /\ UNCHANGED <<actor, wg>>
    /\ UNCHANGED <<state, added, intr, closed, outbound, remoteVars,
                   timerMade, pendingNil, consumerVars, pingerVars, spc, gpc,
                   registered, shutdown, tornDown>>

\* handleVerify: two PASSIVE nodes refuse each other; the parent refuses a
\* duplicate id (eventVerifyRemoteNode).  Either returns false and the
\* handler returns.  Otherwise setState(nodeStateConnected) and reply
\* VERIFY_OK.
handlerVerify ==
    /\ Alive
    /\ actor["handler"] = "running" /\ hpc = "verify"
    /\ \/ /\ Return("handler")             \* passive pair, or duplicate id
          /\ hpc' = "recv"
          /\ UNCHANGED <<state, registered>>
       \/ /\ ~PassivePair                  \* admitted by the parent
          /\ registered' = TRUE
          /\ state' = "Connected"
          /\ hpc' = "send" /\ hmsg' = "VERIFY_OK"
          /\ UNCHANGED <<actor, wg>>
    /\ hpc' = "recv" => UNCHANGED hmsg
    /\ UNCHANGED <<added, intr, closed, inbound, outbound, remoteVars,
                   timerMade, pendingNil, consumerVars, pingerVars, spc, gpc,
                   shutdown, tornDown, crashed>>

\* The sendMessage of a handler (PONG, GET_RSP, VERIFY_OK)
handlerSend ==
    /\ Alive
    /\ actor["handler"] = "running" /\ hpc = "send"
    /\ \E q \in SendResults(hmsg) : outbound' = q
    /\ hpc' = "recv" /\ hmsg' = None
    /\ UNCHANGED <<state, actor, added, wg, intr, closed, inbound, remoteVars,
                   timerMade, pendingNil, consumerVars, pingerVars,
                   spc, gpc, registered, shutdown, tornDown, crashed>>

-----------------------------------------------------------------------------
(* networkSender                                                           *)

\* `for m := range r.outboundMsgQueue`: skip when Disconnected, else write
\* the frame; a write error ends the loop.
senderLoop ==
    /\ Alive
    /\ actor["sender"] = "running"
    /\ \/ /\ outbound = << >> /\ "outbound" \in closed
          /\ Return("sender")
          /\ UNCHANGED outbound
       \/ /\ outbound # << >>
          /\ outbound' = Tail(outbound)
          /\ \/ /\ state = "Disconnected"
                /\ UNCHANGED <<actor, wg>>
             \/ /\ state # "Disconnected"
                /\ remoteClosed \/ "conn" \in closed
                /\ Return("sender")
             \/ /\ state # "Disconnected"
                /\ ~(remoteClosed \/ "conn" \in closed)
                /\ UNCHANGED <<actor, wg>>
    /\ UNCHANGED <<state, added, intr, closed, inbound, remoteVars, timerMade,
                   pendingNil, consumerVars, handlerVars, pingerVars, spc, gpc,
                   registered, shutdown, tornDown, crashed>>

-----------------------------------------------------------------------------
(* The done actor, the teardown actor and Run()'s interrupts               *)

\* <-r.done returns once r.done is closed
doneExit ==
    /\ Alive
    /\ actor["done"] = "running"
    /\ "done" \in closed
    /\ Return("done")
    /\ UNCHANGED <<state, added, intr, closed, inbound, outbound, remoteVars,
                   timerMade, pendingNil, consumerVars, handlerVars,
                   pingerVars, spc, gpc, registered, shutdown, tornDown, crashed>>

\* r.wg.Wait() returns at zero; tearDown() tells the parent
\* (eventRemoteNodeDisconneced), stops the timers and sets pendingGet to nil.
teardownRun ==
    /\ Alive
    /\ actor["teardown"] = "running"
    /\ wg = 0
    /\ tornDown' = TRUE
    /\ pendingNil' = TRUE
    /\ registered' = FALSE
    /\ Return("teardown")
    /\ UNCHANGED <<state, added, intr, closed, inbound, outbound, remoteVars,
                   timerMade, consumerVars, handlerVars, pingerVars,
                   spc, gpc, shutdown, crashed>>

\* Mutant: the last interrupt does not close the connection.
InterruptNoConnClose(i) ==
    CASE i = 1 -> <<state, closed \cup {"done"}, wg>>
      [] i = 2 -> <<state, closed \cup {"pingDone"}, wg>>
      [] i = 3 -> <<state, closed \cup {"timeoutDone"}, wg>>
      [] i = 4 -> <<"Disconnected", closed, wg>>
      [] i = 5 -> <<"Disconnected", closed \cup {"inbound"}, wg>>
      [] i = 6 -> <<"Disconnected", closed \cup {"outbound"}, wg>>
      [] i = 7 -> <<"Disconnected", closed, wg - 1>>

\* The effect of interrupt function i on (state, closed, wg), in g.Add order
Interrupt(i) ==
    CASE i = 1 -> <<state, closed \cup {"done"}, wg>>
      [] i = 2 -> <<state, closed \cup {"pingDone"}, wg>>
      [] i = 3 -> <<state, closed \cup {"timeoutDone"}, wg>>
      [] i = 4 -> <<"Disconnected", closed, wg>>
      [] i = 5 -> <<"Disconnected", closed \cup {"inbound"}, wg>>
      [] i = 6 -> <<"Disconnected", closed \cup {"outbound"}, wg>>
      [] i = 7 -> <<"Disconnected", closed \cup {"conn"}, wg - 1>>

\* Once an actor has returned, Run() calls the interrupts one by one.
interrupt ==
    /\ Alive
    /\ \E a \in Actors : actor[a] = "returned"
    /\ intr < 7
    /\ intr' = intr + 1
    /\ LET r == Interrupt(intr + 1)
       IN  state' = r[1] /\ closed' = r[2] /\ wg' = r[3]
    /\ UNCHANGED <<actor, added, inbound, outbound, remoteVars,
                   timerMade, pendingNil, consumerVars, handlerVars, pingerVars,
                   spc, gpc, registered, shutdown, tornDown, crashed>>

-----------------------------------------------------------------------------
(* The parent and the remote end                                           *)

\* shutDown(): a non-blocking send on r.done.  It is received only if the
\* done actor is already waiting; on a closed channel it panics and the
\* panic is recovered.
shutDown ==
    /\ Alive
    /\ "shutDown" \in ParentCalls
    /\ ~shutdown
    /\ shutdown' = TRUE
    /\ IF actor["done"] = "running" /\ "done" \notin closed
         THEN Return("done")
         ELSE UNCHANGED <<actor, wg>>
    /\ UNCHANGED <<state, added, intr, closed, inbound, outbound, remoteVars,
                   timerMade, pendingNil, consumerVars, handlerVars,
                   pingerVars, spc, gpc, registered, tornDown, crashed>>

\* getData, called for every node of the parent's registry snapshot: return
\* if Disconnected, else store the request in r.pendingGet (nil after
\* tearDown: an unrecovered panic), then send GET_REQ.
getCheck ==
    /\ Alive
    /\ "getData" \in ParentCalls
    /\ gpc = "idle" /\ registered
    /\ gpc' = IF state = "Disconnected" THEN "done" ELSE "store"
    /\ UNCHANGED <<state, actor, added, wg, intr, closed, inbound, outbound,
                   remoteVars, timerMade, pendingNil, consumerVars,
                   handlerVars, pingerVars, spc, registered, shutdown, tornDown, crashed>>

getStore ==
    /\ Alive
    /\ gpc = "store"
    /\ IF pendingNil THEN crashed' = "pendingGet" /\ UNCHANGED gpc
                     ELSE gpc' = "send" /\ UNCHANGED crashed
    /\ UNCHANGED <<state, actor, added, wg, intr, closed, inbound, outbound,
                   remoteVars, timerMade, pendingNil, consumerVars,
                   handlerVars, pingerVars, spc, registered, shutdown, tornDown>>

getSend ==
    /\ Alive
    /\ gpc = "send"
    /\ \E q \in SendResults("GET_REQ") : outbound' = q
    /\ gpc' = "done"
    /\ UNCHANGED <<state, actor, added, wg, intr, closed, inbound, remoteVars,
                   timerMade, pendingNil, consumerVars, handlerVars,
                   pingerVars, spc, registered, shutdown, tornDown, crashed>>

remoteHangup ==
    /\ Alive
    /\ ~remoteClosed
    /\ remoteClosed' = TRUE
    /\ UNCHANGED <<state, actor, added, wg, intr, closed, inbound, outbound,
                   remoteSent, timerMade, pendingNil,
                   consumerVars, handlerVars, pingerVars, spc, gpc, registered,
                   shutdown, tornDown, crashed>>

-----------------------------------------------------------------------------

\* Steps of the goroutines this node runs (all scheduled fairly)
NodeStep ==
    \/ \E a \in Actors : Launch(a)
    \/ sendVerify
    \/ pingerFirst \/ pingerAdd \/ pingerTick \/ pingerSend \/ pingerExit
    \/ watcherStart \/ watcherFault \/ watcherExit
    \/ consumerLoop \/ consumerRead \/ consumerQueue
    \/ handlerRecv \/ handlerVerify \/ handlerSend
    \/ senderLoop \/ doneExit \/ teardownRun \/ interrupt
    \/ getStore \/ getSend

\* Steps of the environment: the parent's calls and the remote end
EnvStep == shutDown \/ getCheck \/ remoteHangup

\* An unrecovered panic stops the process: every step requires Alive.
Next == NodeStep \/ EnvStep

\* Goroutines that can run are eventually scheduled.  A ping-timeout fault
\* and a ticker tick depend on time and on the remote end, and the parent
\* and the remote end act when they choose: none of them is fair.
Fairness ==
    /\ \A a \in Actors : WF_vars(Launch(a))
    /\ WF_vars(sendVerify)
    /\ WF_vars(pingerFirst \/ pingerAdd \/ pingerSend \/ pingerExit)
    /\ WF_vars(watcherStart) /\ WF_vars(watcherExit)
    /\ WF_vars(consumerLoop) /\ WF_vars(consumerRead) /\ WF_vars(consumerQueue)
    /\ WF_vars(handlerRecv) /\ WF_vars(handlerVerify) /\ WF_vars(handlerSend)
    /\ WF_vars(senderLoop) /\ WF_vars(doneExit) /\ WF_vars(teardownRun)
    /\ WF_vars(interrupt) /\ WF_vars(getStore) /\ WF_vars(getSend)

Spec == Init /\ [][Next]_vars /\ Fairness

-----------------------------------------------------------------------------
(* Properties                                                              *)

\* A torn-down node is never (re)entered into the parent's registry:
\* eventRemoteNodeDisconneced in tearDown() is final, because handleVerify
\* can only run for a VERIFY the handler read before the interrupts set
\* Disconnected, and the handler then still holds r.wg.
NoRegistrationAfterTearDown ==
    tornDown => ~registered

\* Once any actor has returned, the node is eventually torn down (or the
\* process has died): every goroutine that added itself to r.wg returns
\* after the interrupts, so wg.Wait() returns.
StoppedNodeTornDown ==
    (\E a \in Actors : actor[a] = "returned") ~> (tornDown \/ crashed # None)

\* tearDown() runs only after every worker goroutine that has begun to run
\* has returned, as r.wg.Wait() is meant to ensure: a running worker must
\* already be counted in r.wg.
TearDownAfterWorkersExit ==
    tornDown => \A w \in Workers : actor[w] # "running"

\* Disconnected is final: no step takes the node out of it.
DisconnectedIsFinal ==
    [][state = "Disconnected" => state' = "Disconnected"]_state

\* The node never dereferences a nil pointer: getData never stores into a
\* pendingGet map tearDown has set to nil, and neither the ticker nor
\* handlePong uses r.pingTimeout before the watcher has created it.
NoNilDereference ==
    crashed = None

=============================================================================
