\* The remote end hangs up while the pinger is still between its start and
\* r.wg.Add(1) (making the ticker, sending the first PING); with a
\* threshold of 2 and no tick the watcher cannot fault.
CONSTANTS
    ChanSize = 1
    RemoteCodes = {"VERIFY"}
    RemoteMsgs = 0
    MaxPings = 0
    PassivePair = FALSE
    ParentCalls = {}
    PingFailureThreshHold = 2
    None = None
SPECIFICATION Spec
INVARIANT TearDownAfterWorkersExit
CHECK_DEADLOCK FALSE
