\* The parent's getData() against the node's tearDown().
CONSTANTS
    ChanSize = 1
    RemoteCodes = {"VERIFY"}
    RemoteMsgs = 1
    MaxPings = 0
    PassivePair = FALSE
    ParentCalls = {"getData"}
    PingFailureThreshHold = 1
    None = None
SPECIFICATION Spec
INVARIANT NoNilDereference
CHECK_DEADLOCK FALSE
