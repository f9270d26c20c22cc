\* One node; the remote end stays silent and may hang up, the ping ticker
\* ticks once, and the parent may call shutDown().  A connection with
\* nothing to read blocks for ever in the code as well, so a state with no
\* step is not an error.
CONSTANTS
    ChanSize = 1
    RemoteCodes = {"VERIFY"}
    RemoteMsgs = 0
    MaxPings = 1
    PassivePair = FALSE
    ParentCalls = {"shutDown"}
    PingFailureThreshHold = 2
    None = None
SPECIFICATION Spec
PROPERTY StoppedNodeTornDown
CHECK_DEADLOCK FALSE
