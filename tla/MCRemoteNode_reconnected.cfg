\* A VERIFY the handler took off the queue before the interrupts ran.
CONSTANTS
    ChanSize = 1
    RemoteCodes = {"VERIFY"}
    RemoteMsgs = 1
    MaxPings = 0
    PassivePair = FALSE
    ParentCalls = {}
    PingFailureThreshHold = 1
    None = None
SPECIFICATION Spec
PROPERTY DisconnectedIsFinal
CHECK_DEADLOCK FALSE
