\* One node and traffic both ways: the remote end writes two messages out
\* of VERIFY and PING, so that a PING can follow the handshake, and may hang
\* up; the parent calls getData() once and the ticker does not tick.  A
\* connection with nothing to read blocks for ever in the code as well, so a
\* state with no step is not an error.
CONSTANTS
    ChanSize = 1
    RemoteCodes = {"VERIFY", "PING"}
    RemoteMsgs = 2
    MaxPings = 0
    PassivePair = FALSE
    ParentCalls = {"getData"}
    PingFailureThreshHold = 1
    None = None
SPECIFICATION Spec
INVARIANT TypeOK
INVARIANT NoRegistrationAfterTearDown
CHECK_DEADLOCK FALSE
