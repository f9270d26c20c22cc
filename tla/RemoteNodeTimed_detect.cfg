\* The default ping configuration (PingInterval 0 -> 5, threshold 0 -> 5)
\* with a 4-second timeout, answers as late as 4 seconds, two connect
\* retries, a remote VERIFY that may come 2 seconds after start, and a Get
\* that waits 2 seconds, fanned out to other peers as well.
SPECIFICATION Spec
CONSTANTS
    PingIntervalCfg = 0
    PingTimeoutCfg = 4
    ThresholdCfg = 0
    ConnectRetries = 2
    Sync = TRUE
    MaxLatency = 4
    VerifyDelay = 2
    GetTimeout = 2
    OtherPeers = TRUE
INVARIANTS
    TypeOK
    NoSpuriousTimeout
    JoinGivesUpAfterRetries
    SyncOnlyAfterAdmission
    FaultOnlyForSilentPeer
    FirstReplyWins
PROPERTIES
    SilentPeerDetected
