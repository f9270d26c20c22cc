\* PingTimeout equal to PingInterval (2 s), which checkConfig accepts
\* without its "pings will NEVER timeout" warning; threshold 2; answers
\* within a second; one connect attempt.
SPECIFICATION Spec
CONSTANTS
    PingIntervalCfg = 2
    PingTimeoutCfg = 2
    ThresholdCfg = 2
    ConnectRetries = 1
    Sync = FALSE
    MaxLatency = 1
    VerifyDelay = 0
    GetTimeout = 0
    OtherPeers = FALSE
PROPERTIES
    SilentPeerDetected
