\* Default ping configuration, Sync set, answers within the second; the
\* remote end's VERIFY may take up to 5 seconds after start to reach
\* handleVerify, so admission can fall in any second of the poller's
\* 5-second budget.
SPECIFICATION Spec
CONSTANTS
    PingIntervalCfg = 0
    PingTimeoutCfg = 0
    ThresholdCfg = 0
    ConnectRetries = 1
    Sync = TRUE
    MaxLatency = 0
    VerifyDelay = 5
    GetTimeout = 0
    OtherPeers = FALSE
PROPERTIES
    SyncWithinBudget
