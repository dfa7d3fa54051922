SPECIFICATION FairSpec
CONSTANTS
    Creds = {c1, c2}
    Workers = {w1}
    NoCred = NoCred
    Config <- AdminConfig
    Token = "token"
    MaxRetries = 3
    MaxBackoff = 3
    MaxEvents = 2
    MaxPostFaults = 3
    MaxStreamFaults = 2
    MaxDaemonRestarts = 1
    MaxEnvoyRestarts = 1
INVARIANTS OnlyRevokedBlocked NoGapWithoutLoss OnePassPerWorker
PROPERTIES ServiceSpec PendingGetsBlocked
CHECK_DEADLOCK FALSE
