SPECIFICATION Spec
CONSTANTS
    None = None
    Blank = Blank
    c1 = c1
    Creds = {c1}
    Workers = {w1}
    Calls = {k1, k2}
    NoCall = NoCall
    MaxRestarts = 1
    Configs <- MCConfigs
    Bundles <- MCBundles
    EdgeConfig <- MCEdgeConfig
    UpstreamAnswers <- MCUpstreamAnswers
INVARIANTS OutcomeIsTelling MarkedIsNeverHandled HandledIsAuthorized
PROPERTY EveryCallReturns
CHECK_DEADLOCK FALSE
