SPECIFICATION Spec
CONSTANTS
    Brokers <- OwnBroker
    WalletKeys = {k1, k2}
    Clearances = {2, 3, 258, 259}
    Required = 3
    FieldOrder = 557
    MaxLevel = 300
    StderrCap = 2
    MaxLog = 3
    MaxFaults = 0
INVARIANT ConfidentialProofSucceeds
CHECK_DEADLOCK FALSE
