SPECIFICATION FairSpec
CONSTANTS
    Brokers <- AnyBroker
    WalletKeys = {k1, k2}
    Clearances = {2, 3, 258, 259}
    Required = 3
    FieldOrder = 557
    MaxLevel = 300
    StderrCap = 2
    MaxLog = 3
    MaxFaults = 1
INVARIANTS OkIsProof PlainProofSucceeds
PROPERTIES CallReturns EnclaveEnds
CHECK_DEADLOCK FALSE
