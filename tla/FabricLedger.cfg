SPECIFICATION FairSpec
CONSTANTS
    Creds = {c1, c2}
    Txs = {t1, t2, t3}
    MaxPolls = 2
INVARIANTS RevokedIffAnnounced OkIsDurable LostRaceIsRevoked
PROPERTIES RevocationIsPermanent ContractSpec EveryCallReturns
CHECK_DEADLOCK FALSE
