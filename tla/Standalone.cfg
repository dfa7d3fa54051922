SPECIFICATION MCSpec
CONSTANTS
    MaxLevel = 300
    FieldOrder = 557
    Role = 7
    Nullifier = 411
    MaxI64 = 1
    Schemas <- MCSchemas
    Subjects <- MCSubjects
    NotFound = NotFound
    Empty = Empty
    Unreadable = Unreadable
    Orgs = {"Org1MSP", "Org2MSP", "Org3MSP"}
    PeerNames = {"org1-peer1", "org1-peer2", "org1-peer3"}
    Profiles <- MCProfiles
    Urls <- MCUrls
    Network <- MCNetwork
    Dids = {d1, d2}
    Keys = {k1, k2}
    SchemaIds = {d1, d2}
    CredIds = {d1}
    Null = Null
INVARIANTS LevelIsJudgedExactly ValidationIsExact SentIsVouchedFor LookupIsExact
CHECK_DEADLOCK FALSE
