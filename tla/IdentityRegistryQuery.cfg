SPECIFICATION RegistrySpec
CONSTANTS
    Dids = {d1, d2}
    Keys = {k1, k2}
    SchemaIds = {d1, d2}
    CredIds = {d1}
    Null = Null
INVARIANT QueryListsDids
CHECK_DEADLOCK FALSE
