SPECIFICATION Spec
CONSTANTS
    Creds = {c1}
    Keys = {k1, k2}
    Seeds = {s1, s2, s3}
    Tasks = {t1, t2, t3}
    None = None
    MaxRestarts = 1
SYMMETRY Symmetry
INVARIANTS RecordsReadable SeedAgreement BoundKeyOpensStore
PROPERTY RevokedTagIsKept
CHECK_DEADLOCK FALSE
