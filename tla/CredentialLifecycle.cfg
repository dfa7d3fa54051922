SPECIFICATION Spec
CONSTANTS
    Creds = {c1, c2}
    Issuers = {i1, i2}
    Verifiers = {v1}
    NoCred = NoCred
    MaxI64 = 1
    MaxTime = 2
    Schemas <- MCSchemas
    Subjects <- MCSubjects
SYMMETRY Symmetry
INVARIANTS HeldIsRecorded VerdictHeldOnce RevocationIsSeen
PROPERTIES InactiveForEver LedgerSpec
CHECK_DEADLOCK FALSE
