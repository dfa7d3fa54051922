SPECIFICATION Spec
CONSTANTS
    Registrars = {r1, r2}
    Issuers = {i1}
    KeyTypes = {"ed25519", "rsa"}
    MaxKeys = 3
    MaxRestarts = 1
INVARIANTS ConfirmedKeyIsLatest ConfirmedProofsVerify
CHECK_DEADLOCK FALSE
