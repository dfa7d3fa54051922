SPECIFICATION Spec
CONSTANTS
    Calls = {h1, h2}
    Enclaves = {e1, e2, e3}
    Genuine = {e1}
    Levels = {1}
    MaxSecrets = 6
    MaxPairs = 1
    None = None
SYMMETRY Symmetry
INVARIANTS SessionsAgree SecretsAreSeparate SharedOnlyWithGenuine
CHECK_DEADLOCK FALSE
