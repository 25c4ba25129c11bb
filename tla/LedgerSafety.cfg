SPECIFICATION Spec
CONSTANTS
    Node = {n1, n2}
    Asking = {r1, r2}
    MaxTokens = 2
    MaxEpoch = 1
    MaxReports = 1
    MaxFaults = 1
    None = None
SYMMETRY Interchangeable
CHECK_DEADLOCK FALSE
INVARIANTS
    TypeOK
    SignedOnce
    ClaimsAreKept
