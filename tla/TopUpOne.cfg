SPECIFICATION FairSpec
CONSTANTS
    Client = {p1}
    Rsa = {1}
    MaxHandles = 2
    MaxTokens = 2
    MaxInFlight = 1
    MaxEpoch = 1
    MaxFaults = 1
    None = None
INVARIANTS
    TypeOK
    WalletIsIssued
    HandlesAreFresh
    PaidIsPending
PROPERTIES
    CollectedUnlessBlocked
