SPECIFICATION Spec
CONSTANTS
    Vid = {v1}
    Handler = {h1, h2}
    BatchId = {b1, b2}
    Prices = {1, 2}
    MaxTokens = 1
    LargeAmount = 2
    MaxOpenQuotes = 1
    MaxPaid = 2
    MaxReorgs = 1
    MaxEpoch = 0
    None = None
SYMMETRY Interchangeable
CONSTRAINT OneAtATimeOnceLarge
INVARIANTS
    TypeOK
    IssuedIsFunded
    ObservationsAreCovered
PROPERTIES
    KeepsPromise
    PriceStaysLocked
