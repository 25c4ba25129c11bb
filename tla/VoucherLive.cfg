SPECIFICATION FairSpec
CONSTANTS
    Vid = {v1}
    Handler = {h1}
    BatchId = {b1}
    Prices = {1}
    MaxTokens = 1
    LargeAmount = 1
    MaxOpenQuotes = 1
    MaxPaid = 1
    MaxReorgs = 0
    MaxEpoch = 1
    None = None
PROPERTIES
    PaidIsIssuedWhileOpen
