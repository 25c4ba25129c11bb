SPECIFICATION Spec
CONSTANTS
    Folder = {f1, f2}
    Pass = {p1, p2}
    Gap = 2
    MaxExports = 1
    MaxTries = 2
    None = None
SYMMETRY Interchangeable
INVARIANTS
    AnnouncedAsConfigured
PROPERTIES
    WalletIsBack
    CreditIsBack
CHECK_DEADLOCK FALSE
