SPECIFICATION Spec
CONSTANTS
    Node = {n1, n2}
    Slot = {s1, s2}
    Passes = 2
    MaxInFlight = 2
    MaxFaults = 0
    None = None
SYMMETRY Interchangeable
INVARIANTS
    TypeOK
    GrantIsHonoured
    GrantsAreDistinct
    NoPassIsLost
PROPERTIES
    SpentIsKept
