SPECIFICATION FairSpec
CONSTANTS
    Name <- BothNames
    Bytes = {b1}
    Theirs = theirs
    TheirNames = {1}
    MaxPicks = 1
    MaxPuts = 2
    MaxLaunches = 2
    None = None
    b1 = b1
    b2 = b2
\* The bounds stop the system.
CHECK_DEADLOCK FALSE
INVARIANTS
    BusyIsCurrent
    OneLivePut
    LandedIsOnGrid
PROPERTIES
    SendingSettles
