SPECIFICATION Spec
CONSTANTS
    Proc = {p1, p2}
    Invite = {x, y}
    MaxRuns = 2
    MaxMail = 1
    MaxFaults = 1
    None = None
SYMMETRY Interchangeable
INVARIANTS
    TypeOK
    OneWindow
PROPERTIES
    ReleasedClean
    StopLeavesNobody
    HandedIsShown
CHECK_DEADLOCK FALSE
