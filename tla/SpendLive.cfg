SPECIFICATION FairSpec
CONSTANTS
    Node = {n1}
    Slot = {s1, s2}
    Passes = 2
    MaxInFlight = 2
    MaxFaults = 1
    None = None
PROPERTIES
    WriteIsPaidFor
