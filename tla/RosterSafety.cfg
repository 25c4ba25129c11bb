SPECIFICATION Spec
CONSTANTS
    Server = {s1, s2}
    Nick = {n1, n2}
    MaxOps = 3
    MaxChanges = 2
    None = None
INVARIANTS
    TypeOK
    LoadedIsBook
PROPERTIES
    NotUsedUntilAdded
CHECK_DEADLOCK FALSE
