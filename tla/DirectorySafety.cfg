\* Two phones, three operations (two if any overlap), one fault.
CONSTANTS
  Phone = {p1, p2}
  FileName = {n1, n2}
  FileContent = {c1, c2}
  Fresh = {d1, d2}
  K = 2
  N = 3
  DeskFiles <- Desktop
  Picks <- Added
  MaxOps = 3
  MaxTogether = 2
  MaxFaults = 1
  Root = Root
  Desk = Desk
  Nothing = Nothing
  Gone = Gone
  n1 = n1
  n2 = n2
  c1 = c1
  c2 = c2
SPECIFICATION DirectorySpec
\* The bounds stop the system.
CHECK_DEADLOCK FALSE
SYMMETRY Phones
INVARIANTS StaysRecoverable LandedIsKept OneWinner
