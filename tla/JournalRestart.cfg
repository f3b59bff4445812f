CONSTANTS
  Sessions = {x, y}
  Agents = {g}
  Attrs = {k}
  Objects = {o1, o2}
  Requests = {r1, r2}
  Offered = {"CREATE", "EXPIRE"}
  RollTime = 1
  SessionTime = 2
  MaxTime = 3
  MaxEntries = 3
  MaxStarts = 2
  None = None
SPECIFICATION Spec
SYMMETRY MCSymmetry
INVARIANT RecentRecovered
CHECK_DEADLOCK FALSE
