CONSTANTS
  Sessions = {x, y}
  Agents = {g}
  Attrs = {k}
  Requests = {r1}
  Objects = {o1, o2}
  Offered = {"CREATE", "EXPIRE", "DUMP"}
  RollTime = 1
  SessionTime = 6
  MaxTime = 6
  MaxEntries = 4
  MaxStarts = 1
  None = None
SPECIFICATION Spec
SYMMETRY MCSymmetry
INVARIANT DumpRecovered
CHECK_DEADLOCK FALSE
