CONSTANTS
  Sessions = {x}
  Agents = {g}
  Attrs = {k}
  Requests = {r1}
  Objects = {o1, o2}
  Offered = {"CREATE", "SET", "DEL"}
  RollTime = 1
  SessionTime = 4
  MaxTime = 4
  MaxEntries = 3
  MaxStarts = 1
  None = None
SPECIFICATION Spec
SYMMETRY MCSymmetry
INVARIANT DeletedStaysDeleted
CHECK_DEADLOCK FALSE
