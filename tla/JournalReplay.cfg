CONSTANTS
  Sessions = {x}
  Agents = {g}
  Attrs = {k}
  Objects = {o1, o2}
  Requests = {r1, r2}
  Offered <- MCEverything
  RollTime = 0
  SessionTime = 2
  MaxTime = 2
  MaxEntries = 3
  MaxStarts = 1
  None = None
SPECIFICATION Spec
SYMMETRY MCSymmetry
INVARIANTS TypeOK LogIsSuffix ReplayExact
CHECK_DEADLOCK FALSE
