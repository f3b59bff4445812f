\* Starts, crashes and restarts of two servers that create, expire and create again
\* one session, with two commands under way at once.
CONSTANTS
  Nodes = {n1, n2}
  Sessions = {x}
  Commands = {"create", "expire"}
  Requests = {r1, r2}
  MaxEvents = 3
  MaxCuts = 0
SPECIFICATION Spec
SYMMETRY MCSymmetry
CONSTRAINT MCUndecided
INVARIANTS TypeOK InSync
CHECK_DEADLOCK FALSE
