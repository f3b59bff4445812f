\* Two servers that start, end and lose the network, with creates under way.
CONSTANTS
  Nodes = {n1, n2}
  Sessions = {x}
  Commands = {"create"}
  Requests = {r1}
  MaxEvents = 3
  MaxCuts = 1
SPECIFICATION FairSpec
INVARIANTS InSync SplitOnlyByCut
PROPERTIES StartCompletes Rejoined
CHECK_DEADLOCK FALSE
