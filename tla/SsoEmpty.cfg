CONSTANTS
  a1 = a1  a2 = a2  b1 = b1  app1 = app1  app2 = app2
  None = None
  Nodes = {n1, n2}
  Agents = {a1, a2, b1}
  AppOf <- MCAppOf
  Commands = {"login", "timeout"}
  MaxRequests = 2
SPECIFICATION MCLoggedInSpec
INVARIANT NoAgentsNoSession
CHECK_DEADLOCK FALSE
