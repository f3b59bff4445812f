CONSTANTS
  a1 = a1  a2 = a2  b1 = b1  app1 = app1  app2 = app2
  None = None
  Nodes = {n1, n2}
  Agents = {a1, a2, b1}
  AppOf <- MCAppOf
  Commands = {"login", "logout", "timeout", "kill", "clear", "age"}
  MaxRequests = 3
SPECIFICATION FairSpec
INVARIANTS TypeOK OneSession ServersAgree AgentsAgree LoginsHeld
PROPERTIES SweptInTheEnd
CHECK_DEADLOCK FALSE
