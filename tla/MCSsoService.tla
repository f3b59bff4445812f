---------------------------- MODULE MCSsoService ----------------------------
(* The instances of SsoService that TLC checks. *)
EXTENDS SsoService

CONSTANTS a1, a2, b1, app1, app2

\* The agent sessions a1 and a2 are of one application, b1 of another.
MCAppOf == [a \in Agents |-> IF a = b1 THEN app2 ELSE app1]

\* The state in which a1 and then b1 have logged in, and all is done.
MCLoggedIn ==
  /\ stored = [n \in Nodes |-> {a1}]
  /\ view = [n \in Nodes |-> {a1}]
  /\ agents = [n \in Nodes |-> [x \in Agents |-> IF x = a1 THEN {a1, b1} ELSE {}]]
  /\ tasks = {}
  /\ request = [r \in Requests |-> Idle]
  /\ sweeping = [n \in Nodes |-> None]
  /\ aged = {}
  /\ loggedIn = {a1, b1}
  /\ blind = {} /\ raced = {} /\ uneven = {}

MCLoggedInSpec == MCLoggedIn /\ [][Next]_vars
=============================================================================
