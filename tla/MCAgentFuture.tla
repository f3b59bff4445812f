--------------------------- MODULE MCAgentFuture ---------------------------
(* The instance of AgentFuture that TLC checks; its constants are all sets. *)
EXTENDS AgentFuture
=============================================================================
