------------------------ MODULE MCSessionRepository ------------------------
(***************************************************************************)
(* The properties of SessionRepository and the instances TLC checks.       *)
(***************************************************************************)
EXTENDS SessionRepositoryProps, TLC

CONSTANTS s1, s2, u1

\* Two sessions of one user; one session.
MCOneUser == s1 :> u1 @@ s2 :> u1
MCOneSession == s1 :> u1
=============================================================================
