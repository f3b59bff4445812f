----------------------------- MODULE MCCluster -----------------------------
(* The instances of Cluster that TLC checks. *)
EXTENDS Cluster, TLC

MCSymmetry == Permutations(Nodes) \cup Permutations(Sessions) \cup Permutations(Requests)

\* With one session, InSync says nothing more once that session was missed or raced, and
\* what is in these histories stays there: such states need no successors.
MCUndecided == missed \cup raced # Sessions
=============================================================================
