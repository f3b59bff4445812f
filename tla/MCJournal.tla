----------------------------- MODULE MCJournal -----------------------------
(* The instances of Journal that TLC checks. *)
EXTENDS Journal

MCEverything == Commands \cup {"DUMP"}
MCSymmetry == Permutations(Sessions) \cup Permutations(Requests) \cup Permutations(Objects)
=============================================================================
