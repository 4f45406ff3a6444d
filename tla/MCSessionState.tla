--------------------------- MODULE MCSessionState --------------------------
(* Instances of SessionState for TLC. *)
EXTENDS SessionState, TLC

MCSymmetry == Permutations(Ids) \cup Permutations(Keys)
=============================================================================
