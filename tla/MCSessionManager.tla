------------------------- MODULE MCSessionManager --------------------------
(* Instances of SessionManager for TLC. *)
EXTENDS SessionManager, TLC

MCSymmetry == Permutations(Threads) \cup Permutations(Ids) \cup Permutations(Values)
=============================================================================
