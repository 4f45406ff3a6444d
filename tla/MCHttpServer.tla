--------------------------- MODULE MCHttpServer ----------------------------
(* Instances of HttpServer for TLC. *)
EXTENDS HttpServer, TLC

MCSymmetry == Permutations(Conns) \cup Permutations(PoolThreads)
=============================================================================
