--------------------------- MODULE MCConnections ----------------------------
(* Connections for TLC. *)
EXTENDS Connections, TLC

(* Clients are told apart by nothing; used without liveness properties. *)
Symmetry == Permutations(Clients)
=============================================================================
