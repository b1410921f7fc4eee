--------------------------- MODULE MCCoordinator ---------------------------
(* Small instances of the coordinator for TLC. *)
EXTENDS Coordinator, TLC

ClientSymmetry == Permutations(Clients)

=============================================================================
