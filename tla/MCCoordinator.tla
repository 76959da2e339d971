--------------------------- MODULE MCCoordinator ---------------------------
(* Instances of Coordinator for TLC.                                       *)
EXTENDS Coordinator, TLC

CONSTANTS b1, b2, b3, none, r1

Symmetry == Permutations(Broker)
=============================================================================
