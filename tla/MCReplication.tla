--------------------------- MODULE MCReplication ---------------------------
(* Replication on small instances. *)
EXTENDS Replication, TLC

CONSTANTS f1, v1, v2

\* No definition tells two payloads apart.
Symmetry == Permutations(Value)
=============================================================================
