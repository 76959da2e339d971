------------------------------ MODULE MCGroups ------------------------------
(* Instances of Groups. *)
EXTENDS Groups

=============================================================================
