------------------------------ MODULE MCRoles ------------------------------
(* Roles on a small instance. *)
EXTENDS Roles
=============================================================================
