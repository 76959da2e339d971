------------------------------ MODULE MCFetch ------------------------------
(* Model values for Fetch. *)
EXTENDS Fetch

CONSTANTS s1, s2, none, p1, p2

=============================================================================
