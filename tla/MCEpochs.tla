------------------------------ MODULE MCEpochs ------------------------------
(* Epochs on small instances. *)
EXTENDS Epochs

CONSTANTS b1, b2
=============================================================================
