----------------------------- MODULE MCRouting -----------------------------
(* Model values for Routing. *)
EXTENDS Routing

CONSTANTS b1, b2, main, other, w1, w2

MCOrder == <<b1, b2>>

\* The keys of two goroutines fall on different partitions of two.
MCHash == [w \in Worker |-> IF w = w1 THEN 1 ELSE 2]

\* Both use one key.
MCSameHash == [w \in Worker |-> 1]

=============================================================================
