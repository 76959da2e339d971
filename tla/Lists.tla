------------------------------- MODULE Lists -------------------------------
(***************************************************************************)
(* The slices that the coordinator and the consumer build: sorted, and     *)
(* with elements left out.                                                 *)
(***************************************************************************)
EXTENDS Integers, Sequences, FiniteSets

\* The i-th smallest of a set of numbers.
Nth(S, i) == CHOOSE n \in S : Cardinality({k \in S : k <= n}) = i

\* The elements of s that are in K, in their order: a loop that appends some of the
\* elements it meets.
Kept(s, K) ==
  LET I == {k \in DOMAIN s : s[k] \in K}
  IN  [i \in 1 .. Cardinality(I) |-> s[Nth(I, i)]]

=============================================================================
