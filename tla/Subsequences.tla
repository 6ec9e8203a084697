------------------------------ MODULE Subsequences ------------------------------
(* Parts of a sequence, in its order. *)
EXTENDS Naturals, Sequences, FiniteSets

\* The elements of q at the positions at, in the order of q.
Subsequence(q, at) ==
    LET nth(k) == CHOOSE j \in at : Cardinality({i \in at : i <= j}) = k
    IN  [k \in 1..Cardinality(at) |-> q[nth(k)]]
=============================================================================
