-------------------------- MODULE MCDispatchDelivery --------------------------
(* DispatchDelivery for TLC. *)
EXTENDS DispatchDelivery, TLC

Symmetry == Permutations(Sessions) \cup Permutations(Runs)
=============================================================================
