--------------------------- MODULE MCControlSession ---------------------------
(* ControlSession for TLC: any client may send any frame on any session. *)
EXTENDS ControlInvariant, TLC

Symmetry == Permutations(Sessions) \cup Permutations(Runs) \cup Permutations(Nodes)
=============================================================================
