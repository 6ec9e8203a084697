---------------------------- MODULE MCSkillDesired ----------------------------
(* SkillDesired for TLC: transactions of one kind are interchangeable. *)
EXTENDS SkillDesired, TLC

Symmetry == Permutations(NodeOps) \cup Permutations(HttpOps)
=============================================================================
