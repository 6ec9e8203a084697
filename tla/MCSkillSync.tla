----------------------------- MODULE MCSkillSync -----------------------------
(* The constants of SkillSync are given by the configurations. *)
EXTENDS SkillSync
=============================================================================
