----------------------------- MODULE MCSkillHost -----------------------------
(* A skill with enough versions for old ones to be dropped, next to one whose *)
(* only package never installs.                                               *)
EXTENDS SkillHost

MCOffered == <<{1, 2, 3}, {4}>>
=============================================================================
