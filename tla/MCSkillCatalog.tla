----------------------------- MODULE MCSkillCatalog -----------------------------
EXTENDS SkillCatalog, TLC

\* Two payloads for the first version, one for the second.
MCPackages == {[ver |-> 1, load |-> "a"], [ver |-> 1, load |-> "b"], [ver |-> 2, load |-> "a"]}

Symmetry == Permutations(Requests)
=============================================================================
