--------------------------- MODULE MCTargetSchedules ---------------------------
EXTENDS TargetSchedules, TLC

Symmetry == Permutations(Requests) \cup Permutations(Schedules)
=============================================================================
