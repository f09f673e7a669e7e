-------------------------- MODULE MCWeeklyRecapJob --------------------------
(* WeeklyRecapJob on a small instance.                                      *)
EXTENDS WeeklyRecapJob, TLC

Symmetry == Permutations(Workers)
=============================================================================
