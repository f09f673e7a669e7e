--------------------------- MODULE MCSocialGraph ---------------------------
(* SocialGraph on a small instance.                                         *)
EXTENDS SocialGraph, TLC

Symmetry == Permutations(Procs)
=============================================================================
