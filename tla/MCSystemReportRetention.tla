---------------------- MODULE MCSystemReportRetention ----------------------
(* SystemReportRetention on a small instance.                               *)
EXTENDS SystemReportRetention, TLC

Symmetry == Permutations(Workers) \cup Permutations(Reports)
=============================================================================
