--------------------------- MODULE MCAuthSessions ---------------------------
(* AuthSessions on a small instance.                                        *)
EXTENDS AuthSessions, TLC

Symmetry == Permutations(Procs) \cup Permutations(Sids)
=============================================================================
