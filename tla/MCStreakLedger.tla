---------------------------- MODULE MCStreakLedger ----------------------------
(* Model checking of StreakLedger.  Users are numbers, as pages are in the *)
(* order of their _id; posts and servers are interchangeable.              *)
EXTENDS StreakLedger, TLC

Symmetry == Permutations(Posts) \cup Permutations(Servers)
===============================================================================
