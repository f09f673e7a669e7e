---------------------------- MODULE MCOneTimeGrants ----------------------------
(* Model checking of OneTimeGrants.  Everything but the cookies' kinds is  *)
(* interchangeable.                                                        *)
EXTENDS OneTimeGrants, TLC

Symmetry ==
  Permutations(Flows) \cup Permutations(Browsers) \cup Permutations(Calls)
    \cup Permutations(Subjects) \cup Permutations(Users)
===============================================================================
