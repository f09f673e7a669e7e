------------------------- MODULE MCPostEngagement -------------------------
EXTENDS PostEngagement, TLC

CONSTANTS u1, u2, p1, p2

(* One author; both creations carry the same Idempotency-Key.              *)
MCAuthorOf == [p \in Posts |-> u1]
MCKeyOf    == [p \in Posts |-> "key"]

Symmetry == Permutations(Requests) \cup Permutations(Jobs)
=============================================================================
