\* Two accounts and three requests: every race on one pair.
SPECIFICATION Spec
CONSTANTS
  Users = {1, 2}
  Procs = {p1, p2, p3}
  NoUser = 0
  Ops = {"follow", "unfollow", "block", "unblock", "delete", "status"}
SYMMETRY Symmetry
\* Everybody may delete the account.
CHECK_DEADLOCK FALSE
INVARIANTS
  CountersMatch
  NoFollowAcrossBlock
PROPERTIES
  AtomicGraph
