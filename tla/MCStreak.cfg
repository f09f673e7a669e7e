\* Two servers run the decay of two accounts over a midnight while a post is
\* awarded: every overlap of award, decay, deletion and status, the same day
\* twice, in pages of one account that change under the run.
SPECIFICATION Spec
CONSTANTS
  Users = {1, 2}
  Posts = {p1}
  Servers = {s1, s2}
  MaxDay = 2
  Starts = {1, 6}
  Batch = 1
SYMMETRY Symmetry
\* The days and the posts of an instance come to an end.
CHECK_DEADLOCK FALSE
INVARIANTS
  NobodySkipped
  LedgerBalances
PROPERTIES
  KeepsTheBook
