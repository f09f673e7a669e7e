\* Three requests on one post: reactions, removals, deletions of the post and
\* of both accounts.
SPECIFICATION Spec
CONSTANTS
  u1 = u1
  u2 = u2
  p1 = p1
  p2 = p2
  Users = {u1, u2}
  Posts = {p1}
  AuthorOf <- MCAuthorOf
  KeyOf <- MCKeyOf
  Requests = {r1, r2, r3}
  Ops = {"create", "delete", "react", "remove", "account"}
  Jobs = {}
  MaxAttempts = 1
  NoUser = NoUser
  NoPost = NoPost
SYMMETRY Symmetry
\* Every account may be deleted and every post gone.
CHECK_DEADLOCK FALSE
INVARIANTS
  LikesMatch
  NoReactionsOnPurged
PROPERTIES
  ReadersSeeAtomicPosts
