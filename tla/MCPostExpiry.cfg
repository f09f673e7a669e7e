\* One request that creates, again with its Idempotency-Key, and deletes; two
\* runs of the clean-up that may crash, with two attempts.
SPECIFICATION FairSpec
CONSTANTS
  u1 = u1
  u2 = u2
  p1 = p1
  p2 = p2
  Users = {u1}
  Posts = {p1, p2}
  AuthorOf <- MCAuthorOf
  KeyOf <- MCKeyOf
  Requests = {r1}
  Ops = {"create", "delete"}
  Jobs = {j1, j2}
  MaxAttempts = 2
  NoUser = NoUser
  NoPost = NoPost
\* Every account may be deleted and every post gone.
CHECK_DEADLOCK FALSE
INVARIANTS
  ImagesFollowPosts
  PostsCountNotTooLow
PROPERTIES
  ExpiredIsResolved
