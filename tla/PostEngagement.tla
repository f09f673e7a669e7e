-------------------------- MODULE PostEngagement --------------------------
(***************************************************************************)
(* Posts from their creation to their end after a day, the reactions on    *)
(* them, the counters likeCount and postsCount, and their images.          *)
(*                                                                         *)
(*   src/src/modules/posts/services/posts.service.ts                       *)
(*   src/src/modules/posts/schemas/post.schema.ts                          *)
(*   src/src/modules/reactions/services/reaction.service.ts                *)
(*   src/src/modules/cron/services/expired-post-cleanup.service.ts         *)
(*   src/src/modules/users/services/users.service.ts (softDeleteUser)      *)
(*                                                                         *)
(* Reactions and the deletion of an account are MongoDB transactions: they *)
(* read a snapshot, and conflict with whatever writes a document they are  *)
(* to write before they commit.  Creation, deletion and clean-up are       *)
(* single writes one after the other, and may stop between any two.        *)
(*                                                                         *)
(* The checks that only refuse a request (status, follow, block) are left  *)
(* out, and so is a write that changes nothing here (the emoji).           *)
(***************************************************************************)
EXTENDS Integers, FiniteSets

CONSTANTS
  Users,
  Posts,        \* ids a creation may draw, each once
  AuthorOf,     \* the account a post id is drawn for
  KeyOf,        \* and its Idempotency-Key; without one, a key of its own
  Requests,     \* requests that may be in flight at the same time
  Ops,          \* the operations clients use
  Jobs,         \* runs of the clean-up of expired posts
  MaxAttempts,  \* maxAttempts of the clean-up
  NoUser, NoPost

ASSUME UsersAssumption == IsFiniteSet(Users) /\ NoUser \notin Users
ASSUME PostsAssumption == NoPost \notin Posts /\ AuthorOf \in [Posts -> Users]
ASSUME MaxAttemptsAssumption == MaxAttempts \in Nat \ {0}

AllOps == {"create", "delete", "react", "remove", "account"}

ASSUME OpsAssumption == Ops \subseteq AllOps

VARIABLES
  user,      \* users collection: deletion and postsCount
  post,      \* posts collection
  reaction,  \* reactions collection: who reacted to which post
  image,     \* how much of the images of each post is in Cloudinary
  req,       \* the in-flight requests
  job        \* the runs of the clean-up

vars == <<user, post, reaction, image, req, job>>

Amount == {"all", "some", "none"}

UserDoc == [deleted : BOOLEAN, postsCount : Nat]

PostDoc ==
  [life     : {"unused", "drawn", "stored", "deleted", "withdrawn", "purged",
               "cleaned"},
   expired  : BOOLEAN,  \* expireAt has passed
   counted  : BOOLEAN,  \* ghost: postsCount was raised for it
   likes    : Nat,
   cleanup  : {"pending", "processing", "failed"},
   locked   : BOOLEAN,  \* cleanupLockedUntil is in the future
   attempts : 0..MaxAttempts]

Request ==
  [op    : AllOps \cup {"none"},
   pc    : {"idle", "uploaded", "inserted", "counted", "compensate", "resolved",
            "removed", "images", "txn", "purge"},
   u     : Users \cup {NoUser},
   p     : Posts \cup {NoPost},
   posts : SUBSET Posts,              \* account: its posts in the snapshot
   seen  : SUBSET (Users \X Posts),   \* reactions in the snapshot it is about
   stale : SUBSET {"user", "post", "reaction"}]  \* written by others since

Job == [pc : {"idle", "claimed", "removed", "decrement", "failing"},
        p  : Posts \cup {NoPost}]

NewPost == [life |-> "unused", expired |-> FALSE, counted |-> FALSE, likes |-> 0,
            cleanup |-> "pending", locked |-> FALSE, attempts |-> 0]

IdleRequest == [op |-> "none", pc |-> "idle", u |-> NoUser, p |-> NoPost,
                posts |-> {}, seen |-> {}, stale |-> {}]

IdleJob == [pc |-> "idle", p |-> NoPost]

TypeOK ==
  /\ user \in [Users -> UserDoc]
  /\ post \in [Posts -> PostDoc]
  /\ reaction \in SUBSET (Users \X Posts)
  /\ image \in [Posts -> Amount]
  /\ req \in [Requests -> Request]
  /\ job \in [Jobs -> Job]

Stored(p)  == post[p].life = "stored"
Visible(p) == Stored(p) /\ ~post[p].expired
Likers(p)  == {u \in Users : <<u, p>> \in reaction}

(* The document is gone, and with it all that it held.                     *)
Gone(p, life) ==
  [NewPost EXCEPT !.life = life, !.expired = post[p].expired,
                  !.counted = post[p].counted]

Dec(n) == IF n > 0 THEN n - 1 ELSE 0

Remaining(amount) ==
  {a \in Amount : /\ a = "all" => amount = "all"
                  /\ a = "some" => amount # "none"}

-----------------------------------------------------------------------------
(* Write conflicts.  An upsert writes its reaction in any case; the post   *)
(* is written only when its likeCount changes.                             *)

PostsToWrite(r) ==
  CASE r.op = "react"   -> IF r.seen = {} THEN {r.p} ELSE {}
    [] r.op = "remove"  -> IF r.seen = {} THEN {} ELSE {r.p}
    [] r.op = "account" -> r.posts \cup {p \in Posts : <<r.u, p>> \in r.seen}
    [] OTHER            -> {}

ReactionsToWrite(r) ==
  IF r.op = "react" THEN {<<r.u, r.p>>} ELSE r.seen

UsersToWrite(r) == IF r.op = "account" THEN {r.u} ELSE {}

StaleAfter(r, us, ps, es) ==
  r.stale \cup {k \in {"user", "post", "reaction"} :
                  \/ k = "user" /\ UsersToWrite(r) \cap us # {}
                  \/ k = "post" /\ PostsToWrite(r) \cap ps # {}
                  \/ k = "reaction" /\ ReactionsToWrite(r) \cap es # {}}

Marked(r, us, ps, es) ==
  IF r.pc = "txn" THEN [r EXCEPT !.stale = StaleAfter(r, us, ps, es)] ELSE r

(* The requests are req2, but for the transactions that are to write one   *)
(* of the users, posts or reactions the step has written.                  *)
Mark(req2, us, ps, es) ==
  req' = [q \in Requests |-> Marked(req2[q], us, ps, es)]

(* An expired post does not match the filter of a reaction: it is not      *)
(* written, and cannot conflict.                                           *)
Conflicting(r) ==
  IF r.op = "account" THEN r.stale # {}
  ELSE \/ "reaction" \in r.stale
       \/ "post" \in r.stale /\ ~post[r.p].expired

Goto(r, pc) == [req EXCEPT ![r].pc = pc]
End(r)      == [req EXCEPT ![r] = IdleRequest]

-----------------------------------------------------------------------------
(* createPost                                                              *)

SameKeyStored(p) ==
  \E q \in Posts \ {p} :
    Stored(q) /\ AuthorOf[q] = AuthorOf[p] /\ KeyOf[q] = KeyOf[p]

(* No post has the key yet; the images are uploaded.                       *)
StartCreate(r, p) ==
  /\ "create" \in Ops
  /\ req[r].pc = "idle"
  /\ post[p].life = "unused"
  /\ ~user[AuthorOf[p]].deleted
  /\ ~SameKeyStored(p)
  /\ post' = [post EXCEPT ![p].life = "drawn"]
  /\ image' = [image EXCEPT ![p] = "all"]
  /\ req' = [req EXCEPT ![r] = [IdleRequest EXCEPT !.op = "create",
               !.pc = "uploaded", !.u = AuthorOf[p], !.p = p]]
  /\ UNCHANGED <<user, reaction, job>>

Insert(r) ==
  LET p == req[r].p IN
  /\ req[r].pc = "uploaded"
  /\ ~SameKeyStored(p)
  /\ post' = [post EXCEPT ![p].life = "stored"]
  /\ req' = Goto(r, "inserted")
  /\ UNCHANGED <<user, reaction, image, job>>

(* A retry with the same key was faster, or an upload or the insertion     *)
(* failed: the uploaded images are deleted, as far as that succeeds.       *)
NotInserted(r) ==
  LET p == req[r].p IN
  /\ req[r].pc = "uploaded"
  /\ \E a \in Remaining(image[p]) : image' = [image EXCEPT ![p] = a]
  /\ req' = End(r)
  /\ UNCHANGED <<user, post, reaction, job>>

CountPost(r) ==
  LET p == req[r].p
      u == req[r].u
  IN
  /\ req[r].pc = "inserted"
  /\ user' = [user EXCEPT ![u].postsCount = @ + 1]
  /\ post' = [post EXCEPT ![p].counted = TRUE]
  /\ Mark(Goto(r, "counted"), {u}, {}, {})
  /\ UNCHANGED <<reaction, image, job>>

(* The streak and the engagement event are recorded.                       *)
FinishCreate(r) ==
  /\ req[r].pc = "counted"
  /\ req' = End(r)
  /\ UNCHANGED <<user, post, reaction, image, job>>

FailCreate(r) ==
  /\ req[r].pc \in {"inserted", "counted"}
  /\ req' = Goto(r, "compensate")
  /\ UNCHANGED <<user, post, reaction, image, job>>

(* Faulty variant: the images go first, while the post is still shown.     *)
CompensateImagesFirst(r) ==
  LET p == req[r].p IN
  /\ req[r].pc = "compensate"
  /\ image' = [image EXCEPT ![p] = "none"]
  /\ req' = Goto(r, "images")
  /\ UNCHANGED <<user, post, reaction, job>>

Compensate(r) ==
  LET p == req[r].p IN
  /\ req[r].pc = "compensate"
  /\ post' = IF Stored(p) THEN [post EXCEPT ![p] = Gone(p, "withdrawn")] ELSE post
  /\ Mark(Goto(r, "images"), {}, {p}, {})
  /\ UNCHANGED <<user, reaction, image, job>>

(* deleteImages without throwOnError: nothing is reported.                 *)
DeleteItsImages(r) ==
  LET p == req[r].p IN
  /\ req[r].pc = "images"
  /\ \E a \in Remaining(image[p]) : image' = [image EXCEPT ![p] = a]
  /\ req' = End(r)
  /\ UNCHANGED <<user, post, reaction, job>>

-----------------------------------------------------------------------------
(* What the other requests check before they begin                         *)

StartDelete(r, p) ==
  /\ "delete" \in Ops
  /\ req[r].pc = "idle"
  /\ ~user[AuthorOf[p]].deleted
  /\ Stored(p)
  /\ req' = [req EXCEPT ![r] = [IdleRequest EXCEPT !.op = "delete",
               !.pc = "resolved", !.u = AuthorOf[p], !.p = p]]
  /\ UNCHANGED <<user, post, reaction, image, job>>

(* assertCanReact                                                          *)
StartReaction(r, op, u, p) ==
  /\ op \in Ops \cap {"react", "remove"}
  /\ req[r].pc = "idle"
  /\ ~user[u].deleted
  /\ Visible(p)
  /\ ~user[AuthorOf[p]].deleted
  /\ req' = [req EXCEPT ![r] = [IdleRequest EXCEPT !.op = op, !.pc = "resolved",
               !.u = u, !.p = p]]
  /\ UNCHANGED <<user, post, reaction, image, job>>

(* softDeleteUser has verified the password.                               *)
StartDeleteAccount(r, u) ==
  /\ "account" \in Ops
  /\ req[r].pc = "idle"
  /\ ~user[u].deleted
  /\ req' = [req EXCEPT ![r] = [IdleRequest EXCEPT !.op = "account",
               !.pc = "resolved", !.u = u]]
  /\ UNCHANGED <<user, post, reaction, image, job>>

-----------------------------------------------------------------------------
(* deletePost: the post, postsCount, the images                            *)

DeletePost(r) ==
  LET p == req[r].p IN
  /\ req[r].pc = "resolved" /\ req[r].op = "delete"
  /\ Stored(p)
  /\ post' = [post EXCEPT ![p] = Gone(p, "deleted")]
  /\ Mark(Goto(r, "removed"), {}, {p}, {})
  /\ UNCHANGED <<user, reaction, image, job>>

(* A failure is logged, and the request goes on.                           *)
DecrementPostCount(r) ==
  LET u == req[r].u IN
  /\ req[r].pc = "removed"
  /\ \/ /\ user' = [user EXCEPT ![u].postsCount = Dec(@)]
        /\ Mark(Goto(r, "images"), {u}, {}, {})
     \/ /\ req' = Goto(r, "images")
        /\ UNCHANGED user
  /\ UNCHANGED <<post, reaction, image, job>>

-----------------------------------------------------------------------------
(* reactToPost and removeReaction                                          *)

(* assertPostStillReactable; the snapshot of the transaction.              *)
BeginReaction(r) ==
  LET e == <<req[r].u, req[r].p>> IN
  /\ req[r].pc = "resolved" /\ req[r].op \in {"react", "remove"}
  /\ Visible(req[r].p)
  /\ req' = [req EXCEPT ![r].pc = "txn", ![r].seen = reaction \cap {e}]
  /\ UNCHANGED <<user, post, reaction, image, job>>

(* Faulty variant: likeCount is raised for a change of the emoji too.      *)
AddReactionAlwaysCounts(r) ==
  LET p == req[r].p
      e == <<req[r].u, p>>
  IN
  /\ req[r].pc = "txn" /\ req[r].op = "react"
  /\ ~Conflicting(req[r])
  /\ ~post[p].expired
  /\ reaction' = reaction \cup {e}
  /\ post' = [post EXCEPT ![p].likes = @ + 1]
  /\ Mark(End(r), {}, {p}, {e})
  /\ UNCHANGED <<user, image, job>>

AddReaction(r) ==
  LET p == req[r].p
      e == <<req[r].u, p>>
  IN
  /\ req[r].pc = "txn" /\ req[r].op = "react" /\ req[r].seen = {}
  /\ ~Conflicting(req[r])
  /\ ~post[p].expired
  /\ reaction' = reaction \cup {e}
  /\ post' = [post EXCEPT ![p].likes = @ + 1]
  /\ Mark(End(r), {}, {p}, {e})
  /\ UNCHANGED <<user, image, job>>

(* If the post expired meanwhile, the reaction goes and the count stays.   *)
RemoveReaction(r) ==
  LET p == req[r].p
      e == <<req[r].u, p>>
  IN
  /\ req[r].pc = "txn" /\ req[r].op = "remove" /\ req[r].seen # {}
  /\ ~Conflicting(req[r])
  /\ reaction' = reaction \ {e}
  /\ IF post[p].expired
     THEN /\ Mark(End(r), {}, {}, {e})
          /\ UNCHANGED post
     ELSE /\ post' = [post EXCEPT ![p].likes = Dec(@)]
          /\ Mark(End(r), {}, {p}, {e})
  /\ UNCHANGED <<user, image, job>>

(* Write conflict: the transaction aborts and its callback runs again.     *)
Conflict(r) ==
  /\ req[r].pc = "txn"
  /\ Conflicting(req[r])
  /\ req' = [req EXCEPT ![r].pc = "resolved", ![r].posts = {}, ![r].seen = {},
                        ![r].stale = {}]
  /\ UNCHANGED <<user, post, reaction, image, job>>

-----------------------------------------------------------------------------
(* softDeleteUser                                                          *)

DeleteSnapshot(r) ==
  LET u   == req[r].u
      own == {p \in Posts : AuthorOf[p] = u}
  IN
  /\ req[r].pc = "resolved" /\ req[r].op = "account"
  /\ req' = [req EXCEPT ![r].pc = "txn",
               ![r].posts = {p \in own : Stored(p)},
               ![r].seen = {e \in reaction : e[1] = u \/ e[2] \in own}]
  /\ UNCHANGED <<user, post, reaction, image, job>>

(* Faulty variant: only the reactions the account made are removed.        *)
DeleteCommitOwnReactions(r) ==
  LET u    == req[r].u
      mine == {p \in Posts : <<u, p>> \in req[r].seen}
  IN
  /\ req[r].pc = "txn" /\ req[r].op = "account"
  /\ ~Conflicting(req[r])
  /\ ~user[u].deleted
  /\ user' = [user EXCEPT ![u] = [deleted |-> TRUE, postsCount |-> 0]]
  /\ reaction' = reaction \ {e \in req[r].seen : e[1] = u}
  /\ post' = [p \in Posts |->
                IF p \in req[r].posts THEN Gone(p, "purged")
                ELSE IF p \in mine THEN [post[p] EXCEPT !.likes = Dec(@)]
                ELSE post[p]]
  /\ Mark(Goto(r, "purge"), {u}, req[r].posts \cup mine, req[r].seen)
  /\ UNCHANGED <<image, job>>

(* Faulty variant: the likes of the account stay in likeCount.             *)
DeleteCommitKeepsLikes(r) ==
  LET u == req[r].u IN
  /\ req[r].pc = "txn" /\ req[r].op = "account"
  /\ ~Conflicting(req[r])
  /\ ~user[u].deleted
  /\ user' = [user EXCEPT ![u] = [deleted |-> TRUE, postsCount |-> 0]]
  /\ reaction' = reaction \ req[r].seen
  /\ post' = [p \in Posts |->
                IF p \in req[r].posts THEN Gone(p, "purged") ELSE post[p]]
  /\ Mark(Goto(r, "purge"), {u}, req[r].posts, req[r].seen)
  /\ UNCHANGED <<image, job>>

DeleteCommit(r) ==
  LET u    == req[r].u
      mine == {p \in Posts : <<u, p>> \in req[r].seen}
  IN
  /\ req[r].pc = "txn" /\ req[r].op = "account"
  /\ ~Conflicting(req[r])
  /\ ~user[u].deleted
  /\ user' = [user EXCEPT ![u] = [deleted |-> TRUE, postsCount |-> 0]]
  /\ reaction' = reaction \ req[r].seen
  /\ post' = [p \in Posts |->
                IF p \in req[r].posts THEN Gone(p, "purged")
                ELSE IF p \in mine THEN [post[p] EXCEPT !.likes = Dec(@)]
                ELSE post[p]]
  /\ Mark(Goto(r, "purge"), {u}, req[r].posts \cup mine, req[r].seen)
  /\ UNCHANGED <<image, job>>

(* cleanupDeletedAccountAssets, after the transaction.                     *)
PurgeImages(r) ==
  /\ req[r].pc = "purge"
  /\ \E f \in [req[r].posts -> Amount] :
       /\ \A p \in req[r].posts : f[p] \in Remaining(image[p])
       /\ image' = [p \in Posts |-> IF p \in req[r].posts THEN f[p] ELSE image[p]]
  /\ req' = End(r)
  /\ UNCHANGED <<user, post, reaction, job>>

(* The request ends without a further write: it is refused, has nothing to *)
(* do, gives up after its retries, or dies.                                *)
Abandon(r) ==
  /\ req[r].pc # "idle"
  /\ req' = End(r)
  /\ UNCHANGED <<user, post, reaction, image, job>>

-----------------------------------------------------------------------------
(* cleanupExpiredPosts                                                     *)

JobGoto(j, pc) == job' = [job EXCEPT ![j].pc = pc]
JobDone(j)     == job' = [job EXCEPT ![j] = IdleJob]

(* Faulty variant: the claim of a job that crashed is never taken over.    *)
ClaimableUnclaimed(p) ==
  /\ Stored(p) /\ post[p].expired
  /\ post[p].attempts < MaxAttempts
  /\ post[p].cleanup \in {"pending", "failed"}

Claimable(p) ==
  /\ Stored(p) /\ post[p].expired
  /\ post[p].attempts < MaxAttempts
  /\ post[p].cleanup \in {"pending", "failed"} \/ ~post[p].locked

(* claimNextExpiredPost; which of them expired first does not matter.      *)
Claim(j, p) ==
  /\ job[j].pc = "idle"
  /\ Claimable(p)
  /\ post' = [post EXCEPT ![p].cleanup = "processing", ![p].locked = TRUE,
                          ![p].attempts = @ + 1]
  /\ job' = [job EXCEPT ![j] = [pc |-> "claimed", p |-> p]]
  /\ Mark(req, {}, {p}, {})
  /\ UNCHANGED <<user, reaction, image>>

DeleteImages(j) ==
  /\ job[j].pc = "claimed"
  /\ image' = [image EXCEPT ![job[j].p] = "none"]
  /\ JobGoto(j, "removed")
  /\ UNCHANGED <<user, post, reaction, req>>

(* Faulty variant: the failure of deleteImages is only logged.             *)
FailToDeleteImagesUnnoticed(j) ==
  LET p == job[j].p IN
  /\ job[j].pc = "claimed"
  /\ \E a \in Remaining(image[p]) : image' = [image EXCEPT ![p] = a]
  /\ JobGoto(j, "removed")
  /\ UNCHANGED <<user, post, reaction, req>>

(* deleteImages with throwOnError.                                         *)
FailToDeleteImages(j) ==
  LET p == job[j].p IN
  /\ job[j].pc = "claimed"
  /\ \E a \in Remaining(image[p]) : image' = [image EXCEPT ![p] = a]
  /\ JobGoto(j, "failing")
  /\ UNCHANGED <<user, post, reaction, req>>

(* Faulty variant: a post that another job removed is counted again.       *)
RemoveExpiredAnyway(j) ==
  LET p == job[j].p IN
  /\ job[j].pc = "removed"
  /\ post' = IF Stored(p) THEN [post EXCEPT ![p] = Gone(p, "cleaned")] ELSE post
  /\ JobGoto(j, "decrement")
  /\ Mark(req, {}, {p}, {})
  /\ UNCHANGED <<user, reaction, image>>

(* deleteOne removes the post while it is being processed, by this job or  *)
(* by another; otherwise, or if it fails, the attempt has failed.          *)
RemoveExpired(j) ==
  LET p == job[j].p IN
  /\ job[j].pc = "removed"
  /\ Stored(p) /\ post[p].cleanup = "processing"
  /\ post' = [post EXCEPT ![p] = Gone(p, "cleaned")]
  /\ JobGoto(j, "decrement")
  /\ Mark(req, {}, {p}, {})
  /\ UNCHANGED <<user, reaction, image>>

NotRemoved(j) ==
  /\ job[j].pc = "removed"
  /\ JobGoto(j, "failing")
  /\ UNCHANGED <<user, post, reaction, image, req>>

(* A failure is logged, and the job goes on.                               *)
DecrementAuthor(j) ==
  LET u == AuthorOf[job[j].p] IN
  /\ job[j].pc = "decrement"
  /\ JobDone(j)
  /\ \/ /\ user' = [user EXCEPT ![u].postsCount = Dec(@)]
        /\ Mark(req, {u}, {}, {})
     \/ UNCHANGED <<user, req>>
  /\ UNCHANGED <<post, reaction, image>>

(* markCleanupFailed looks at nothing but the id.                          *)
MarkFailed(j) ==
  LET p == job[j].p IN
  /\ job[j].pc = "failing"
  /\ post' = IF Stored(p)
             THEN [post EXCEPT ![p].cleanup = "failed", ![p].locked = FALSE]
             ELSE post
  /\ JobDone(j)
  /\ Mark(req, {}, {p}, {})
  /\ UNCHANGED <<user, reaction, image>>

Crash(j) ==
  /\ job[j].pc # "idle"
  /\ JobDone(j)
  /\ UNCHANGED <<user, post, reaction, image, req>>

-----------------------------------------------------------------------------
(* Time                                                                    *)

Expire(p) ==
  /\ post[p].life \notin {"unused", "drawn"}
  /\ ~post[p].expired
  /\ post' = [post EXCEPT ![p].expired = TRUE]
  /\ UNCHANGED <<user, reaction, image, req, job>>

LockRunsOut(p) ==
  /\ post[p].locked
  /\ post' = [post EXCEPT ![p].locked = FALSE]
  /\ UNCHANGED <<user, reaction, image, req, job>>

-----------------------------------------------------------------------------
Init ==
  /\ user = [u \in Users |-> [deleted |-> FALSE, postsCount |-> 0]]
  /\ post = [p \in Posts |-> NewPost]
  /\ reaction = {}
  /\ image = [p \in Posts |-> "none"]
  /\ req = [r \in Requests |-> IdleRequest]
  /\ job = [j \in Jobs |-> IdleJob]

Start(r) ==
  \/ \E p \in Posts : StartCreate(r, p) \/ StartDelete(r, p)
  \/ \E op \in {"react", "remove"}, u \in Users, p \in Posts :
       StartReaction(r, op, u, p)
  \/ \E u \in Users : StartDeleteAccount(r, u)

CreateStep(r) ==
  \/ Insert(r) \/ NotInserted(r) \/ CountPost(r) \/ FinishCreate(r)
  \/ FailCreate(r) \/ Compensate(r)

DeleteStep(r) == DeletePost(r) \/ DecrementPostCount(r) \/ DeleteItsImages(r)

ReactionStep(r) ==
  BeginReaction(r) \/ AddReaction(r) \/ RemoveReaction(r) \/ Conflict(r)

AccountStep(r) == DeleteSnapshot(r) \/ DeleteCommit(r) \/ PurgeImages(r)

JobStep(j) ==
  \/ \E p \in Posts : Claim(j, p)
  \/ DeleteImages(j) \/ FailToDeleteImages(j) \/ RemoveExpired(j)
  \/ NotRemoved(j) \/ DecrementAuthor(j) \/ MarkFailed(j)

Next ==
  \/ \E r \in Requests :
       Start(r) \/ CreateStep(r) \/ DeleteStep(r) \/ ReactionStep(r)
         \/ AccountStep(r) \/ Abandon(r)
  \/ \E j \in Jobs : JobStep(j) \/ Crash(j)
  \/ \E p \in Posts : Expire(p) \/ LockRunsOut(p)

Spec == Init /\ [][Next]_vars

(* The scheduler starts the job every minute, a run goes on to its end     *)
(* unless its process dies, and locks run out.  Nothing is assumed of the  *)
(* requests.                                                               *)
Fairness ==
  /\ \A j \in Jobs : WF_vars(JobStep(j))
  /\ \A p \in Posts : WF_vars(LockRunsOut(p))

FairSpec == Spec /\ Fairness

-----------------------------------------------------------------------------
(* Properties                                                              *)

(* The likeCount of a visible post is the number of reactions on it,       *)
(* whatever reactions, removals and account deletions overlapped           *)
(* (reaction.service.ts:112, users.service.ts:1002).                       *)
LikesMatch ==
  \A p \in Posts : Visible(p) => post[p].likes = Cardinality(Likers(p))

(* No reaction stays on a post that went with the account of its author,   *)
(* though one may have been on its way (users.service.ts:991).             *)
NoReactionsOnPurged ==
  \A p \in Posts : post[p].life = "purged" => Likers(p) = {}

(* A visible post has all of its images: whoever gives a post up deletes   *)
(* it before its images, and a retry deletes only what it has uploaded     *)
(* itself (posts.service.ts:222).                                          *)
VisibleHasImages ==
  \A p \in Posts : Visible(p) => image[p] = "all"

(* The clean-up removes a post only after the last of its images, though   *)
(* an overtaken job goes on (expired-post-cleanup.service.ts:124).         *)
CleanedHasNoImages ==
  \A p \in Posts : post[p].life = "cleaned" => image[p] = "none"

(* Images follow their posts: none is missing while a post can be seen,    *)
(* and none is left that only a removed post named.                        *)
ImagesFollowPosts == VisibleHasImages /\ CleanedHasNoImages

(* Why.  The life of a post never goes back.  A transaction that is not    *)
(* stale finds its post stored and its reaction as it was in the snapshot; *)
(* the deletion of an account that is not stale knows every reaction on    *)
(* the posts it is to delete.                                              *)
Drawn(p)   == post[p].life = "drawn"
Created(p) == post[p].life \notin {"unused", "drawn"}
Ended(p)   == Created(p) /\ ~Stored(p)

PostOK(p) ==
  ~Created(p) => Likers(p) = {} /\ post[p].likes = 0 /\ ~post[p].expired

ReactionTxnOK(r) ==
  LET e == <<r.u, r.p>> IN
  /\ r.u \in Users
  /\ r.seen \subseteq {e}
  /\ r.op = "react" /\ "reaction" \notin r.stale => r.seen = reaction \cap {e}
  /\ r.op = "remove" /\ "reaction" \notin r.stale => r.seen \subseteq reaction
  /\ r.p \in PostsToWrite(r) /\ "post" \notin r.stale /\ ~post[r.p].expired
       => Stored(r.p)

AccountTxnOK(r) ==
  /\ r.u \in Users
  /\ \A p \in r.posts : AuthorOf[p] = r.u /\ Created(p)
  /\ \A e \in r.seen :
       /\ Created(e[2])
       /\ e[1] = r.u \/ AuthorOf[e[2]] = r.u
       /\ AuthorOf[e[2]] = r.u /\ e[2] \notin r.posts => ~Stored(e[2])
  /\ r.stale = {} =>
       /\ r.seen \subseteq reaction
       /\ \A p \in r.posts : Stored(p)
       /\ \A e \in reaction : e[2] \in r.posts => e \in r.seen

RequestOK(r) ==
  /\ r.pc = "uploaded" =>
       r.u \in Users /\ r.p \in Posts /\ Drawn(r.p) /\ image[r.p] = "all"
  /\ r.pc \in {"inserted", "counted", "compensate"} =>
       r.u \in Users /\ r.p \in Posts /\ Created(r.p)
  /\ r.pc = "resolved" =>
       /\ r.op \in {"delete", "react", "remove", "account"}
       /\ r.u \in Users
       /\ r.posts = {} /\ r.seen = {} /\ r.stale = {}
       /\ r.op # "account" => r.p \in Posts /\ Created(r.p)
  /\ r.pc \in {"removed", "images"} =>
       r.u \in Users /\ r.p \in Posts /\ Ended(r.p)
  /\ r.pc = "purge" => \A p \in r.posts : Ended(p)
  /\ r.pc = "txn" =>
       \/ r.op \in {"react", "remove"} /\ r.p \in Posts /\ Created(r.p)
                                      /\ ReactionTxnOK(r)
       \/ r.op = "account" /\ AccountTxnOK(r)

JobOK(j) ==
  job[j].pc # "idle" =>
    /\ job[j].p \in Posts
    /\ Created(job[j].p) /\ post[job[j].p].expired
    /\ job[j].pc = "removed" => image[job[j].p] = "none"

DrawnOnce ==
  \A q, r \in Requests :
    req[q].pc = "uploaded" /\ req[r].pc = "uploaded" /\ req[q].p = req[r].p
      => q = r

PostInv ==
  /\ TypeOK
  /\ LikesMatch /\ NoReactionsOnPurged /\ VisibleHasImages /\ CleanedHasNoImages
  /\ \A p \in Posts : PostOK(p)
  /\ \A r \in Requests : RequestOK(req[r])
  /\ \A j \in Jobs : JobOK(j)
  /\ DrawnOnce

(* postsCount is lowered once for each post, whoever removes it: a profile *)
(* never counts fewer posts than it has, but for those that were not       *)
(* counted yet or whose creation failed before they were                   *)
(* (expired-post-cleanup.service.ts:137).                                  *)
UncountedOf(u) ==
  {p \in Posts : AuthorOf[p] = u /\ Created(p) /\ ~post[p].counted}

PostsCountNotTooLow ==
  \A u \in Users :
    ~user[u].deleted =>
      Cardinality({p \in Posts : AuthorOf[p] = u /\ Stored(p)})
        <= user[u].postsCount + Cardinality(UncountedOf(u))

(* Why.  Who removed a post owes its author a decrement, and nobody else   *)
(* does: with what is owed the account would still not be short.           *)
OwedBy(r, p)    == req[r].pc = "removed" /\ req[r].p = p
OwedByJob(j, p) == job[j].pc = "decrement" /\ job[j].p = p

Owed(p) ==
  (\E r \in Requests : OwedBy(r, p)) \/ (\E j \in Jobs : OwedByJob(j, p))

DueOf(u) == {p \in Posts : AuthorOf[p] = u /\ (Stored(p) \/ Owed(p))}

Balanced(u) ==
  ~user[u].deleted =>
    Cardinality(DueOf(u)) <= user[u].postsCount + Cardinality(UncountedOf(u))

OwedOnce ==
  \A p \in Posts :
    /\ \A q, r \in Requests : OwedBy(q, p) /\ OwedBy(r, p) => q = r
    /\ \A j, k \in Jobs : OwedByJob(j, p) /\ OwedByJob(k, p) => j = k
    /\ \A r \in Requests, j \in Jobs : ~(OwedBy(r, p) /\ OwedByJob(j, p))

ActsForAuthor(r) ==
  r.pc \in {"uploaded", "inserted", "removed"}
    \/ (r.pc = "resolved" /\ r.op = "delete")
  => r.u = AuthorOf[r.p]

CountInv ==
  /\ IsFiniteSet({p \in Posts : Created(p)})
  /\ \A p \in Posts : ~Created(p) => ~post[p].counted
  /\ \A p \in Posts : Owed(p) => Ended(p)
  /\ \A r \in Requests : ActsForAuthor(req[r])
  /\ OwedOnce
  /\ \A u \in Users : Balanced(u)

(* Every expired post is removed in the end, or all attempts were made:    *)
(* none is held for good by a job that crashed                             *)
(* (expired-post-cleanup.service.ts:87).                                   *)
ExpiredIsResolved ==
  \A p \in Posts :
    Stored(p) /\ post[p].expired
      ~> ~Stored(p) \/ post[p].attempts = MaxAttempts

(* To its readers every post is atomic: the likes and the number beside it *)
(* change together, whatever the transactions do in between.               *)
Atomic == INSTANCE AtomicPosts WITH
  shown  <- {p \in Posts : Visible(p)},
  past   <- {p \in Posts : post[p].life \notin {"unused", "drawn"} /\ ~Visible(p)},
  likers <- [p \in Posts |-> IF Visible(p) THEN Likers(p) ELSE {}],
  count  <- [p \in Posts |-> IF Visible(p) THEN post[p].likes ELSE 0]

ReadersSeeAtomicPosts == Atomic!Spec
=============================================================================
