---------------------------- MODULE SocialGraph ----------------------------
(***************************************************************************)
(* The social graph: relationships (follows), blocks, and the counters     *)
(* followersCount and followingCount of every account.                     *)
(*                                                                         *)
(*   src/src/modules/relationshipModule/services/relationship.service.ts   *)
(*   src/src/modules/relationshipModule/services/block.service.ts          *)
(*   src/src/modules/relationshipModule/utils/social-graph-lock.util.ts    *)
(*   src/src/modules/users/services/users.service.ts (softDeleteUser)      *)
(*                                                                         *)
(* Follow, unfollow and block run as MongoDB transactions that first write *)
(* both user documents, in the order of their ids (socialGraphVersion).    *)
(* The first of these writes fixes the snapshot; the second, and each of   *)
(* softDeleteUser's, conflicts if the document was written since or is     *)
(* held by another transaction, and the transaction runs again.  Unblock   *)
(* runs outside any transaction and takes no lock.                         *)
(***************************************************************************)
EXTENDS Integers, FiniteSets

CONSTANTS
  Users,  \* accounts, by id
  Procs,  \* requests that may be in flight at the same time
  Ops,    \* the operations clients use
  NoUser

PairOps == {"follow", "unfollow", "block"}
AllOps  == PairOps \cup {"unblock", "delete", "status"}

ASSUME UsersAssumption == Users \subseteq Int /\ IsFiniteSet(Users)
ASSUME NoUserAssumption == NoUser \in Int \ Users
ASSUME OpsAssumption == Ops \subseteq AllOps

VARIABLES
  user,     \* users collection: deletion, status and the two counters
  follows,  \* relationships collection
  blocks,   \* blocks collection
  req       \* the in-flight request of each process

vars == <<user, follows, blocks, req>>

Edges == Users \X Users

UserDoc == [deleted : BOOLEAN, active : BOOLEAN, followers : Nat, following : Nat]

RequestRecord ==
  [op    : AllOps \cup {"none"},
   pc    : {"idle", "resolved", "first", "locked", "snapshot", "claimed"},
   a     : Users \cup {NoUser},  \* the current user
   b     : Users \cup {NoUser},  \* the target
   seen  : SUBSET Edges, \* blocks between the two in the snapshot
   stale : BOOLEAN]      \* a document it is to write has changed since

Request ==
  {r \in RequestRecord : r.pc # "idle" => r.a \in Users /\ r.b \in Users}

Idle == [op |-> "none", pc |-> "idle", a |-> NoUser, b |-> NoUser, seen |-> {},
         stale |-> FALSE]

TypeOK ==
  /\ user \in [Users -> UserDoc]
  /\ follows \subseteq Edges
  /\ blocks \subseteq Edges
  /\ req \in [Procs -> Request]

Usable(u) == ~user[u].deleted /\ user[u].active

Between(a, b) == {<<a, b>>, <<b, a>>}

Touching(u) == {e \in Edges : e[1] = u \/ e[2] = u}

Neighbours(u) == {v \in Users : follows \cap Between(u, v) # {}}

-----------------------------------------------------------------------------
(* User documents a transaction has written, and has still to write        *)

First(r)  == IF r.a < r.b THEN r.a ELSE r.b
Second(r) == IF r.a < r.b THEN r.b ELSE r.a

Holds(r) == CASE r.pc = "first"   -> {First(r)}
              [] r.pc = "locked"  -> {r.a, r.b}
              [] r.pc = "claimed" -> {r.a}
              [] OTHER            -> {}

ToWrite(r) == CASE r.pc = "first"    -> {Second(r)}
                [] r.pc = "snapshot" -> {r.a} \cup Neighbours(r.a)
                [] r.pc = "claimed"  -> Neighbours(r.a)
                [] OTHER             -> {}

Held(us) == \E q \in Procs : Holds(req[q]) \cap us # {}

(* The requests are req2, but for those of which the step has written a    *)
(* user document in us that they are to write.                             *)
Mark(req2, us) ==
  req' = [q \in Procs |->
            IF ToWrite(req2[q]) \cap us # {} THEN [req2[q] EXCEPT !.stale = TRUE]
                                             ELSE req2[q]]

End(p) == [req EXCEPT ![p] = Idle]

Dec(n) == IF n > 0 THEN n - 1 ELSE 0

-----------------------------------------------------------------------------
(* The target is looked up before the transaction                          *)

Start(p, op, a, b) ==
  /\ op \in Ops \cap (PairOps \cup {"unblock"})
  /\ req[p].pc = "idle"
  /\ a # b
  /\ Usable(a)
  /\ IF op = "unfollow" THEN ~user[b].deleted ELSE Usable(b)
  /\ req' = [req EXCEPT ![p] = [op |-> op, pc |-> "resolved", a |-> a, b |-> b,
                                seen |-> {}, stale |-> FALSE]]
  /\ UNCHANGED <<user, follows, blocks>>

(* softDeleteUser has verified the password.                               *)
StartDelete(p, a) ==
  /\ "delete" \in Ops
  /\ req[p].pc = "idle"
  /\ Usable(a)
  /\ req' = [req EXCEPT ![p] = [op |-> "delete", pc |-> "resolved", a |-> a,
                                b |-> a, seen |-> {}, stale |-> FALSE]]
  /\ UNCHANGED <<user, follows, blocks>>

-----------------------------------------------------------------------------
(* acquireSocialGraphPairLock                                              *)

(* Faulty variant: the pair lock is left out.                              *)
LockFirstUnguarded(p) ==
  LET r == req[p] IN
  /\ r.pc = "resolved" /\ r.op \in PairOps
  /\ req' = [req EXCEPT ![p].pc = "locked",
                        ![p].seen = blocks \cap Between(r.a, r.b)]
  /\ UNCHANGED <<user, follows, blocks>>

LockFirst(p) ==
  LET r == req[p] IN
  /\ r.pc = "resolved" /\ r.op \in PairOps
  /\ ~Held({First(r)})
  /\ ~user[First(r)].deleted
  /\ req' = [req EXCEPT ![p].pc = "first",
                        ![p].seen = blocks \cap Between(r.a, r.b)]
  /\ UNCHANGED <<user, follows, blocks>>

LockSecond(p) ==
  LET r == req[p] IN
  /\ r.pc = "first"
  /\ ~r.stale
  /\ ~Held({Second(r)})
  /\ ~user[Second(r)].deleted
  /\ req' = [req EXCEPT ![p].pc = "locked"]
  /\ UNCHANGED <<user, follows, blocks>>

(* Write conflict: the transaction aborts and its callback runs again.     *)
Conflict(p) ==
  LET r == req[p] IN
  /\ r.pc \in {"first", "snapshot", "claimed"}
  /\ \/ r.stale
     \/ \E q \in Procs \ {p} : Holds(req[q]) \cap ToWrite(r) # {}
  /\ req' = [req EXCEPT ![p].pc = "resolved", ![p].seen = {},
                        ![p].stale = FALSE]
  /\ UNCHANGED <<user, follows, blocks>>

-----------------------------------------------------------------------------
(* The transactions                                                        *)

(* Faulty variant: the accounts are not read again under the lock.         *)
FollowAllowedAnyStatus(r) == r.seen = {} /\ <<r.a, r.b>> \notin follows

FollowAllowed(r) ==
  Usable(r.a) /\ Usable(r.b) /\ r.seen = {} /\ <<r.a, r.b>> \notin follows

UnfollowAllowed(r) == Usable(r.a) /\ <<r.a, r.b>> \in follows

BlockAllowed(r) == Usable(r.a) /\ Usable(r.b) /\ <<r.a, r.b>> \notin r.seen

FollowCommit(p) ==
  LET r == req[p] IN
  /\ r.pc = "locked" /\ r.op = "follow"
  /\ FollowAllowed(r)
  /\ follows' = follows \cup {<<r.a, r.b>>}
  /\ user' = [user EXCEPT ![r.a].following = @ + 1, ![r.b].followers = @ + 1]
  /\ Mark(End(p), {r.a, r.b})
  /\ UNCHANGED blocks

UnfollowCommit(p) ==
  LET r == req[p] IN
  /\ r.pc = "locked" /\ r.op = "unfollow"
  /\ UnfollowAllowed(r)
  /\ follows' = follows \ {<<r.a, r.b>>}
  /\ user' = [user EXCEPT ![r.a].following = Dec(@), ![r.b].followers = Dec(@)]
  /\ Mark(End(p), {r.a, r.b})
  /\ UNCHANGED blocks

(* Counters after every follow in es is removed.                           *)
WithoutFollows(u, es) ==
  [user[u] EXCEPT
     !.following = IF \E v \in Users : <<u, v>> \in es THEN Dec(@) ELSE @,
     !.followers = IF \E v \in Users : <<v, u>> \in es THEN Dec(@) ELSE @]

(* Faulty variant: the counters of the reverse follow are left alone.      *)
BlockCommitOneWay(p) ==
  LET r == req[p] IN
  /\ r.pc = "locked" /\ r.op = "block"
  /\ BlockAllowed(r)
  /\ blocks' = blocks \cup {<<r.a, r.b>>}
  /\ follows' = follows \ Between(r.a, r.b)
  /\ user' = [u \in Users |-> WithoutFollows(u, follows \cap {<<r.a, r.b>>})]
  /\ Mark(End(p), {r.a, r.b})

BlockCommit(p) ==
  LET r == req[p] IN
  /\ r.pc = "locked" /\ r.op = "block"
  /\ BlockAllowed(r)
  /\ blocks' = blocks \cup {<<r.a, r.b>>}
  /\ follows' = follows \ Between(r.a, r.b)
  /\ user' = [u \in Users |-> WithoutFollows(u, follows \cap Between(r.a, r.b))]
  /\ Mark(End(p), {r.a, r.b})

(* softDeleteUser reads the posts of the account before it claims it: the  *)
(* snapshot is older than the claim.                                       *)
DeleteSnapshot(p) ==
  /\ req[p].pc = "resolved" /\ req[p].op = "delete"
  /\ req' = [req EXCEPT ![p].pc = "snapshot"]
  /\ UNCHANGED <<user, follows, blocks>>

DeleteClaim(p) ==
  LET u == req[p].a IN
  /\ req[p].pc = "snapshot"
  /\ ~req[p].stale
  /\ ~Held({u})
  /\ Usable(u)
  /\ req' = [req EXCEPT ![p].pc = "claimed"]
  /\ UNCHANGED <<user, follows, blocks>>

(* Faulty variant: only the follows the account made are removed.          *)
DeleteCommitOutgoing(p) ==
  LET u  == req[p].a
      es == {e \in follows : e[1] = u}
  IN
  /\ req[p].pc = "claimed"
  /\ ~req[p].stale
  /\ ~Held(Neighbours(u))
  /\ follows' = follows \ es
  /\ blocks' = blocks \ Touching(u)
  /\ user' = [v \in Users |->
                IF v = u THEN [user[u] EXCEPT !.deleted = TRUE, !.followers = 0,
                                              !.following = 0]
                         ELSE WithoutFollows(v, es)]
  /\ Mark(End(p), {u} \cup Neighbours(u))

(* The edges are removed and the counters of every neighbour lowered.      *)
DeleteCommit(p) ==
  LET u  == req[p].a
      es == follows \cap Touching(u)
  IN
  /\ req[p].pc = "claimed"
  /\ ~req[p].stale
  /\ ~Held(Neighbours(u))
  /\ follows' = follows \ es
  /\ blocks' = blocks \ Touching(u)
  /\ user' = [v \in Users |->
                IF v = u THEN [user[u] EXCEPT !.deleted = TRUE, !.followers = 0,
                                              !.following = 0]
                         ELSE WithoutFollows(v, es)]
  /\ Mark(End(p), {u} \cup Neighbours(u))

(* findOneAndDelete on the block, with no lock: a deletion that has this   *)
(* block in its snapshot will conflict on it.                              *)
Unblock(p) ==
  LET r == req[p] IN
  /\ r.pc = "resolved" /\ r.op = "unblock"
  /\ <<r.a, r.b>> \in blocks
  /\ blocks' = blocks \ {<<r.a, r.b>>}
  /\ req' = [q \in Procs |->
               IF q # p /\ req[q].pc \in {"snapshot", "claimed"}
                        /\ req[q].a \in {r.a, r.b}
               THEN [req[q] EXCEPT !.stale = TRUE]
               ELSE End(p)[q]]
  /\ UNCHANGED <<user, follows>>

(* A check fails: the transaction aborts and the request is refused.       *)
Refuse(p) ==
  LET r == req[p] IN
  /\ \/ r.pc = "resolved" /\ r.op \in PairOps /\ user[First(r)].deleted
     \/ r.pc = "resolved" /\ r.op = "unblock" /\ <<r.a, r.b>> \notin blocks
     \/ r.pc = "first" /\ ~r.stale /\ user[Second(r)].deleted
     \/ r.pc = "locked" /\ r.op = "follow" /\ ~FollowAllowed(r)
     \/ r.pc = "locked" /\ r.op = "unfollow" /\ ~UnfollowAllowed(r)
     \/ r.pc = "locked" /\ r.op = "block" /\ ~BlockAllowed(r)
     \/ r.pc = "snapshot" /\ ~r.stale /\ ~Usable(r.a)
  /\ req' = End(p)
  /\ UNCHANGED <<user, follows, blocks>>

(* The request dies, or its retries are exhausted.                         *)
Fail(p) ==
  /\ req[p].pc # "idle"
  /\ req' = End(p)
  /\ UNCHANGED <<user, follows, blocks>>

(* Nothing under src/ writes status: an operator does, in the database.    *)
SetStatus(u) ==
  /\ "status" \in Ops
  /\ ~user[u].deleted
  /\ ~Held({u})
  /\ user' = [user EXCEPT ![u].active = ~@]
  /\ Mark(req, {u})
  /\ UNCHANGED <<follows, blocks>>

-----------------------------------------------------------------------------
Init ==
  /\ user = [u \in Users |-> [deleted |-> FALSE, active |-> TRUE,
                              followers |-> 0, following |-> 0]]
  /\ follows = {}
  /\ blocks = {}
  /\ req = [p \in Procs |-> Idle]

PairStep(p) ==
  \/ LockFirst(p) \/ LockSecond(p)
  \/ FollowCommit(p) \/ UnfollowCommit(p) \/ BlockCommit(p)
  \/ Unblock(p)

DeleteStep(p) == DeleteSnapshot(p) \/ DeleteClaim(p) \/ DeleteCommit(p)

Next ==
  \/ \E p \in Procs :
       \/ \E a, b \in Users, op \in AllOps : Start(p, op, a, b)
       \/ \E a \in Users : StartDelete(p, a)
       \/ PairStep(p) \/ DeleteStep(p)
       \/ Conflict(p) \/ Refuse(p) \/ Fail(p)
  \/ \E u \in Users : SetStatus(u)

Spec == Init /\ [][Next]_vars

-----------------------------------------------------------------------------
(* Properties                                                              *)

(* Nobody follows across a block: a block removes the follows of both      *)
(* directions, and a follow that races with it either commits first and is *)
(* removed, or sees the block (social-graph-lock.util.ts:5).               *)
NoFollowAcrossBlock ==
  \A a, b \in Users : <<a, b>> \in follows => blocks \cap Between(a, b) = {}

(* A deleted account is in no edge: no follow or block commits after the   *)
(* deletion has listed what to remove (users.service.ts:813).              *)
NoEdgesOfDeleted ==
  \A u \in Users : user[u].deleted => (follows \cup blocks) \cap Touching(u) = {}

(* The counters are the number of edges, for every account, through races, *)
(* retries, blocks and deletions (users.service.ts:1087).                  *)
CountersMatch ==
  \A u \in Users :
    /\ user[u].following = Cardinality({v \in Users : <<u, v>> \in follows})
    /\ user[u].followers = Cardinality({v \in Users : <<v, u>> \in follows})

(* Every operation takes effect as one step on the graph as it is then.    *)
Graph == INSTANCE AtomicSocialGraph WITH
           live   <- {u \in Users : ~user[u].deleted},
           active <- {u \in Users : user[u].active}

AtomicGraph == Graph!Spec

(* Why they hold: one transaction at a time holds a user document, a pair  *)
(* that is locked is not deleted, and what its snapshot missed is only an  *)
(* unblock.                                                                *)
Sound(r) ==
  /\ r.pc # "idle" /\ r.op # "delete" => r.a # r.b
  /\ \A u \in Holds(r) : ~user[u].deleted
  /\ r.pc \in {"first", "locked"} => r.op \in PairOps
  /\ r.pc \in {"snapshot", "claimed"} => r.op = "delete"
  /\ r.pc = "claimed" => user[r.a].active
  /\ r.pc = "locked" \/ (r.pc = "first" /\ ~r.stale)
       => blocks \cap Between(r.a, r.b) \subseteq r.seen

LockInv ==
  \A p \in Procs :
    /\ Sound(req[p])
    /\ \A q \in Procs : Holds(req[p]) \cap Holds(req[q]) # {} => p = q

GraphInv ==
  TypeOK /\ LockInv /\ NoFollowAcrossBlock /\ NoEdgesOfDeleted
=============================================================================
