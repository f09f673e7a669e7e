------------------------- MODULE SocialGraph_proofs -------------------------
(***************************************************************************)
(* Proofs about SocialGraph, for any number of accounts and requests.      *)
(***************************************************************************)
EXTENDS SocialGraph, FiniteSetTheorems, TLAPS

-----------------------------------------------------------------------------
(* Requests and locks                                                      *)

(* A request in flight is about accounts.                                  *)
LEMMA RequestFields ==
  ASSUME TypeOK, NEW p \in Procs
  PROVE  /\ req[p] \in RequestRecord
         /\ req[p].pc # "idle" => req[p].a \in Users /\ req[p].b \in Users
  BY DEF TypeOK, Request

(* An idle process is a request and holds no document.                     *)
LEMMA IdleType == Idle \in Request /\ Holds(Idle) = {}
  BY NoUserAssumption DEF Idle, Request, RequestRecord, Holds

(* The two accounts of a pair, in lock order, are the pair.                *)
LEMMA PairOrder ==
  ASSUME NEW r, r.a \in Users, r.b \in Users
  PROVE  {First(r), Second(r)} = {r.a, r.b}
  BY UsersAssumption DEF First, Second

(* A transaction holds accounts only.                                      *)
LEMMA HoldsUsers ==
  ASSUME TypeOK, NEW p \in Procs
  PROVE  Holds(req[p]) \subseteq Users
  BY RequestFields DEF Holds, First

(* A step that only gives request p the state r.                           *)
LEMMA RequestStep ==
  ASSUME GraphInv, NEW p \in Procs, NEW r \in Request,
         req' = [req EXCEPT ![p] = r], UNCHANGED <<user, follows, blocks>>,
         Sound(r),
         \A q \in Procs \ {p} : Holds(r) \cap Holds(req[q]) = {}
  PROVE  GraphInv'
<1>1. \A q \in Procs : req'[q] = IF q = p THEN r ELSE req[q]
  BY DEF GraphInv, TypeOK
<1>2. TypeOK'
  BY DEF GraphInv, TypeOK
<1>3. \A q \in Procs : Sound(req'[q])
  BY <1>1 DEF GraphInv, LockInv
<1>4. \A x : Sound(x)' <=> Sound(x)
  BY DEF Sound, Holds, First
<1>5. \A x : Holds(x)' = Holds(x)
  BY DEF Holds, First
<1>6. LockInv'
  BY <1>1, <1>3, <1>4, <1>5 DEF GraphInv, LockInv
<1> QED
  BY <1>2, <1>6 DEF GraphInv, NoFollowAcrossBlock, NoEdgesOfDeleted

(* Mark changes nothing of a request but its flag, which it never clears.  *)
LEMMA MarkEffect ==
  ASSUME NEW req2 \in [Procs -> Request], NEW us, Mark(req2, us)
  PROVE  /\ req' \in [Procs -> Request]
         /\ \A q \in Procs :
              /\ req'[q].pc = req2[q].pc /\ req'[q].op = req2[q].op
              /\ req'[q].a = req2[q].a /\ req'[q].b = req2[q].b
              /\ req'[q].seen = req2[q].seen
              /\ ~req'[q].stale =>
                   ~req2[q].stale /\ ToWrite(req2[q]) \cap us = {}
<1>1. \A q \in Procs :
        req'[q] = IF ToWrite(req2[q]) \cap us # {}
                  THEN [req2[q] EXCEPT !.stale = TRUE] ELSE req2[q]
  BY DEF Mark
<1>2. \A x \in Request : [x EXCEPT !.stale = TRUE] \in Request
  BY DEF Request, RequestRecord
<1>3. req' \in [Procs -> Request]
  BY <1>1, <1>2 DEF Mark
<1> QED
  BY <1>1, <1>3 DEF Request, RequestRecord

(* A step that changes the graph ends one request, or none, and leaves the *)
(* others what they hold.                                                  *)
LEMMA OthersKeepLocks ==
  ASSUME GraphInv, NEW us,
         \A q \in Procs :
           \/ req'[q] = Idle
           \/ /\ req'[q].pc = req[q].pc /\ req'[q].op = req[q].op
              /\ req'[q].a = req[q].a /\ req'[q].b = req[q].b
              /\ req'[q].seen = req[q].seen
              /\ ~req'[q].stale => ~req[q].stale
              /\ Holds(req[q]) \cap us = {},
         \A v \in Users \ us : /\ user'[v].deleted = user[v].deleted
                               /\ user'[v].active = user[v].active,
         \A e \in blocks' : e \in blocks \/ (e[1] \in us /\ e[2] \in us)
  PROVE  LockInv'
<1>1. /\ Idle.pc = "idle" /\ Holds(Idle) = {}
      /\ \A x : Holds(x)' = Holds(x)
  BY IdleType DEF Idle, Holds, First
<1>2. \A q \in Procs : Holds(req'[q]) \subseteq Holds(req[q])
  BY <1>1 DEF Holds, First
<1>3. ASSUME NEW p \in Procs, NEW q \in Procs, Holds(req'[p]) \cap Holds(req'[q]) # {}
      PROVE  p = q
  BY <1>2, <1>3 DEF GraphInv, LockInv
<1>4. ASSUME NEW p \in Procs PROVE Sound(req[p])
  BY DEF GraphInv, LockInv
<1>5. ASSUME NEW p \in Procs, req'[p] # Idle PROVE Sound(req[p])'
  <2>1. /\ req'[p].pc = req[p].pc /\ req'[p].op = req[p].op
        /\ req'[p].a = req[p].a /\ req'[p].b = req[p].b
        /\ req'[p].seen = req[p].seen
        /\ ~req'[p].stale => ~req[p].stale
        /\ Holds(req[p]) \cap us = {}
    BY <1>5
  <2>2. Holds(req[p])' = Holds(req[p]) /\ Holds(req[p]) \subseteq Users
    BY <2>1, HoldsUsers DEF Holds, First, GraphInv
  <2>3. \A u \in Holds(req[p]) : ~user'[u].deleted
    BY <1>4, <2>1, <2>2 DEF Sound
  <2>4. req[p].pc = "claimed" => user'[req[p].a].active
    <3>1. req[p].pc = "claimed" => req[p].a \in Holds(req[p])
      BY DEF Holds
    <3> QED
      BY <1>4, <2>1, <2>2, <3>1 DEF Sound
  <2>5. req[p].pc \in {"first", "locked"} => blocks' \cap Between(req[p].a, req[p].b) \subseteq blocks
    <3>1. req[p].pc \in {"first", "locked"}
            => req[p].a \in Holds(req[p]) \/ req[p].b \in Holds(req[p])
      BY DEF Holds, First
    <3> QED
      BY <2>1, <3>1 DEF Between
  <2> QED
    BY <1>4, <2>1, <2>2, <2>3, <2>4, <2>5 DEF Sound, Between
<1>6. ASSUME NEW p \in Procs, req'[p] = Idle PROVE Sound(req[p])'
  BY <1>6 DEF Sound, Idle, Holds
<1>7. ASSUME NEW p \in Procs, NEW q \in Procs,
             Holds(req[p])' \cap Holds(req[q])' # {}
      PROVE  p = q
  BY <1>3, <1>7 DEF Holds, First
<1> QED
  BY <1>5, <1>6, <1>7 DEF LockInv

(* Request p ends with a write to the documents us, which it holds.        *)
LEMMA EndEffect ==
  ASSUME GraphInv, NEW p \in Procs, NEW us, Mark(End(p), us)
  PROVE  /\ req' \in [Procs -> Request]
         /\ req'[p] = Idle
         /\ \A q \in Procs \ {p} :
              /\ req'[q].pc = req[q].pc /\ req'[q].op = req[q].op
              /\ req'[q].a = req[q].a /\ req'[q].b = req[q].b
              /\ req'[q].seen = req[q].seen
              /\ ~req'[q].stale => ~req[q].stale
<1>1. End(p) \in [Procs -> Request]
  BY IdleType DEF End, GraphInv, TypeOK
<1>2. End(p)[p] = Idle /\ \A q \in Procs \ {p} : End(p)[q] = req[q]
  BY DEF End, GraphInv, TypeOK
<1>3. ToWrite(Idle) = {}
  BY DEF ToWrite, Idle
<1>4. req'[p] = Idle
  BY <1>2, <1>3 DEF Mark
<1> QED
  BY <1>1, <1>2, <1>4, MarkEffect

(* A counter that is lowered stays a natural number.                       *)
LEMMA DecType == \A n \in Nat : Dec(n) \in Nat
  BY DEF Dec

(* Counters are natural numbers, and lowering them touches nothing else.   *)
LEMMA CounterType ==
  ASSUME TypeOK, NEW u \in Users
  PROVE  /\ user[u] \in UserDoc
         /\ Dec(user[u].following) \in Nat /\ Dec(user[u].followers) \in Nat
         /\ \A es : /\ WithoutFollows(u, es) \in UserDoc
                    /\ WithoutFollows(u, es).deleted = user[u].deleted
                    /\ WithoutFollows(u, es).active = user[u].active
<1>1. user[u] \in UserDoc
  BY DEF TypeOK
<1>2. Dec(user[u].following) \in Nat /\ Dec(user[u].followers) \in Nat
  BY <1>1 DEF UserDoc, Dec
<1>3. \A m, n \in Nat :
        /\ [user[u] EXCEPT !.following = m, !.followers = n] \in UserDoc
        /\ [user[u] EXCEPT !.following = m, !.followers = n].deleted = user[u].deleted
        /\ [user[u] EXCEPT !.following = m, !.followers = n].active = user[u].active
  BY <1>1 DEF UserDoc
<1>4. ASSUME NEW es
      PROVE  \E m, n \in Nat : WithoutFollows(u, es)
                                = [user[u] EXCEPT !.following = m, !.followers = n]
  <2>1. user[u].following \in Nat /\ user[u].followers \in Nat
    BY <1>1 DEF UserDoc
  <2> DEFINE m == IF \E v \in Users : <<u, v>> \in es
                  THEN Dec(user[u].following) ELSE user[u].following
             n == IF \E v \in Users : <<v, u>> \in es
                  THEN Dec(user[u].followers) ELSE user[u].followers
  <2>2. m \in Nat /\ n \in Nat
    BY <1>2, <2>1
  <2>3. WithoutFollows(u, es) = [user[u] EXCEPT !.following = m, !.followers = n]
    BY DEF WithoutFollows
  <2> QED
    BY <2>2, <2>3
<1>5. ASSUME NEW es
      PROVE  /\ WithoutFollows(u, es) \in UserDoc
             /\ WithoutFollows(u, es).deleted = user[u].deleted
             /\ WithoutFollows(u, es).active = user[u].active
  <2>1. PICK m \in Nat, n \in Nat :
          WithoutFollows(u, es) = [user[u] EXCEPT !.following = m, !.followers = n]
    BY <1>4
  <2> QED
    BY <1>3, <2>1
<1> QED
  BY <1>1, <1>2, <1>5

(* What a locked pair is known to be.                                      *)
LEMMA LockedPair ==
  ASSUME GraphInv, NEW p \in Procs, req[p].pc = "locked"
  PROVE  /\ req[p].a \in Users /\ req[p].b \in Users /\ req[p].a # req[p].b
         /\ Holds(req[p]) = {req[p].a, req[p].b}
         /\ ~user[req[p].a].deleted /\ ~user[req[p].b].deleted
         /\ blocks \cap Between(req[p].a, req[p].b) \subseteq req[p].seen
         /\ \A q \in Procs \ {p} : Holds(req[q]) \cap {req[p].a, req[p].b} = {}
<1>1. Holds(req[p]) = {req[p].a, req[p].b}
  BY DEF Holds
<1>2. Sound(req[p]) /\ \A q \in Procs \ {p} : Holds(req[q]) \cap {req[p].a, req[p].b} = {}
  BY <1>1 DEF GraphInv, LockInv
<1> QED
  BY <1>1, <1>2, RequestFields DEF GraphInv, Sound, PairOps

(* A request that ends after writing accounts only it held keeps the locks *)
(* of the others sound.                                                    *)
LEMMA EndKeepsLocks ==
  ASSUME GraphInv, NEW p \in Procs, NEW us, NEW vs, Mark(End(p), vs),
         \A q \in Procs \ {p} : Holds(req[q]) \cap us = {},
         \A v \in Users \ us : /\ user'[v].deleted = user[v].deleted
                               /\ user'[v].active = user[v].active,
         \A e \in blocks' : e \in blocks \/ (e[1] \in us /\ e[2] \in us)
  PROVE  LockInv'
<1>1. /\ req'[p] = Idle
      /\ \A q \in Procs \ {p} :
           /\ req'[q].pc = req[q].pc /\ req'[q].op = req[q].op
           /\ req'[q].a = req[q].a /\ req'[q].b = req[q].b
           /\ req'[q].seen = req[q].seen
           /\ ~req'[q].stale => ~req[q].stale
  BY EndEffect
<1> QED
  BY <1>1, OthersKeepLocks

(* Follow, unfollow and block, at their commit.                            *)
LEMMA PairCommitStep ==
  ASSUME GraphInv, NEW p \in Procs,
         FollowCommit(p) \/ UnfollowCommit(p) \/ BlockCommit(p)
  PROVE  GraphInv'
<1> DEFINE a == req[p].a
           b == req[p].b
<1>1. req[p].pc = "locked" /\ Mark(End(p), {a, b})
  BY DEF FollowCommit, UnfollowCommit, BlockCommit
<1>2. user' \in [Users -> UserDoc]
  <2>1. CASE FollowCommit(p)
    <3>1. [user EXCEPT ![a].following = @ + 1] \in [Users -> UserDoc]
      BY <1>1, LockedPair DEF GraphInv, TypeOK, UserDoc
    <3>2. PICK doc \in [Users -> UserDoc] : doc = [user EXCEPT ![a].following = @ + 1]
      BY <3>1
    <3>3. user' = [doc EXCEPT ![b].followers = @ + 1] /\ b \in Users
      BY <1>1, <2>1, <3>2, LockedPair DEF FollowCommit
    <3>4. [doc[b] EXCEPT !.followers = @ + 1] \in UserDoc
      BY <3>2, <3>3 DEF UserDoc
    <3> QED
      BY <3>2, <3>3, <3>4
  <2>2. CASE UnfollowCommit(p)
    <3>1. [user EXCEPT ![a].following = Dec(@)] \in [Users -> UserDoc]
      BY <1>1, LockedPair, CounterType DEF GraphInv, TypeOK, UserDoc
    <3>2. PICK doc \in [Users -> UserDoc] :
            doc = [user EXCEPT ![a].following = Dec(@)]
      BY <3>1
    <3>3. user' = [doc EXCEPT ![b].followers = Dec(@)] /\ b \in Users
      BY <1>1, <2>2, <3>2, LockedPair DEF UnfollowCommit
    <3>4. Dec(doc[b].followers) \in Nat
      BY <3>2, <3>3, DecType DEF UserDoc
    <3>5. [doc[b] EXCEPT !.followers = Dec(@)] \in UserDoc
      BY <3>2, <3>3, <3>4 DEF UserDoc
    <3> QED
      BY <3>2, <3>3, <3>5
  <2>3. CASE BlockCommit(p)
    BY <2>3, CounterType DEF BlockCommit, GraphInv
  <2> QED
    BY <2>1, <2>2, <2>3
<1>3. \A v \in Users : /\ user'[v].deleted = user[v].deleted
                       /\ user'[v].active = user[v].active
  BY CounterType DEF FollowCommit, UnfollowCommit, BlockCommit, GraphInv, TypeOK, UserDoc
<1>4. /\ \A e \in blocks' : e \in blocks \/ e = <<a, b>>
      /\ \A e \in follows' : e \in follows \/ e = <<a, b>>
  BY DEF FollowCommit, UnfollowCommit, BlockCommit
<1>5. TypeOK'
  BY <1>1, <1>2, <1>4, EndEffect, LockedPair DEF GraphInv, TypeOK, Edges
<1>6. LockInv'
  <2>1. PICK us : us = {a, b}
    OBVIOUS
  <2>2. \A e \in blocks' : e \in blocks \/ (e[1] \in us /\ e[2] \in us)
    BY <1>4, <2>1
  <2>3. Mark(End(p), us) /\ \A q \in Procs \ {p} : Holds(req[q]) \cap us = {}
    BY <1>1, <2>1, LockedPair
  <2> QED
    BY <1>3, <2>2, <2>3, EndKeepsLocks
<1>7. NoFollowAcrossBlock'
  <2>1. \A c, d \in Users : <<c, d>> \in follows => blocks \cap Between(c, d) = {}
    BY DEF GraphInv, NoFollowAcrossBlock
  <2>2. CASE FollowCommit(p)
    <3>1. /\ follows' = follows \cup {<<a, b>>} /\ blocks' = blocks
          /\ blocks \cap Between(a, b) = {}
      BY <1>1, <2>2, LockedPair DEF FollowCommit, FollowAllowed
    <3> QED
      BY <2>1, <3>1 DEF NoFollowAcrossBlock, Between
  <2>3. CASE UnfollowCommit(p)
    BY <2>1, <2>3 DEF UnfollowCommit, NoFollowAcrossBlock, Between
  <2>4. CASE BlockCommit(p)
    <3>1. /\ follows' = follows \ Between(a, b)
          /\ blocks' = blocks \cup {<<a, b>>}
      BY <2>4 DEF BlockCommit
    <3> QED
      BY <2>1, <3>1 DEF NoFollowAcrossBlock, Between
  <2> QED
    BY <2>2, <2>3, <2>4
<1>8. NoEdgesOfDeleted'
  BY <1>1, <1>3, <1>4, LockedPair DEF GraphInv, NoEdgesOfDeleted, Touching, Edges
<1> QED
  BY <1>5, <1>6, <1>7, <1>8 DEF GraphInv

(* An account is deleted with every edge that touches it.                  *)
LEMMA DeleteCommitStep ==
  ASSUME GraphInv, NEW p \in Procs, DeleteCommit(p)
  PROVE  GraphInv'
<1> DEFINE u == req[p].a
<1>1. req[p].pc = "claimed" /\ Mark(End(p), {u} \cup Neighbours(u))
  BY DEF DeleteCommit
<1>2. /\ u \in Users /\ Holds(req[p]) = {u}
      /\ \A q \in Procs \ {p} : Holds(req[q]) \cap {u} = {}
  BY <1>1, RequestFields DEF GraphInv, LockInv, Holds
<1>3. user' \in [Users -> UserDoc]
  <2>1. [user[u] EXCEPT !.deleted = TRUE, !.followers = 0, !.following = 0] \in UserDoc
    BY <1>2 DEF GraphInv, TypeOK, UserDoc
  <2> QED
    BY <1>2, <2>1, CounterType DEF DeleteCommit, GraphInv
<1>4. /\ \A v \in Users \ {u} : /\ user'[v].deleted = user[v].deleted
                                /\ user'[v].active = user[v].active
  BY <1>2, CounterType DEF DeleteCommit, GraphInv
<1>5. /\ follows' = follows \ Touching(u) /\ blocks' = blocks \ Touching(u)
  BY DEF DeleteCommit
<1>6. TypeOK'
  BY <1>1, <1>3, <1>5, EndEffect DEF GraphInv, TypeOK
<1>7. LockInv'
  <2>1. PICK us : us = {u}
    OBVIOUS
  <2> QED
    BY <1>1, <1>2, <1>4, <1>5, <2>1, EndKeepsLocks
<1>8. NoFollowAcrossBlock'
  BY <1>5 DEF GraphInv, NoFollowAcrossBlock
<1>9. NoEdgesOfDeleted'
  BY <1>4, <1>5 DEF GraphInv, NoEdgesOfDeleted
<1> QED
  BY <1>6, <1>7, <1>8, <1>9 DEF GraphInv

(* A block is removed under no lock.                                       *)
LEMMA UnblockStep ==
  ASSUME GraphInv, NEW p \in Procs, Unblock(p)
  PROVE  GraphInv'
<1>1. /\ blocks' \subseteq blocks /\ UNCHANGED <<user, follows>>
  BY DEF Unblock
<1>2. req' \in [Procs -> Request] /\ req'[p] = Idle
  <2>1. \A q \in Procs : [req[q] EXCEPT !.stale = TRUE] \in Request
    BY DEF GraphInv, TypeOK, Request, RequestRecord
  <2>2. End(p) \in [Procs -> Request] /\ End(p)[p] = Idle
    BY IdleType DEF End, GraphInv, TypeOK
  <2> QED
    BY <2>1, <2>2, IdleType DEF Unblock, End, GraphInv, TypeOK
<1>3. \A q \in Procs \ {p} :
        /\ req'[q].pc = req[q].pc /\ req'[q].op = req[q].op
        /\ req'[q].a = req[q].a /\ req'[q].b = req[q].b
        /\ req'[q].seen = req[q].seen
        /\ ~req'[q].stale => ~req[q].stale
  BY DEF Unblock, End, GraphInv, TypeOK, Request, RequestRecord
<1>4. LockInv'
  <2> DEFINE us == {}
  <2>1. \A q \in Procs : Holds(req[q]) \cap us = {}
    OBVIOUS
  <2> HIDE DEF us
  <2> QED
    BY <1>1, <1>2, <1>3, <2>1, OthersKeepLocks
<1> QED
  BY <1>1, <1>2, <1>4 DEF GraphInv, TypeOK, NoFollowAcrossBlock, NoEdgesOfDeleted

(* The status of an account nobody holds.                                  *)
LEMMA StatusStep ==
  ASSUME GraphInv, NEW u \in Users, SetStatus(u)
  PROVE  GraphInv'
<1>1. user' \in [Users -> UserDoc]
  BY DEF SetStatus, GraphInv, TypeOK, UserDoc
<1>2. /\ \A v \in Users : user'[v].deleted = user[v].deleted
      /\ \A v \in Users \ {u} : user'[v] = user[v]
  BY DEF SetStatus, GraphInv, TypeOK, UserDoc
<1>3. /\ req' \in [Procs -> Request]
      /\ \A q \in Procs :
           /\ req'[q].pc = req[q].pc /\ req'[q].op = req[q].op
           /\ req'[q].a = req[q].a /\ req'[q].b = req[q].b
           /\ req'[q].seen = req[q].seen
           /\ ~req'[q].stale => ~req[q].stale
           /\ Holds(req[q]) \cap {u} = {}
  BY MarkEffect DEF SetStatus, GraphInv, TypeOK, Held
<1>4. UNCHANGED <<follows, blocks>>
  BY DEF SetStatus
<1>5. LockInv'
  BY <1>2, <1>3, <1>4, OthersKeepLocks
<1> QED
  BY <1>1, <1>2, <1>3, <1>4, <1>5
     DEF GraphInv, TypeOK, NoFollowAcrossBlock, NoEdgesOfDeleted

(* The steps that only move one request, by the state they give it.        *)
LEMMA MoveStep ==
  ASSUME GraphInv, NEW p \in Procs,
         \/ \E a, b \in Users, op \in AllOps : Start(p, op, a, b)
         \/ \E a \in Users : StartDelete(p, a)
         \/ LockFirst(p) \/ LockSecond(p) \/ DeleteSnapshot(p) \/ DeleteClaim(p)
         \/ Conflict(p) \/ Refuse(p) \/ Fail(p)
  PROVE  GraphInv'
<1>1. CASE Refuse(p) \/ Fail(p)
  <2>1. Sound(Idle)
    BY DEF Sound, Idle, Holds
  <2> QED
    BY <1>1, <2>1, IdleType, RequestStep DEF Refuse, Fail, End
<1>2. ASSUME NEW a \in Users, NEW b \in Users, NEW op \in AllOps, Start(p, op, a, b)
      PROVE  GraphInv'
  <2> DEFINE r == [op |-> op, pc |-> "resolved", a |-> a, b |-> b, seen |-> {},
                   stale |-> FALSE]
  <2>1. r \in Request
    BY DEF Request, RequestRecord
  <2>2. Sound(r) /\ Holds(r) = {}
    BY <1>2 DEF Start, Sound, Holds
  <2> QED
    BY <1>2, <2>1, <2>2, RequestStep DEF Start
<1>3. ASSUME NEW a \in Users, StartDelete(p, a) PROVE GraphInv'
  <2> DEFINE r == [op |-> "delete", pc |-> "resolved", a |-> a, b |-> a,
                   seen |-> {}, stale |-> FALSE]
  <2>1. r \in Request
    BY DEF Request, RequestRecord, AllOps
  <2>2. Sound(r) /\ Holds(r) = {}
    BY DEF Sound, Holds
  <2> QED
    BY <1>3, <2>1, <2>2, RequestStep DEF StartDelete
<1>4. CASE LockFirst(p)
  <2> DEFINE r == [req[p] EXCEPT !.pc = "first",
                     !.seen = blocks \cap Between(req[p].a, req[p].b)]
  <2>1. /\ req[p].pc = "resolved" /\ req[p].op \in PairOps
        /\ ~Held({First(req[p])}) /\ ~user[First(req[p])].deleted
        /\ req' = [req EXCEPT ![p] = r] /\ UNCHANGED <<user, follows, blocks>>
    BY <1>4 DEF LockFirst
  <2>2. r \in Request
    BY <2>1, RequestFields DEF GraphInv, TypeOK, Request, RequestRecord
  <2>3. Holds(r) = {First(req[p])}
    BY RequestFields DEF Holds, First, GraphInv, RequestRecord
  <2>4. Sound(req[p])
    BY DEF GraphInv, LockInv
  <2>5. Sound(r)
    <3>1. /\ r.pc = "first" /\ r.op = req[p].op /\ r.a = req[p].a
          /\ r.b = req[p].b /\ r.seen = blocks \cap Between(req[p].a, req[p].b)
      BY RequestFields DEF GraphInv, RequestRecord
    <3> QED
      BY <2>1, <2>3, <2>4, <3>1 DEF Sound
  <2> QED
    BY <2>1, <2>2, <2>3, <2>5, RequestStep DEF Held
<1>5. CASE LockSecond(p)
  <2> DEFINE r == [req[p] EXCEPT !.pc = "locked"]
  <2>1. /\ req[p].pc = "first" /\ ~req[p].stale
        /\ ~Held({Second(req[p])}) /\ ~user[Second(req[p])].deleted
        /\ req' = [req EXCEPT ![p] = r] /\ UNCHANGED <<user, follows, blocks>>
    BY <1>5 DEF LockSecond
  <2>2. r \in Request
    BY <2>1, RequestFields DEF GraphInv, Request, RequestRecord
  <2>3. /\ r.pc = "locked" /\ r.op = req[p].op /\ r.a = req[p].a
        /\ r.b = req[p].b /\ r.seen = req[p].seen
    BY RequestFields DEF GraphInv, RequestRecord
  <2>4. Holds(r) = {First(req[p]), Second(req[p])}
    BY <2>1, <2>3, RequestFields, PairOrder DEF Holds, GraphInv
  <2>5. /\ Sound(req[p])
        /\ \A q \in Procs \ {p} : Holds(req[p]) \cap Holds(req[q]) = {}
        /\ Holds(req[p]) = {First(req[p])}
    BY <2>1 DEF GraphInv, LockInv, Holds
  <2>6. Sound(r)
    BY <2>1, <2>3, <2>4, <2>5 DEF Sound
  <2>7. \A q \in Procs \ {p} : Holds(r) \cap Holds(req[q]) = {}
    BY <2>1, <2>4, <2>5 DEF Held
  <2> HIDE DEF r
  <2> QED
    BY <2>1, <2>2, <2>6, <2>7, RequestStep
<1>6. CASE DeleteSnapshot(p)
  <2> DEFINE r == [req[p] EXCEPT !.pc = "snapshot"]
  <2>1. /\ req[p].pc = "resolved" /\ req[p].op = "delete"
        /\ req' = [req EXCEPT ![p] = r] /\ UNCHANGED <<user, follows, blocks>>
    BY <1>6 DEF DeleteSnapshot
  <2>2. r \in Request
    BY <2>1, RequestFields DEF GraphInv, Request, RequestRecord
  <2>3. r.pc = "snapshot" /\ r.op = "delete"
    BY <2>1, RequestFields DEF GraphInv, RequestRecord
  <2>4. Holds(r) = {} /\ Sound(r)
    BY <2>3 DEF Holds, Sound
  <2> QED
    BY <2>1, <2>2, <2>4, RequestStep
<1>7. CASE DeleteClaim(p)
  <2> DEFINE r == [req[p] EXCEPT !.pc = "claimed"]
  <2>1. /\ req[p].pc = "snapshot" /\ ~Held({req[p].a}) /\ Usable(req[p].a)
        /\ req' = [req EXCEPT ![p] = r] /\ UNCHANGED <<user, follows, blocks>>
    BY <1>7 DEF DeleteClaim
  <2>2. r \in Request
    BY <2>1, RequestFields DEF GraphInv, Request, RequestRecord
  <2>3. r.pc = "claimed" /\ r.op = req[p].op /\ r.a = req[p].a
    BY <2>1, RequestFields DEF GraphInv, RequestRecord
  <2>4. Holds(r) = {req[p].a}
    BY <2>3 DEF Holds
  <2>5. Sound(req[p])
    BY DEF GraphInv, LockInv
  <2>6. Sound(r)
    BY <2>1, <2>3, <2>4, <2>5 DEF Sound, Usable
  <2> QED
    BY <2>1, <2>2, <2>4, <2>6, RequestStep DEF Held
<1>8. CASE Conflict(p)
  <2> DEFINE r == [req[p] EXCEPT !.pc = "resolved", !.seen = {}, !.stale = FALSE]
  <2>1. /\ req[p].pc # "idle"
        /\ req' = [req EXCEPT ![p] = r] /\ UNCHANGED <<user, follows, blocks>>
    BY <1>8 DEF Conflict
  <2>2. r \in Request
    BY <2>1, RequestFields DEF GraphInv, Request, RequestRecord
  <2>3. r.pc = "resolved" /\ r.op = req[p].op /\ r.a = req[p].a /\ r.b = req[p].b
    BY <2>1, RequestFields DEF GraphInv, RequestRecord
  <2>4. Sound(req[p])
    BY DEF GraphInv, LockInv
  <2>5. Holds(r) = {} /\ Sound(r)
    BY <2>1, <2>3, <2>4 DEF Holds, Sound
  <2> QED
    BY <2>1, <2>2, <2>5, RequestStep
<1> QED
  BY <1>1, <1>2, <1>3, <1>4, <1>5, <1>6, <1>7, <1>8

-----------------------------------------------------------------------------
(* The invariant                                                           *)

(* The initial states satisfy it.                                          *)
LEMMA GraphInit == Init => GraphInv
<1> SUFFICES ASSUME Init PROVE GraphInv
  OBVIOUS
<1>1. TypeOK
  BY IdleType DEF Init, TypeOK, UserDoc
<1>2. LockInv
  BY IdleType DEF Init, LockInv, Sound, Idle
<1> QED
  BY <1>1, <1>2 DEF Init, GraphInv, NoFollowAcrossBlock, NoEdgesOfDeleted

(* The invariant is inductive.                                             *)
LEMMA GraphStep == GraphInv /\ [Next]_vars => GraphInv'
<1> SUFFICES ASSUME GraphInv, [Next]_vars PROVE GraphInv'
  OBVIOUS
<1>1. CASE UNCHANGED vars
  <2>1. LockInv'
    <3>1. \A x : Holds(x)' = Holds(x)
      BY DEF Holds, First
    <3>2. req' = req /\ user' = user /\ blocks' = blocks
      BY <1>1 DEF vars
    <3> QED
      BY <3>1, <3>2 DEF GraphInv, LockInv, Sound
  <2> QED
    BY <1>1, <2>1
       DEF vars, GraphInv, TypeOK, NoFollowAcrossBlock, NoEdgesOfDeleted
<1>2. CASE Next
  BY <1>2, MoveStep, PairCommitStep, DeleteCommitStep, UnblockStep, StatusStep
     DEF Next, PairStep, DeleteStep
<1> QED
  BY <1>1, <1>2

(* No two transactions hold the same account, and what a locked pair has   *)
(* read of its blocks is still so (social-graph-lock.util.ts:5).           *)
THEOREM GraphCorrect == Spec => []GraphInv
<1> QED
  BY GraphInit, GraphStep, PTL DEF Spec

(* Nobody follows across a block.                                          *)
THEOREM NoFollowAcrossBlockCorrect == Spec => []NoFollowAcrossBlock
<1>1. GraphInv => NoFollowAcrossBlock
  BY DEF GraphInv
<1> QED
  BY <1>1, GraphCorrect, PTL

(* A deleted account is left in no edge.                                   *)
THEOREM NoEdgesOfDeletedCorrect == Spec => []NoEdgesOfDeleted
<1>1. GraphInv => NoEdgesOfDeleted
  BY DEF GraphInv
<1> QED
  BY <1>1, GraphCorrect, PTL

-----------------------------------------------------------------------------
(* Every step is a step of the atomic graph, or changes nothing of it      *)

(* What a step does to the graph is what the atomic operation does.        *)
LEMMA AtomicStep == GraphInv /\ [Next]_vars => [Graph!Next]_(Graph!vars)
<1> SUFFICES ASSUME GraphInv, [Next]_vars PROVE [Graph!Next]_(Graph!vars)
  OBVIOUS
<1> DEFINE live   == {u \in Users : ~user[u].deleted}
           active == {u \in Users : user[u].active}
<1>1. CASE UNCHANGED <<user, follows, blocks>>
  BY <1>1 DEF Graph!vars
<1>2. ASSUME NEW p \in Procs, FollowCommit(p) \/ UnfollowCommit(p) \/ BlockCommit(p)
      PROVE  Graph!Next
  <2> DEFINE a == req[p].a
             b == req[p].b
  <2>1. /\ a \in Users /\ b \in Users /\ a # b
        /\ ~user[a].deleted /\ ~user[b].deleted
        /\ blocks \cap Between(a, b) \subseteq req[p].seen
    BY <1>2, LockedPair DEF FollowCommit, UnfollowCommit, BlockCommit
  <2>2. \A v \in Users : /\ user'[v].deleted = user[v].deleted
                         /\ user'[v].active = user[v].active
    BY <1>2, CounterType
       DEF FollowCommit, UnfollowCommit, BlockCommit, GraphInv, TypeOK, UserDoc
  <2>3. live' = live /\ active' = active
    BY <2>2
  <2>4. Graph!Follow(a, b) \/ Graph!Unfollow(a, b) \/ Graph!Block(a, b)
    <3>1. CASE FollowCommit(p)
      BY <2>1, <2>3, <3>1 DEF FollowCommit, FollowAllowed, Usable, Graph!Follow,
         Graph!Usable, Between, Graph!Between
    <3>2. CASE UnfollowCommit(p)
      BY <2>1, <2>3, <3>2 DEF UnfollowCommit, UnfollowAllowed, Usable,
         Graph!Unfollow, Graph!Usable
    <3>3. CASE BlockCommit(p)
      BY <2>1, <2>3, <3>3 DEF BlockCommit, BlockAllowed, Usable, Graph!Block,
         Graph!Usable, Between, Graph!Between
    <3> QED
      BY <1>2, <3>1, <3>2, <3>3
  <2> QED
    BY <2>1, <2>4 DEF Graph!Next
<1>3. ASSUME NEW p \in Procs, DeleteCommit(p) PROVE Graph!Next
  <2> DEFINE u == req[p].a
  <2>1. u \in Users /\ Usable(u)
    BY <1>3, RequestFields DEF DeleteCommit, GraphInv, LockInv, Sound, Holds, Usable
  <2>2. \A v \in Users \ {u} : /\ user'[v].deleted = user[v].deleted
                              /\ user'[v].active = user[v].active
    BY <1>3, <2>1, CounterType DEF DeleteCommit, GraphInv
  <2>3. user'[u].deleted /\ user'[u].active = user[u].active
    BY <1>3, <2>1 DEF DeleteCommit, GraphInv, TypeOK, UserDoc
  <2>4. live' = live \ {u} /\ active' = active
    BY <2>1, <2>2, <2>3
  <2>5. ASSUME NEW v \in Users, v = u PROVE Graph!Delete(v)
    BY <1>3, <2>1, <2>4, <2>5 DEF DeleteCommit, Graph!Delete, Graph!Usable, Usable,
       Touching, Graph!Touching, Edges
  <2> QED
    BY <2>1, <2>5 DEF Graph!Next
<1>4. ASSUME NEW p \in Procs, Unblock(p) PROVE Graph!Next
  <2>1. req[p].a \in Users /\ req[p].b \in Users
    BY <1>4, RequestFields DEF Unblock, GraphInv
  <2>2. Graph!Unblock(req[p].a, req[p].b)
    BY <1>4 DEF Unblock, Graph!Unblock
  <2> QED
    BY <2>1, <2>2 DEF Graph!Next
<1>5. ASSUME NEW u \in Users, SetStatus(u) PROVE Graph!Next
  <2>1. /\ \A v \in Users : user'[v].deleted = user[v].deleted
        /\ \A v \in Users \ {u} : user'[v].active = user[v].active
        /\ user'[u].active = ~user[u].active
    BY <1>5 DEF SetStatus, GraphInv, TypeOK, UserDoc
  <2>2. /\ live' = live
        /\ active' = IF u \in active THEN active \ {u} ELSE active \cup {u}
    BY <2>1 DEF GraphInv, TypeOK, UserDoc
  <2>3. Graph!SetStatus(u)
    BY <1>5, <2>2 DEF SetStatus, Graph!SetStatus
  <2> QED
    BY <2>3 DEF Graph!Next
<1>6. CASE Next
  <2>1. ASSUME NEW p \in Procs,
               \/ \E a, b \in Users, op \in AllOps : Start(p, op, a, b)
               \/ \E a \in Users : StartDelete(p, a)
               \/ LockFirst(p) \/ LockSecond(p) \/ DeleteSnapshot(p)
               \/ DeleteClaim(p) \/ Conflict(p) \/ Refuse(p) \/ Fail(p)
        PROVE  UNCHANGED <<user, follows, blocks>>
    BY <2>1 DEF Start, StartDelete, LockFirst, LockSecond, DeleteSnapshot,
       DeleteClaim, Conflict, Refuse, Fail
  <2> QED
    BY <1>1, <1>2, <1>3, <1>4, <1>5, <1>6, <2>1 DEF Next, PairStep, DeleteStep
<1> QED
  BY <1>1, <1>6 DEF vars

(* The initial states are initial states of the atomic graph.              *)
LEMMA AtomicInit == Init => Graph!Init
  BY DEF Init, Graph!Init

(* Follow, unfollow, block, unblock and deletion are linearizable: each    *)
(* takes effect at its commit, on the graph as it is at that step.         *)
THEOREM AtomicGraphCorrect == Spec => AtomicGraph
<1> QED
  BY AtomicInit, AtomicStep, GraphCorrect, PTL DEF Spec, AtomicGraph, Graph!Spec

-----------------------------------------------------------------------------
(* The counters                                                            *)

(* Whom an account follows, and who follows it.                            *)
Following(u) == {v \in Users : <<u, v>> \in follows}
Followers(u) == {v \in Users : <<v, u>> \in follows}

(* They are finite sets: there are finitely many accounts.                 *)
LEMMA NeighboursFinite ==
  ASSUME NEW u
  PROVE  /\ IsFiniteSet(Following(u)) /\ Cardinality(Following(u)) \in Nat
         /\ IsFiniteSet(Followers(u)) /\ Cardinality(Followers(u)) \in Nat
  BY UsersAssumption, FS_Subset, FS_CardinalityType DEF Following, Followers

(* CountersMatch in terms of these sets.                                   *)
LEMMA CountersAre ==
  CountersMatch <=> \A u \in Users :
                      /\ user[u].following = Cardinality(Following(u))
                      /\ user[u].followers = Cardinality(Followers(u))
  BY DEF CountersMatch, Following, Followers

(* Taking away a set with one member of a finite set, or with none.        *)
LEMMA LessOne ==
  ASSUME NEW S, IsFiniteSet(S), NEW T \in SUBSET S,
         \A x, y \in T : x = y
  PROVE  Cardinality(S \ T) = IF T # {} THEN Dec(Cardinality(S))
                                        ELSE Cardinality(S)
<1>1. CASE T = {}
  BY <1>1
<1>2. CASE T # {}
  <2>1. PICK x \in T : T = {x}
    BY <1>2
  <2>2. Cardinality(S \ {x}) = Cardinality(S) - 1 /\ IsFiniteSet(S \ {x})
    BY <2>1, FS_RemoveElement
  <2>3. Cardinality(S) \in Nat /\ Cardinality(S \ {x}) \in Nat
    BY <2>2, FS_CardinalityType
  <2> QED
    BY <1>2, <2>1, <2>2, <2>3 DEF Dec
<1> QED
  BY <1>1, <1>2

(* WithoutFollows keeps the counters of an account right if it loses one   *)
(* follow in each direction at most.                                       *)
LEMMA LowerCounters ==
  ASSUME TypeOK, CountersMatch, NEW u \in Users, NEW es \in SUBSET follows,
         follows' = follows \ es,
         \A v, w \in Users : /\ <<u, v>> \in es /\ <<u, w>> \in es => v = w
                             /\ <<v, u>> \in es /\ <<w, u>> \in es => v = w
  PROVE  /\ WithoutFollows(u, es).following = Cardinality(Following(u)')
         /\ WithoutFollows(u, es).followers = Cardinality(Followers(u)')
<1> DEFINE out == {v \in Users : <<u, v>> \in es}
           in  == {v \in Users : <<v, u>> \in es}
<1>1. /\ WithoutFollows(u, es).following
           = IF out # {} THEN Dec(user[u].following) ELSE user[u].following
      /\ WithoutFollows(u, es).followers
           = IF in # {} THEN Dec(user[u].followers) ELSE user[u].followers
  BY DEF WithoutFollows, TypeOK, UserDoc
<1>2. /\ Following(u)' = Following(u) \ out /\ out \in SUBSET Following(u)
      /\ Followers(u)' = Followers(u) \ in /\ in \in SUBSET Followers(u)
  BY DEF Following, Followers
<1>3. (\A x, y \in out : x = y) /\ (\A x, y \in in : x = y)
  OBVIOUS
<1> HIDE DEF out, in
<1>4. /\ Cardinality(Following(u) \ out)
           = IF out # {} THEN Dec(Cardinality(Following(u)))
                         ELSE Cardinality(Following(u))
      /\ Cardinality(Followers(u) \ in)
           = IF in # {} THEN Dec(Cardinality(Followers(u)))
                        ELSE Cardinality(Followers(u))
  BY <1>2, <1>3, LessOne, NeighboursFinite
<1> QED
  BY <1>1, <1>2, <1>4, CountersAre

(* A follow raises one counter of each account by its one new edge.        *)
LEMMA FollowCounters ==
  ASSUME GraphInv, CountersMatch, NEW p \in Procs, FollowCommit(p)
  PROVE  CountersMatch'
<1>1. PICK a \in Users, b \in Users :
        /\ a # b /\ <<a, b>> \notin follows
        /\ follows' = follows \cup {<<a, b>>}
        /\ user' = [user EXCEPT ![a].following = @ + 1, ![b].followers = @ + 1]
  BY LockedPair DEF FollowCommit, FollowAllowed
<1>2. /\ \A u \in Users \ {a} : Following(u)' = Following(u)
      /\ \A u \in Users \ {b} : Followers(u)' = Followers(u)
      /\ Following(a)' = Following(a) \cup {b} /\ b \notin Following(a)
      /\ Followers(b)' = Followers(b) \cup {a} /\ a \notin Followers(b)
  BY <1>1 DEF Following, Followers
<1>3. \A u \in Users :
        /\ user'[u].following = user[u].following + (IF u = a THEN 1 ELSE 0)
        /\ user'[u].followers = user[u].followers + (IF u = b THEN 1 ELSE 0)
  BY <1>1 DEF GraphInv, TypeOK, UserDoc
<1>4. \A u \in Users : /\ user[u].following = Cardinality(Following(u))
                       /\ user[u].followers = Cardinality(Followers(u))
                       /\ Cardinality(Following(u)) \in Nat
                       /\ Cardinality(Followers(u)) \in Nat
  BY CountersAre, NeighboursFinite
<1>5. Cardinality(Following(a)') = Cardinality(Following(a)) + 1
  BY <1>2, NeighboursFinite, FS_AddElement
<1>6. Cardinality(Followers(b)') = Cardinality(Followers(b)) + 1
  BY <1>2, NeighboursFinite, FS_AddElement
<1>7. ASSUME NEW u \in Users
      PROVE  user'[u].following = Cardinality(Following(u)')
  <2>1. CASE u = a
    BY <1>3, <1>4, <1>5, <2>1
  <2>2. CASE u # a
    BY <1>2, <1>3, <1>4, <2>2
  <2> QED
    BY <2>1, <2>2
<1>8. ASSUME NEW u \in Users
      PROVE  user'[u].followers = Cardinality(Followers(u)')
  <2>1. CASE u = b
    BY <1>3, <1>4, <1>6, <2>1
  <2>2. CASE u # b
    BY <1>2, <1>3, <1>4, <2>2
  <2> QED
    BY <2>1, <2>2
<1> QED
  BY <1>7, <1>8 DEF CountersMatch, Following, Followers

(* Every other commit removes follows, at most one per account and         *)
(* direction, unless it deletes the account.                               *)
LEMMA RemovalCounters ==
  ASSUME GraphInv, CountersMatch, NEW es \in SUBSET follows,
         follows' = follows \ es,
         \A u \in Users :
           \/ /\ user'[u].following = 0 /\ user'[u].followers = 0
              /\ \A v \in Users : <<u, v>> \notin follows' /\ <<v, u>> \notin follows'
           \/ /\ user'[u].following = WithoutFollows(u, es).following
              /\ user'[u].followers = WithoutFollows(u, es).followers
              /\ \A v, w \in Users :
                   /\ <<u, v>> \in es /\ <<u, w>> \in es => v = w
                   /\ <<v, u>> \in es /\ <<w, u>> \in es => v = w
  PROVE  CountersMatch'
<1>1. ASSUME NEW u \in Users
      PROVE  /\ user'[u].following = Cardinality(Following(u)')
             /\ user'[u].followers = Cardinality(Followers(u)')
  <2>1. CASE /\ user'[u].following = 0 /\ user'[u].followers = 0
             /\ \A v \in Users : <<u, v>> \notin follows' /\ <<v, u>> \notin follows'
    <3>1. Following(u)' = {} /\ Followers(u)' = {}
      BY <2>1 DEF Following, Followers
    <3> QED
      BY <2>1, <3>1, FS_EmptySet
  <2> QED
    BY <2>1, LowerCounters DEF GraphInv
<1> QED
  BY <1>1 DEF CountersMatch, Following, Followers

(* Every step keeps the counters equal to the number of edges.             *)
LEMMA CountersStep == GraphInv /\ CountersMatch /\ [Next]_vars => CountersMatch'
<1> SUFFICES ASSUME GraphInv, CountersMatch, [Next]_vars PROVE CountersMatch'
  OBVIOUS
<1>1. ASSUME UNCHANGED follows,
             \A u \in Users : /\ user'[u].following = user[u].following
                              /\ user'[u].followers = user[u].followers
      PROVE  CountersMatch'
  BY <1>1 DEF CountersMatch
<1>2. ASSUME NEW p \in Procs, UnfollowCommit(p) PROVE CountersMatch'
  <2> DEFINE a == req[p].a
             b == req[p].b
             es == {<<a, b>>}
  <2>1. /\ a \in Users /\ b \in Users /\ a # b /\ es \in SUBSET follows
        /\ follows' = follows \ es
        /\ user' = [user EXCEPT ![a].following = Dec(@), ![b].followers = Dec(@)]
    BY <1>2, LockedPair DEF UnfollowCommit, UnfollowAllowed
  <2>2. ASSUME NEW u \in Users
        PROVE  /\ user'[u].following = WithoutFollows(u, es).following
               /\ user'[u].followers = WithoutFollows(u, es).followers
    BY <2>1 DEF WithoutFollows, GraphInv, TypeOK, UserDoc
  <2> QED
    BY <2>1, <2>2, RemovalCounters
<1>3. ASSUME NEW p \in Procs, BlockCommit(p) PROVE CountersMatch'
  <2> DEFINE es == follows \cap Between(req[p].a, req[p].b)
  <2>1. /\ follows' = follows \ es /\ req[p].a # req[p].b
        /\ user' = [u \in Users |-> WithoutFollows(u, es)]
    BY <1>3, LockedPair DEF BlockCommit
  <2>2. \A u, v, w \in Users : /\ <<u, v>> \in es /\ <<u, w>> \in es => v = w
                               /\ <<v, u>> \in es /\ <<w, u>> \in es => v = w
    BY <2>1 DEF Between
  <2> HIDE DEF es
  <2>3. es \in SUBSET follows
    BY DEF es
  <2> QED
    BY <2>1, <2>2, <2>3, RemovalCounters
<1>4. ASSUME NEW p \in Procs, DeleteCommit(p) PROVE CountersMatch'
  <2> DEFINE x  == req[p].a
             es == follows \cap Touching(x)
  <2>1. /\ follows' = follows \ es
        /\ user' = [v \in Users |->
                      IF v = x THEN [user[x] EXCEPT !.deleted = TRUE,
                                       !.followers = 0, !.following = 0]
                               ELSE WithoutFollows(v, es)]
    BY <1>4 DEF DeleteCommit
  <2>2. \A u \in Users \ {x} : \A v, w \in Users :
          /\ <<u, v>> \in es /\ <<u, w>> \in es => v = w
          /\ <<v, u>> \in es /\ <<w, u>> \in es => v = w
    BY DEF Touching
  <2>3. \A v \in Users : <<x, v>> \notin follows' /\ <<v, x>> \notin follows'
    BY <2>1 DEF Touching, GraphInv, TypeOK, Edges
  <2>4. x \in Users => user'[x].following = 0 /\ user'[x].followers = 0
    BY <2>1 DEF GraphInv, TypeOK, UserDoc
  <2> HIDE DEF es
  <2>5. es \in SUBSET follows
    BY DEF es
  <2>6. \A u \in Users \ {x} : user'[u] = WithoutFollows(u, es)
    BY <2>1
  <2> QED
    BY <2>1, <2>2, <2>3, <2>4, <2>5, <2>6, RemovalCounters
<1>5. ASSUME NEW u \in Users, SetStatus(u) PROVE CountersMatch'
  BY <1>1, <1>5 DEF SetStatus, GraphInv, TypeOK, UserDoc
<1>6. ASSUME UNCHANGED <<user, follows>> PROVE CountersMatch'
  BY <1>1, <1>6
<1>7. CASE Next
  <2>1. ASSUME NEW p \in Procs,
               \/ \E a, b \in Users, op \in AllOps : Start(p, op, a, b)
               \/ \E a \in Users : StartDelete(p, a)
               \/ LockFirst(p) \/ LockSecond(p) \/ DeleteSnapshot(p)
               \/ DeleteClaim(p) \/ Conflict(p) \/ Refuse(p) \/ Fail(p)
               \/ Unblock(p)
        PROVE  UNCHANGED <<user, follows>>
    BY <2>1 DEF Start, StartDelete, LockFirst, LockSecond, DeleteSnapshot,
       DeleteClaim, Conflict, Refuse, Fail, Unblock
  <2> QED
    BY <1>2, <1>3, <1>4, <1>5, <1>6, <1>7, <2>1, FollowCounters
       DEF Next, PairStep, DeleteStep
<1> QED
  BY <1>6, <1>7 DEF vars

(* Nobody follows anybody at first, and the counters are zero.             *)
LEMMA CountersInit == Init => CountersMatch
<1> SUFFICES ASSUME Init PROVE CountersMatch
  OBVIOUS
<1>1. \A u \in Users : /\ user[u].following = 0 /\ user[u].followers = 0
                       /\ {v \in Users : <<u, v>> \in follows} = {}
                       /\ {v \in Users : <<v, u>> \in follows} = {}
  BY DEF Init
<1> QED
  BY <1>1, FS_EmptySet DEF CountersMatch

(* Every account's counters are the number of its follows, in every        *)
(* reachable state (relationship.service.ts:164, block.service.ts:132,     *)
(* users.service.ts:813).                                                  *)
THEOREM CountersCorrect == Spec => []CountersMatch
<1> QED
  BY GraphCorrect, CountersInit, CountersStep, PTL DEF Spec
=============================================================================
