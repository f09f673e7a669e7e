----------------------- MODULE PostEngagement_proofs -----------------------
(***************************************************************************)
(* Proofs about PostEngagement, for any number of accounts, posts,         *)
(* requests and runs of the clean-up.                                      *)
(***************************************************************************)
EXTENDS PostEngagement, FiniteSetTheorems, TLAPS

(* What the invariant says of one post.                                    *)
PostGood(p) ==
  /\ Visible(p) => post[p].likes = Cardinality(Likers(p))
  /\ post[p].life = "purged" => Likers(p) = {}
  /\ Visible(p) => image[p] = "all"
  /\ post[p].life = "cleaned" => image[p] = "none"
  /\ PostOK(p)

(* The invariant, by post, request and job.                                *)
LEMMA Parts ==
  PostInv <=> /\ TypeOK
              /\ \A p \in Posts : PostGood(p)
              /\ \A r \in Requests : RequestOK(req[r])
              /\ \A j \in Jobs : JobOK(j)
              /\ DrawnOnce
  BY DEF PostInv, PostGood, LikesMatch, NoReactionsOnPurged, VisibleHasImages,
     CleanedHasNoImages

-----------------------------------------------------------------------------
(* What a step does to the requests it is not about                        *)

(* No post goes back in its life, only the posts ps are removed or get     *)
(* reactions, and only the reactions es are written.                       *)
Writes(ps, es) ==
  /\ \A p \in Posts :
       /\ Created(p) => Created(p)'
       /\ Ended(p) => Ended(p)'
       /\ post[p].expired => post'[p].expired
       /\ Stored(p) /\ p \notin ps => Stored(p)'
  /\ \A e \in Users \X Posts :
       /\ e \in reaction /\ e \notin es => e \in reaction'
       /\ e \in reaction' /\ e \notin es => e \in reaction
       /\ e \in reaction' /\ e[2] \notin ps => e \in reaction

(* Marking changes nothing of a request but what is stale, and takes       *)
(* nothing away from that.                                                 *)
LEMMA MarkedEffect ==
  ASSUME NEW x \in Request, NEW us, NEW ps, NEW es
  PROVE  LET y == Marked(x, us, ps, es) IN
         /\ y \in Request
         /\ y.op = x.op /\ y.pc = x.pc /\ y.u = x.u /\ y.p = x.p
         /\ y.posts = x.posts /\ y.seen = x.seen
         /\ x.stale \subseteq y.stale
         /\ x.pc # "txn" => y = x
         /\ x.pc = "txn" /\ "post" \notin y.stale => PostsToWrite(x) \cap ps = {}
         /\ x.pc = "txn" /\ "reaction" \notin y.stale
              => ReactionsToWrite(x) \cap es = {}
<1> DEFINE y == Marked(x, us, ps, es)
           s == StaleAfter(x, us, ps, es)
<1>1. /\ x.stale \subseteq s /\ s \in SUBSET {"user", "post", "reaction"}
      /\ "post" \notin s => PostsToWrite(x) \cap ps = {}
      /\ "reaction" \notin s => ReactionsToWrite(x) \cap es = {}
  BY DEF StaleAfter, Request
<1>2. y = IF x.pc = "txn" THEN [x EXCEPT !.stale = s] ELSE x
  BY DEF Marked
<1> HIDE DEF s
<1>3. CASE x.pc = "txn"
  <2>1. y = [x EXCEPT !.stale = s]
    BY <1>2, <1>3
  <2>2. y \in Request
    BY <2>1, <1>1 DEF Request
  <2>3. /\ y.op = x.op /\ y.pc = x.pc /\ y.u = x.u /\ y.p = x.p
        /\ y.posts = x.posts /\ y.seen = x.seen /\ y.stale = s
    BY <2>1 DEF Request
  <2> QED
    BY <2>2, <2>3, <1>1, <1>3
<1>4. CASE x.pc # "txn"
  BY <1>2, <1>4
<1> QED
  BY <1>3, <1>4

(* When nothing is written nothing is marked.                              *)
LEMMA MarkedNothing ==
  ASSUME NEW x \in Request PROVE Marked(x, {}, {}, {}) = x
<1>1. StaleAfter(x, {}, {}, {}) = x.stale
  BY DEF StaleAfter
<1>2. [x EXCEPT !.stale = x.stale] = x
  BY DEF Request
<1> QED
  BY <1>1, <1>2 DEF Marked

(* A transaction of a reaction, as another request or job writes.          *)
LEMMA ReactionTxnKept ==
  ASSUME NEW x \in Request, NEW y \in Request, NEW ps, NEW es,
         x.pc = "txn", x.op \in {"react", "remove"}, x.p \in Posts,
         ReactionTxnOK(x), Writes(ps, es),
         y.op = x.op, y.u = x.u, y.p = x.p, y.seen = x.seen,
         x.stale \subseteq y.stale,
         "post" \notin y.stale => PostsToWrite(x) \cap ps = {},
         "reaction" \notin y.stale => ReactionsToWrite(x) \cap es = {}
  PROVE  ReactionTxnOK(y)'
<1> DEFINE e == <<x.u, x.p>>
<1>1. e \in Users \X Posts /\ e = <<y.u, y.p>>
  BY DEF ReactionTxnOK
<1>2. x.u \in Users /\ x.seen \subseteq {e}
  BY DEF ReactionTxnOK
<1>3. PostsToWrite(y) = PostsToWrite(x)
  BY DEF PostsToWrite
<1>4. ASSUME y.op = "react", "reaction" \notin y.stale
      PROVE  y.seen = reaction' \cap {e}
  <2>1. e \notin es /\ x.seen = reaction \cap {e}
    BY <1>4 DEF ReactionsToWrite, ReactionTxnOK
  <2>2. e \in reaction' <=> e \in reaction
    BY <2>1, <1>1 DEF Writes
  <2> QED
    BY <2>1, <2>2
<1>5. ASSUME y.op = "remove", "reaction" \notin y.stale
      PROVE  y.seen \subseteq reaction'
  <2>1. x.seen \cap es = {} /\ x.seen \subseteq reaction
    BY <1>5 DEF ReactionsToWrite, ReactionTxnOK
  <2> QED
    BY <2>1, <1>1, <1>2 DEF Writes
<1>6. ASSUME y.p \in PostsToWrite(y), "post" \notin y.stale, ~post'[y.p].expired
      PROVE  Stored(y.p)'
  <2>1. x.p \in PostsToWrite(x) /\ x.p \notin ps
    BY <1>6, <1>3
  <2>2. "post" \notin x.stale /\ ~post[x.p].expired
    BY <1>6 DEF Writes
  <2>3. Stored(x.p)
    BY <2>1, <2>2 DEF ReactionTxnOK
  <2>4. Stored(x.p)'
    BY <2>1, <2>3 DEF Writes
  <2> QED
    BY <2>4
<1>7. PostsToWrite(y)' = PostsToWrite(y)
  BY DEF PostsToWrite
<1> QED
  BY <1>1, <1>2, <1>4, <1>5, <1>6, <1>7 DEF ReactionTxnOK

(* The deletion of an account, as another request or job writes.           *)
LEMMA AccountTxnKept ==
  ASSUME NEW x \in Request, NEW y \in Request, NEW ps, NEW es,
         x.pc = "txn", x.op = "account", TypeOK, TypeOK',
         AccountTxnOK(x), Writes(ps, es),
         y.op = x.op, y.u = x.u, y.posts = x.posts, y.seen = x.seen,
         x.stale \subseteq y.stale,
         "post" \notin y.stale => PostsToWrite(x) \cap ps = {},
         "reaction" \notin y.stale => ReactionsToWrite(x) \cap es = {}
  PROVE  AccountTxnOK(y)'
<1>1. x.posts \subseteq Posts /\ x.seen \subseteq Users \X Posts
  BY DEF Request
<1>2. \A p \in x.posts : AuthorOf[p] = x.u /\ Created(p)'
  BY <1>1 DEF AccountTxnOK, Writes
<1>3. \A e \in x.seen :
        /\ Created(e[2])'
        /\ e[1] = x.u \/ AuthorOf[e[2]] = x.u
        /\ AuthorOf[e[2]] = x.u /\ e[2] \notin x.posts => ~Stored(e[2])'
  <2> TAKE e \in x.seen
  <2>1. e[2] \in Posts /\ Created(e[2])
    BY <1>1 DEF AccountTxnOK
  <2>2. AuthorOf[e[2]] = x.u /\ e[2] \notin x.posts => Ended(e[2])
    BY <2>1 DEF AccountTxnOK, Ended
  <2>3. Ended(e[2])' => ~Stored(e[2])'
    BY DEF Ended
  <2>4. /\ Created(e[2])'
        /\ Ended(e[2]) => Ended(e[2])'
    BY <2>1 DEF Writes
  <2> QED
    BY <2>2, <2>3, <2>4 DEF AccountTxnOK
<1>4. ASSUME y.stale = {}
      PROVE  /\ x.seen \subseteq reaction'
             /\ \A p \in x.posts : Stored(p)'
             /\ \A e \in reaction' : e[2] \in x.posts => e \in x.seen
  <2>1. /\ x.stale = {}
        /\ x.seen \cap es = {} /\ x.posts \cap ps = {}
    BY <1>4 DEF PostsToWrite, ReactionsToWrite
  <2>2. /\ x.seen \subseteq reaction
        /\ \A p \in x.posts : Stored(p)
        /\ \A e \in reaction : e[2] \in x.posts => e \in x.seen
    BY <2>1 DEF AccountTxnOK
  <2>3. x.seen \subseteq reaction'
    BY <2>1, <2>2, <1>1 DEF Writes
  <2>4. \A p \in x.posts : Stored(p)'
    BY <2>1, <2>2, <1>1 DEF Writes
  <2>5. \A e \in reaction' : e[2] \in x.posts => e \in reaction
    <3> TAKE e \in reaction'
    <3>1. e \in Users \X Posts
      BY DEF TypeOK
    <3> QED
      BY <3>1, <2>1 DEF Writes
  <2> QED
    BY <2>2, <2>3, <2>4, <2>5
<1> QED
  BY <1>2, <1>3, <1>4 DEF AccountTxnOK

(* Any request, as another request or job writes.                          *)
LEMMA RequestKept ==
  ASSUME TypeOK, TypeOK', NEW x \in Request, NEW y \in Request,
         NEW us, NEW ps, NEW es,
         RequestOK(x), Writes(ps, es), y = Marked(x, us, ps, es),
         x.pc = "uploaded" => post'[x.p].life = "drawn" /\ image'[x.p] = "all"
  PROVE  RequestOK(y)'
<1>1. /\ y.op = x.op /\ y.pc = x.pc /\ y.u = x.u /\ y.p = x.p
      /\ y.posts = x.posts /\ y.seen = x.seen
      /\ x.stale \subseteq y.stale
      /\ x.pc # "txn" => y = x
      /\ x.pc = "txn" /\ "post" \notin y.stale => PostsToWrite(x) \cap ps = {}
      /\ x.pc = "txn" /\ "reaction" \notin y.stale
           => ReactionsToWrite(x) \cap es = {}
  BY MarkedEffect
<1>2. \A p \in Posts : /\ Created(p) => Created(p)'
                       /\ Ended(p) => Ended(p)'
  BY DEF Writes
<1>3. CASE x.pc = "txn"
  <2>1. CASE x.op = "account"
    <3>1. AccountTxnOK(x)
      BY <1>3, <2>1 DEF RequestOK
    <3>2. AccountTxnOK(y)'
      BY <3>1, <1>1, <1>3, <2>1, AccountTxnKept
    <3> QED
      BY <3>2, <1>1, <1>3, <2>1 DEF RequestOK
  <2>2. CASE x.op # "account"
    <3>1. x.op \in {"react", "remove"} /\ x.p \in Posts /\ Created(x.p)
            /\ ReactionTxnOK(x)
      BY <1>3, <2>2 DEF RequestOK
    <3>2. ReactionTxnOK(y)'
      BY <3>1, <1>1, <1>3, ReactionTxnKept
    <3>3. Created(y.p)'
      BY <3>1, <1>1, <1>2
    <3> QED
      BY <3>1, <3>2, <3>3, <1>1, <1>3 DEF RequestOK
  <2> QED
    BY <2>1, <2>2
<1>4. CASE x.pc # "txn"
  <2>1. y = x
    BY <1>1, <1>4
  <2>2. x.pc = "uploaded" =>
          x.u \in Users /\ x.p \in Posts /\ Drawn(x.p)' /\ image'[x.p] = "all"
    BY DEF RequestOK, Drawn
  <2>3. x.pc \in {"inserted", "counted", "compensate"} =>
          x.u \in Users /\ x.p \in Posts /\ Created(x.p)'
    BY <1>2 DEF RequestOK
  <2>4. x.pc = "resolved" =>
          /\ x.op \in {"delete", "react", "remove", "account"}
          /\ x.u \in Users
          /\ x.posts = {} /\ x.seen = {} /\ x.stale = {}
          /\ x.op # "account" => x.p \in Posts /\ Created(x.p)'
    BY <1>2 DEF RequestOK
  <2>5. x.pc \in {"removed", "images"} =>
          x.u \in Users /\ x.p \in Posts /\ Ended(x.p)'
    BY <1>2 DEF RequestOK
  <2>6. x.pc = "purge" => \A p \in x.posts : Ended(p)'
    BY <1>2 DEF RequestOK, Request
  <2>7. RequestOK(x)'
    BY <1>4, <2>2, <2>3, <2>4, <2>5, <2>6 DEF RequestOK
  <2> QED
    BY <2>1, <2>7
<1> QED
  BY <1>3, <1>4

-----------------------------------------------------------------------------
(* Steps                                                                   *)

(* The requests rs are marked at most, and keep what they have drawn.      *)
OnlyMarked(rs, us, ps, es) ==
  \A q \in rs :
    /\ req'[q] = Marked(req[q], us, ps, es)
    /\ req[q].pc = "uploaded" =>
         post'[req[q].p].life = "drawn" /\ image'[req[q].p] = "all"

(* The requests rs, which a step only marks, stay as they should be.       *)
LEMMA RequestsKept ==
  ASSUME TypeOK, TypeOK', \A q \in Requests : RequestOK(req[q]),
         NEW rs \in SUBSET Requests, NEW us, NEW ps, NEW es, Writes(ps, es),
         OnlyMarked(rs, us, ps, es)
  PROVE  \A q \in rs : RequestOK(req[q])'
<1> TAKE q \in rs
<1>1. PICK x \in Request : x = req[q]
  BY DEF TypeOK
<1>2. PICK y \in Request : y = req'[q]
  BY DEF TypeOK
<1>3. RequestOK(x)
  BY <1>1
<1>4. /\ y = Marked(x, us, ps, es)
      /\ x.pc = "uploaded" => post'[x.p].life = "drawn" /\ image'[x.p] = "all"
  BY <1>1, <1>2 DEF OnlyMarked
<1>5. RequestOK(y)'
  BY <1>3, <1>4, RequestKept
<1> QED
  BY <1>2, <1>5

(* So do the runs js of the clean-up that a step is not about.             *)
LEMMA JobsKept ==
  ASSUME TypeOK, \A j \in Jobs : JobOK(j), NEW js \in SUBSET Jobs,
         NEW ps, NEW es, Writes(ps, es),
         \A j \in js : job'[j] = job[j],
         \A p \in Posts : Created(p) /\ image[p] = "none" => image'[p] = "none"
  PROVE  \A j \in js : JobOK(j)'
<1> TAKE j \in js
<1>1. PICK k : k = job[j] /\ k = job'[j]
  OBVIOUS
<1>2. k.pc # "idle" =>
        /\ k.p \in Posts
        /\ Created(k.p) /\ post[k.p].expired
        /\ k.pc = "removed" => image[k.p] = "none"
  BY <1>1 DEF JobOK
<1>3. k.pc # "idle" =>
        /\ k.p \in Posts
        /\ Created(k.p)' /\ post'[k.p].expired
        /\ k.pc = "removed" => image'[k.p] = "none"
  BY <1>2 DEF Writes
<1> QED
  BY <1>1, <1>3 DEF JobOK

(* A post whose reactions, images and likes stay as they are.              *)
LEMMA PostKept ==
  ASSUME NEW p \in Posts, PostGood(p),
         Likers(p)' = Likers(p), image'[p] = image[p],
         post'[p].life = post[p].life, post'[p].likes = post[p].likes,
         post[p].expired => post'[p].expired,
         Created(p) \/ post'[p].expired = post[p].expired
  PROVE  PostGood(p)'
<1>1. Visible(p)' => Visible(p)
  BY DEF Visible, Stored
<1>2. Created(p)' <=> Created(p)
  BY DEF Created
<1> QED
  BY <1>1, <1>2 DEF PostGood, PostOK

(* What is to be shown of a step.                                          *)
LEMMA WritingStep ==
  ASSUME PostInv, TypeOK', NEW us, NEW ps, NEW es, Writes(ps, es),
         NEW rs \in SUBSET Requests, NEW js \in SUBSET Jobs,
         OnlyMarked(rs, us, ps, es),
         \A q \in Requests \ rs : RequestOK(req[q])',
         \A j \in js : job'[j] = job[j],
         \A j \in Jobs \ js : JobOK(j)',
         \A p \in Posts : PostGood(p)',
         \A p \in Posts : Created(p) /\ image[p] = "none" => image'[p] = "none",
         DrawnOnce'
  PROVE  PostInv'
<1>1. /\ TypeOK /\ \A q \in Requests : RequestOK(req[q])
      /\ \A j \in Jobs : JobOK(j)
  BY Parts
<1>2. \A q \in rs : RequestOK(req[q])'
  BY <1>1, RequestsKept
<1>3. \A j \in js : JobOK(j)'
  BY <1>1, JobsKept
<1>4. /\ \A q \in Requests : RequestOK(req[q])'
      /\ \A j \in Jobs : JobOK(j)'
  BY <1>2, <1>3
<1>5. /\ TypeOK' /\ (\A p \in Posts : PostGood(p))'
      /\ (\A r \in Requests : RequestOK(req[r]))'
      /\ (\A j \in Jobs : JobOK(j))'
      /\ DrawnOnce'
  BY <1>4
<1> QED
  BY <1>5 DEF PostInv, PostGood, LikesMatch, NoReactionsOnPurged,
     VisibleHasImages, CleanedHasNoImages

(* Nobody draws a post anew.                                               *)
LEMMA DrawnKept ==
  ASSUME DrawnOnce,
         \A q \in Requests :
           req'[q].pc = "uploaded" => req[q].pc = "uploaded" /\ req'[q].p = req[q].p
  PROVE  DrawnOnce'
  BY DEF DrawnOnce

(* The requests after a step of request r, which is then x.                *)
LEMMA MarkStep ==
  ASSUME TypeOK, NEW r \in Requests, NEW x \in Request, x.pc # "txn",
         NEW us, NEW ps, NEW es, Mark([req EXCEPT ![r] = x], us, ps, es)
  PROVE  /\ req' \in [Requests -> Request]
         /\ req'[r] = x
         /\ \A q \in Requests \ {r} :
              /\ req'[q] = Marked(req[q], us, ps, es)
              /\ req'[q].pc = req[q].pc /\ req'[q].p = req[q].p
<1>1. \A q \in Requests : req[q] \in Request
  BY DEF TypeOK
<1>2. req' = [q \in Requests |-> Marked([req EXCEPT ![r] = x][q], us, ps, es)]
  BY DEF Mark
<1>3. \A q \in Requests : [req EXCEPT ![r] = x][q] = IF q = r THEN x ELSE req[q]
  BY DEF TypeOK
<1>4. \A q \in Requests :
        req'[q] = IF q = r THEN Marked(x, us, ps, es) ELSE Marked(req[q], us, ps, es)
  BY <1>2, <1>3
<1>5. Marked(x, us, ps, es) = x
  BY DEF Marked
<1>6. \A q \in Requests :
        /\ Marked(req[q], us, ps, es) \in Request
        /\ Marked(req[q], us, ps, es).pc = req[q].pc
        /\ Marked(req[q], us, ps, es).p = req[q].p
  BY <1>1, MarkedEffect
<1>7. \A q \in Requests : req'[q] \in Request
  BY <1>4, <1>5, <1>6
<1>8. req' \in [Requests -> Request]
  BY <1>2, <1>7
<1> QED
  BY <1>4, <1>5, <1>6, <1>8

(* The requests after a step of a job.                                     *)
LEMMA MarkAll ==
  ASSUME TypeOK, NEW us, NEW ps, NEW es, Mark(req, us, ps, es)
  PROVE  /\ req' \in [Requests -> Request]
         /\ \A q \in Requests :
              /\ req'[q] = Marked(req[q], us, ps, es)
              /\ req'[q].pc = req[q].pc /\ req'[q].p = req[q].p
<1>1. \A q \in Requests : req[q] \in Request
  BY DEF TypeOK
<1>2. \A q \in Requests :
        /\ Marked(req[q], us, ps, es) \in Request
        /\ Marked(req[q], us, ps, es).pc = req[q].pc
        /\ Marked(req[q], us, ps, es).p = req[q].p
  BY <1>1, MarkedEffect
<1>3. req' = [q \in Requests |-> Marked(req[q], us, ps, es)]
  BY DEF Mark
<1> QED
  BY <1>2, <1>3

(* A step that writes nothing marks no request.                            *)
LEMMA MarkNone ==
  ASSUME TypeOK, req' = req PROVE Mark(req, {}, {}, {})
<1>1. \A q \in Requests : Marked(req[q], {}, {}, {}) = req[q]
  BY MarkedNothing DEF TypeOK
<1>2. req = [q \in Requests |-> req[q]]
  BY DEF TypeOK
<1>3. req = [q \in Requests |-> Marked(req[q], {}, {}, {})]
  BY <1>1, <1>2
<1> QED
  BY <1>3 DEF Mark

(* A step that marks no other request.                                     *)
LEMMA PlainStep ==
  ASSUME TypeOK, NEW r \in Requests, NEW x \in Request,
         req' = [req EXCEPT ![r] = x]
  PROVE  /\ req' \in [Requests -> Request]
         /\ req'[r] = x
         /\ \A q \in Requests \ {r} :
              /\ req'[q] = Marked(req[q], {}, {}, {})
              /\ req'[q].pc = req[q].pc /\ req'[q].p = req[q].p
<1>1. \A q \in Requests : req[q] \in Request
  BY DEF TypeOK
<1>2. \A q \in Requests : Marked(req[q], {}, {}, {}) = req[q]
  BY <1>1, MarkedNothing
<1> QED
  BY <1>2 DEF TypeOK

(* A request that is done is as it should be.                              *)
LEMMA IdleOK == IdleRequest \in Request /\ RequestOK(IdleRequest)
<1>1. IdleRequest \in Request
  BY DEF IdleRequest, Request
<1> QED
  BY <1>1 DEF IdleRequest, RequestOK

(* A request that goes on to its next step.                                *)
LEMMA GotoRecord ==
  ASSUME NEW x \in Request,
         NEW pc \in {"inserted", "counted", "compensate", "removed", "images",
                     "purge"}
  PROVE  LET y == [x EXCEPT !.pc = pc] IN
         /\ y \in Request
         /\ y.pc = pc /\ y.op = x.op /\ y.u = x.u /\ y.p = x.p
         /\ y.posts = x.posts /\ y.seen = x.seen /\ y.stale = x.stale
  BY DEF Request

(* A step that gives one request another state, and changes nothing else.  *)
LEMMA RequestOnly ==
  ASSUME PostInv, NEW r \in Requests, NEW x \in Request,
         req' = [req EXCEPT ![r] = x],
         UNCHANGED <<user, post, reaction, image, job>>,
         RequestOK(x), x.pc # "uploaded"
  PROVE  PostInv'
<1>1. /\ TypeOK /\ DrawnOnce
      /\ \A p \in Posts : PostGood(p)
      /\ \A q \in Requests : RequestOK(req[q])
  BY Parts
<1>2. /\ req' \in [Requests -> Request]
      /\ req'[r] = x
      /\ \A q \in Requests \ {r} :
           /\ req'[q] = Marked(req[q], {}, {}, {})
           /\ req'[q].pc = req[q].pc /\ req'[q].p = req[q].p
  BY <1>1, PlainStep
<1>3. TypeOK'
  BY <1>1, <1>2 DEF TypeOK
<1>4. Writes({}, {})
  BY DEF Writes, Created, Ended, Stored
<1>5. OnlyMarked(Requests \ {r}, {}, {}, {})
  BY <1>1, <1>2 DEF OnlyMarked, RequestOK, Drawn
<1>6. RequestOK(x)'
  BY DEF RequestOK, Drawn, Created, Ended, Stored, ReactionTxnOK, AccountTxnOK,
     PostsToWrite
<1>7. \A q \in Requests \ (Requests \ {r}) : RequestOK(req[q])'
  BY <1>2, <1>6
<1>8. \A p \in Posts : PostGood(p)'
  BY <1>1 DEF PostGood, PostOK, Visible, Stored, Created, Likers
<1>9. DrawnOnce'
  BY <1>1, <1>2, DrawnKept
<1> QED
  BY <1>3, <1>4, <1>5, <1>7, <1>8, <1>9, WritingStep

(* A request is done, or gives up.                                         *)
LEMMA EndStep ==
  ASSUME PostInv, NEW r \in Requests, req' = End(r),
         UNCHANGED <<user, post, reaction, image, job>>
  PROVE  PostInv'
<1>1. IdleRequest.pc # "uploaded"
  BY DEF IdleRequest
<1> QED
  BY <1>1, IdleOK, RequestOnly DEF End

(* What a request has checked before it begins.                            *)
LEMMA StartStep ==
  ASSUME PostInv, NEW r \in Requests, NEW op \in {"delete", "react", "remove"},
         NEW u \in Users, NEW p \in Posts, Stored(p),
         req' = [req EXCEPT ![r] = [IdleRequest EXCEPT !.op = op,
                                      !.pc = "resolved", !.u = u, !.p = p]],
         UNCHANGED <<user, post, reaction, image, job>>
  PROVE  PostInv'
<1> DEFINE x == [IdleRequest EXCEPT !.op = op, !.pc = "resolved", !.u = u, !.p = p]
<1>1. x \in Request
  BY DEF IdleRequest, Request, AllOps
<1>2. /\ x.op = op /\ x.pc = "resolved" /\ x.u = u /\ x.p = p
      /\ x.posts = {} /\ x.seen = {} /\ x.stale = {}
  BY DEF IdleRequest
<1>3. Created(p)
  BY DEF Created, Stored
<1> HIDE DEF x
<1>4. RequestOK(x)
  BY <1>2, <1>3 DEF RequestOK
<1>5. req' = [req EXCEPT ![r] = x]
  BY DEF x
<1> QED
  BY <1>1, <1>2, <1>4, <1>5, RequestOnly

(* The owner has confirmed the deletion of the account.                    *)
LEMMA StartDeleteAccountStep ==
  ASSUME PostInv, NEW r \in Requests, NEW u \in Users, StartDeleteAccount(r, u)
  PROVE  PostInv'
<1> DEFINE x == [IdleRequest EXCEPT !.op = "account", !.pc = "resolved", !.u = u]
<1>1. x \in Request
  BY DEF IdleRequest, Request, AllOps
<1>2. /\ x.op = "account" /\ x.pc = "resolved" /\ x.u = u
      /\ x.posts = {} /\ x.seen = {} /\ x.stale = {}
  BY DEF IdleRequest
<1> HIDE DEF x
<1>3. RequestOK(x)
  BY <1>2 DEF RequestOK
<1>4. req' = [req EXCEPT ![r] = x] /\ UNCHANGED <<user, post, reaction, image, job>>
  BY DEF StartDeleteAccount, x
<1> QED
  BY <1>1, <1>2, <1>3, <1>4, RequestOnly

(* The creation has gone wrong after the insertion.                        *)
LEMMA FailCreateStep ==
  ASSUME PostInv, NEW r \in Requests, FailCreate(r) PROVE PostInv'
<1>1. PICK x \in Request : x = req[r]
  BY DEF PostInv, TypeOK
<1>2. PICK y \in Request : y = [x EXCEPT !.pc = "compensate"]
  BY GotoRecord
<1>3. y.pc = "compensate" /\ y.u = x.u /\ y.p = x.p
  BY <1>2, GotoRecord
<1>4. x.pc \in {"inserted", "counted"} /\ RequestOK(x)
  BY <1>1 DEF FailCreate, PostInv
<1>5. RequestOK(y)
  BY <1>3, <1>4 DEF RequestOK
<1>6. req' = [req EXCEPT ![r] = y] /\ UNCHANGED <<user, post, reaction, image, job>>
  BY <1>1, <1>2 DEF FailCreate, Goto
<1> QED
  BY <1>3, <1>5, <1>6, RequestOnly

(* The transaction of a reaction takes its snapshot.                       *)
LEMMA BeginReactionStep ==
  ASSUME PostInv, NEW r \in Requests, BeginReaction(r) PROVE PostInv'
<1>1. PICK x \in Request : x = req[r]
  BY DEF PostInv, TypeOK
<1> DEFINE e == <<x.u, x.p>>
<1>2. PICK s : s = reaction \cap {e}
  OBVIOUS
<1> DEFINE y == [x EXCEPT !.pc = "txn", !.seen = s]
<1>3. /\ x.pc = "resolved" /\ x.op \in {"react", "remove"}
      /\ RequestOK(x) /\ Visible(x.p)
      /\ reaction \subseteq Users \X Posts
  BY <1>1 DEF BeginReaction, PostInv, TypeOK
<1>4. /\ x.u \in Users /\ x.p \in Posts /\ Created(x.p)
      /\ x.posts = {} /\ x.stale = {}
  BY <1>3 DEF RequestOK
<1>5. y \in Request
  BY <1>2, <1>3, <1>4 DEF Request
<1>6. /\ y.pc = "txn" /\ y.op = x.op /\ y.u = x.u /\ y.p = x.p
      /\ y.posts = x.posts /\ y.seen = s /\ y.stale = {}
  BY <1>4 DEF Request
<1>7. req' = [req EXCEPT ![r] = y] /\ UNCHANGED <<user, post, reaction, image, job>>
  BY <1>1, <1>2 DEF BeginReaction
<1> HIDE DEF y
<1>8. ReactionTxnOK(y)
  BY <1>2, <1>3, <1>4, <1>6 DEF ReactionTxnOK, Visible
<1>9. RequestOK(y)
  BY <1>3, <1>4, <1>6, <1>8 DEF RequestOK
<1> QED
  BY <1>5, <1>6, <1>7, <1>9, RequestOnly

(* The deletion of an account takes its snapshot.                          *)
LEMMA DeleteSnapshotStep ==
  ASSUME PostInv, NEW r \in Requests, DeleteSnapshot(r) PROVE PostInv'
<1>1. PICK x \in Request : x = req[r]
  BY DEF PostInv, TypeOK
<1> DEFINE own == {p \in Posts : AuthorOf[p] = x.u}
<1>2. PICK ps : ps = {p \in own : Stored(p)}
  OBVIOUS
<1>3. PICK s : s = {e \in reaction : e[1] = x.u \/ e[2] \in own}
  OBVIOUS
<1> DEFINE y == [x EXCEPT !.pc = "txn", !.posts = ps, !.seen = s]
<1>4. /\ x.pc = "resolved" /\ x.op = "account" /\ RequestOK(x)
      /\ reaction \subseteq Users \X Posts
      /\ \A p \in Posts : PostOK(p)
  BY <1>1 DEF DeleteSnapshot, PostInv, TypeOK
<1>5. x.u \in Users /\ x.stale = {}
  BY <1>4 DEF RequestOK
<1>6. y \in Request
  BY <1>2, <1>3, <1>4 DEF Request
<1>7. /\ y.pc = "txn" /\ y.op = "account" /\ y.u = x.u /\ y.p = x.p
      /\ y.posts = ps /\ y.seen = s /\ y.stale = {}
  BY <1>4, <1>5 DEF Request
<1>8. req' = [req EXCEPT ![r] = y] /\ UNCHANGED <<user, post, reaction, image, job>>
  BY <1>1, <1>2, <1>3 DEF DeleteSnapshot
<1> HIDE DEF y
<1>9. \A p \in ps : AuthorOf[p] = x.u /\ Created(p) /\ Stored(p)
  BY <1>2 DEF Created, Stored
<1>10. \A e \in s :
         /\ Created(e[2])
         /\ e[1] = x.u \/ AuthorOf[e[2]] = x.u
         /\ AuthorOf[e[2]] = x.u /\ e[2] \notin ps => ~Stored(e[2])
  <2> TAKE e \in s
  <2>1. /\ e \in reaction /\ e \in Users \X Posts
        /\ e[1] \in Users /\ e[2] \in Posts /\ e = <<e[1], e[2]>>
    BY <1>3, <1>4
  <2>2. e[1] \in Likers(e[2])
    BY <2>1 DEF Likers
  <2>3. Created(e[2])
    BY <1>4, <2>1, <2>2 DEF PostOK
  <2> QED
    BY <1>2, <1>3, <2>1, <2>3
<1>11. s \subseteq reaction /\ \A e \in reaction : e[2] \in ps => e \in s
  BY <1>2, <1>3
<1>12. AccountTxnOK(y)
  BY <1>5, <1>7, <1>9, <1>10, <1>11 DEF AccountTxnOK
<1>13. RequestOK(y)
  BY <1>7, <1>12 DEF RequestOK
<1> QED
  BY <1>6, <1>7, <1>8, <1>13, RequestOnly

(* A transaction that conflicts starts again.                              *)
LEMMA ConflictStep ==
  ASSUME PostInv, NEW r \in Requests, Conflict(r) PROVE PostInv'
<1>1. PICK x \in Request : x = req[r]
  BY DEF PostInv, TypeOK
<1> DEFINE y == [x EXCEPT !.pc = "resolved", !.posts = {}, !.seen = {}, !.stale = {}]
<1>2. x.pc = "txn" /\ RequestOK(x)
  BY <1>1 DEF Conflict, PostInv
<1>3. y \in Request
  BY DEF Request
<1>4. /\ y.pc = "resolved" /\ y.op = x.op /\ y.u = x.u /\ y.p = x.p
      /\ y.posts = {} /\ y.seen = {} /\ y.stale = {}
  BY DEF Request
<1>5. req' = [req EXCEPT ![r] = y] /\ UNCHANGED <<user, post, reaction, image, job>>
  BY <1>1 DEF Conflict
<1> HIDE DEF y
<1>6. RequestOK(y)
  BY <1>2, <1>4 DEF RequestOK, ReactionTxnOK, AccountTxnOK
<1> QED
  BY <1>3, <1>4, <1>5, <1>6, RequestOnly

-----------------------------------------------------------------------------
(* Steps that write                                                        *)

(* What is to be shown of a writing step of request r.                     *)
LEMMA RequestWrites ==
  ASSUME PostInv, NEW r \in Requests, NEW x \in Request,
         x.pc \notin {"txn", "uploaded"},
         NEW us, NEW ps, NEW es, Writes(ps, es),
         \/ Mark([req EXCEPT ![r] = x], us, ps, es)
         \/ req' = [req EXCEPT ![r] = x] /\ us = {} /\ ps = {} /\ es = {},
         user' \in [Users -> UserDoc], post' \in [Posts -> PostDoc],
         reaction' \in SUBSET (Users \X Posts), image' \in [Posts -> Amount],
         job' = job,
         \A p \in Posts :
           Drawn(p) /\ (req[r].pc = "uploaded" => p # req[r].p) =>
             post'[p].life = "drawn" /\ image'[p] = image[p],
         \A p \in Posts : Created(p) /\ image[p] = "none" => image'[p] = "none",
         RequestOK(x)',
         \A p \in Posts : PostGood(p)'
  PROVE  PostInv'
<1>1. /\ TypeOK /\ DrawnOnce
      /\ \A q \in Requests : RequestOK(req[q])
  BY Parts
<1>2. /\ req' \in [Requests -> Request]
      /\ req'[r] = x
      /\ \A q \in Requests \ {r} :
           /\ req'[q] = Marked(req[q], us, ps, es)
           /\ req'[q].pc = req[q].pc /\ req'[q].p = req[q].p
  <2>1. CASE Mark([req EXCEPT ![r] = x], us, ps, es)
    BY <1>1, <2>1, MarkStep
  <2>2. CASE req' = [req EXCEPT ![r] = x] /\ us = {} /\ ps = {} /\ es = {}
    <3>1. req' = [req EXCEPT ![r] = x]
      BY <2>2
    <3>2. /\ req' \in [Requests -> Request]
          /\ req'[r] = x
          /\ \A q \in Requests \ {r} :
               /\ req'[q] = Marked(req[q], {}, {}, {})
               /\ req'[q].pc = req[q].pc /\ req'[q].p = req[q].p
      BY <1>1, <3>1, PlainStep
    <3> QED
      BY <2>2, <3>2
  <2> QED
    BY <2>1, <2>2
<1>3. TypeOK'
  BY <1>1, <1>2 DEF TypeOK
<1>4. OnlyMarked(Requests \ {r}, us, ps, es)
  <2>1. ASSUME NEW q \in Requests \ {r}, req[q].pc = "uploaded"
        PROVE  post'[req[q].p].life = "drawn" /\ image'[req[q].p] = "all"
    <3>1. req[q].p \in Posts /\ Drawn(req[q].p) /\ image[req[q].p] = "all"
      BY <1>1, <2>1 DEF RequestOK
    <3>2. req[r].pc = "uploaded" => req[q].p # req[r].p
      BY <1>1, <2>1 DEF DrawnOnce
    <3> QED
      BY <3>1, <3>2
  <2> QED
    BY <1>2, <2>1 DEF OnlyMarked
<1>5. \A q \in Requests \ (Requests \ {r}) : RequestOK(req[q])'
  BY <1>2
<1>6. DrawnOnce'
  BY <1>1, <1>2, DrawnKept
<1> QED
  BY <1>3, <1>4, <1>5, <1>6, WritingStep

(* What is to be shown of a step of job j.                                 *)
LEMMA JobWrites ==
  ASSUME PostInv, NEW j \in Jobs, NEW y \in Job, job' = [job EXCEPT ![j] = y],
         NEW us, NEW ps, NEW es, Writes(ps, es),
         Mark(req, us, ps, es),
         user' \in [Users -> UserDoc], post' \in [Posts -> PostDoc],
         reaction' = reaction, image' \in [Posts -> Amount],
         \A p \in Posts :
           Drawn(p) => post'[p].life = "drawn" /\ image'[p] = image[p],
         \A p \in Posts : Created(p) /\ image[p] = "none" => image'[p] = "none",
         y.pc # "idle" =>
           /\ y.p \in Posts /\ Created(y.p)' /\ post'[y.p].expired
           /\ y.pc = "removed" => image'[y.p] = "none",
         \A p \in Posts : PostGood(p)'
  PROVE  PostInv'
<1>1. /\ TypeOK /\ DrawnOnce
      /\ \A q \in Requests : RequestOK(req[q])
  BY Parts
<1>2. /\ req' \in [Requests -> Request]
      /\ \A q \in Requests :
           /\ req'[q] = Marked(req[q], us, ps, es)
           /\ req'[q].pc = req[q].pc /\ req'[q].p = req[q].p
  BY <1>1, MarkAll
<1>3. job' \in [Jobs -> Job] /\ \A k \in Jobs : job'[k] = IF k = j THEN y ELSE job[k]
  BY <1>1 DEF TypeOK
<1>4. TypeOK'
  BY <1>1, <1>2, <1>3 DEF TypeOK
<1>5. OnlyMarked(Requests, us, ps, es)
  BY <1>1, <1>2 DEF OnlyMarked, RequestOK
<1>6. \A k \in Jobs \ {j} : job'[k] = job[k]
  BY <1>3
<1>7. \A k \in Jobs \ (Jobs \ {j}) : JobOK(k)'
  BY <1>3 DEF JobOK
<1>8. DrawnOnce'
  BY <1>1, <1>2, DrawnKept
<1> QED
  BY <1>4, <1>5, <1>6, <1>7, <1>8, WritingStep

(* A write of one post goes on with its life.                              *)
LEMMA OnePost ==
  ASSUME TypeOK, NEW p \in Posts, NEW d \in PostDoc, NEW ps, NEW es,
         post' = [post EXCEPT ![p] = d], reaction' = reaction,
         Created(p) => d.life \notin {"unused", "drawn"},
         Ended(p) => d.life # "stored",
         post[p].expired => d.expired,
         Stored(p) => d.life = "stored" \/ p \in ps
  PROVE  /\ post' \in [Posts -> PostDoc]
         /\ \A q \in Posts : post'[q] = IF q = p THEN d ELSE post[q]
         /\ Writes(ps, es)
<1>1. \A q \in Posts : post'[q] = IF q = p THEN d ELSE post[q]
  BY DEF TypeOK
<1>2. post' \in [Posts -> PostDoc]
  BY DEF TypeOK
<1>3. Writes(ps, es)
  BY <1>1 DEF Writes, Created, Ended, Stored
<1> QED
  BY <1>1, <1>2, <1>3

(* The other posts are as good as they were.                               *)
LEMMA OtherPosts ==
  ASSUME \A q \in Posts : PostGood(q), NEW p \in Posts,
         \A q \in Posts \ {p} : post'[q] = post[q] /\ image'[q] = image[q],
         reaction' = reaction, PostGood(p)'
  PROVE  \A q \in Posts : PostGood(q)'
<1> SUFFICES ASSUME NEW q \in Posts \ {p} PROVE PostGood(q)'
  OBVIOUS
<1>1. Likers(q)' = Likers(q)
  BY DEF Likers
<1> QED
  BY <1>1, PostKept

(* A post that is gone.                                                    *)
LEMMA GonePost ==
  ASSUME TypeOK, NEW p \in Posts, NEW life \in {"deleted", "withdrawn", "purged", "cleaned"}
  PROVE  /\ Gone(p, life) \in PostDoc
         /\ Gone(p, life).life = life
         /\ Gone(p, life).expired = post[p].expired
         /\ Gone(p, life).likes = 0
<1>1. PICK e \in BOOLEAN, c \in BOOLEAN : e = post[p].expired /\ c = post[p].counted
  BY DEF TypeOK, PostDoc
<1> DEFINE d == [NewPost EXCEPT !.life = life, !.expired = e, !.counted = c]
<1>2. Gone(p, life) = d
  BY <1>1 DEF Gone
<1>3. NewPost \in PostDoc
  BY MaxAttemptsAssumption DEF NewPost, PostDoc
<1>4. d \in PostDoc /\ d.life = life /\ d.expired = e /\ d.likes = NewPost.likes
  BY <1>3 DEF PostDoc
<1>5. NewPost.likes = 0
  BY DEF NewPost
<1> QED
  BY <1>1, <1>2, <1>4, <1>5

(* The removal of a stored post.                                           *)
LEMMA RemovePost ==
  ASSUME PostInv, NEW p \in Posts, NEW d \in PostDoc, Stored(p),
         d.life \in {"deleted", "withdrawn", "cleaned"},
         d.expired = post[p].expired,
         d.life = "cleaned" => image[p] = "none",
         post' = [post EXCEPT ![p] = d], reaction' = reaction, image' = image
  PROVE  /\ post' \in [Posts -> PostDoc]
         /\ Writes({p}, {})
         /\ \A q \in Posts : Drawn(q) => post'[q].life = "drawn"
         /\ \A q \in Posts : PostGood(q)'
         /\ Ended(p)'
<1>1. TypeOK /\ \A q \in Posts : PostGood(q)
  BY Parts
<1>2. /\ post' \in [Posts -> PostDoc]
      /\ \A q \in Posts : post'[q] = IF q = p THEN d ELSE post[q]
      /\ Writes({p}, {})
  BY <1>1, OnePost DEF Stored, Ended
<1>3. PostGood(p)'
  BY <1>2 DEF PostGood, PostOK, Visible, Stored, Created
<1>4. \A q \in Posts : PostGood(q)'
  BY <1>1, <1>2, <1>3, OtherPosts
<1>5. Ended(p)'
  BY <1>2 DEF Ended, Created, Stored
<1>6. \A q \in Posts : Drawn(q) => post'[q].life = "drawn"
  BY <1>2 DEF Drawn, Stored
<1> QED
  BY <1>2, <1>4, <1>5, <1>6

-----------------------------------------------------------------------------
(* Creation and deletion of a post                                         *)

(* A post id is drawn: no request has drawn it before.                     *)
LEMMA StartCreateStep ==
  ASSUME PostInv, NEW r \in Requests, NEW p \in Posts, StartCreate(r, p)
  PROVE  PostInv'
<1> DEFINE x == [IdleRequest EXCEPT !.op = "create", !.pc = "uploaded",
                                    !.u = AuthorOf[p], !.p = p]
<1>1. /\ TypeOK /\ DrawnOnce
      /\ \A q \in Requests : RequestOK(req[q])
      /\ \A q \in Posts : PostGood(q)
  BY Parts
<1>2. x \in Request
  BY PostsAssumption DEF IdleRequest, Request, AllOps
<1>3. x.pc = "uploaded" /\ x.p = p /\ x.u \in Users
  BY PostsAssumption DEF IdleRequest
<1>4. req' = [req EXCEPT ![r] = x]
  BY DEF StartCreate
<1> HIDE DEF x
<1>5. PICK c \in PostDoc : c = post[p] /\ c.life = "unused"
  BY <1>1 DEF StartCreate, TypeOK
<1>6. PICK d \in PostDoc : d = [c EXCEPT !.life = "drawn"]
  BY DEF PostDoc
<1>7. /\ d.life = "drawn" /\ d.expired = c.expired /\ d.likes = c.likes
      /\ post' = [post EXCEPT ![p] = d] /\ reaction' = reaction
  BY <1>5, <1>6 DEF StartCreate, PostDoc
<1>8. /\ post' \in [Posts -> PostDoc]
      /\ \A q \in Posts : post'[q] = IF q = p THEN d ELSE post[q]
      /\ Writes({}, {})
  BY <1>1, <1>5, <1>7, OnePost DEF Created, Ended, Stored
<1>9. /\ image' \in [Posts -> Amount]
      /\ \A q \in Posts : image'[q] = IF q = p THEN "all" ELSE image[q]
  BY <1>1 DEF StartCreate, TypeOK, Amount
<1>10. /\ req' \in [Requests -> Request]
       /\ req'[r] = x
       /\ \A q \in Requests \ {r} :
            /\ req'[q] = Marked(req[q], {}, {}, {})
            /\ req'[q].pc = req[q].pc /\ req'[q].p = req[q].p
  BY <1>1, <1>2, <1>4, PlainStep
<1>11. TypeOK'
  BY <1>1, <1>8, <1>9, <1>10 DEF TypeOK, StartCreate
<1>12. \A q \in Requests : req[q].pc = "uploaded" =>
         req[q].p \in Posts \ {p} /\ Drawn(req[q].p) /\ image[req[q].p] = "all"
  BY <1>1, <1>5 DEF RequestOK, Drawn
<1>13. OnlyMarked(Requests \ {r}, {}, {}, {})
  BY <1>8, <1>9, <1>10, <1>12 DEF OnlyMarked, Drawn
<1>14. RequestOK(x)'
  BY <1>3, <1>7, <1>8, <1>9 DEF RequestOK, Drawn
<1>15. \A q \in Requests \ (Requests \ {r}) : RequestOK(req[q])'
  BY <1>10, <1>14
<1>16. PostGood(p)'
  <2>1. PostOK(p) /\ ~Created(p)
    BY <1>1, <1>5 DEF PostGood, Created
  <2>2. Likers(p)' = Likers(p)
    BY <1>7 DEF Likers
  <2>3. /\ post'[p].life = "drawn" /\ post'[p].likes = post[p].likes
        /\ post'[p].expired = post[p].expired
    BY <1>5, <1>7, <1>8
  <2> QED
    BY <2>1, <2>2, <2>3 DEF PostGood, PostOK, Visible, Stored, Created
<1>17. \A q \in Posts : PostGood(q)'
  BY <1>1, <1>7, <1>8, <1>9, <1>16, OtherPosts
<1>18. \A q \in Posts : Created(q) /\ image[q] = "none" => image'[q] = "none"
  BY <1>5, <1>9 DEF Created
<1>19. DrawnOnce'
  BY <1>1, <1>3, <1>10, <1>12 DEF DrawnOnce
<1>20. job' = job
  BY DEF StartCreate
<1> QED
  BY <1>8, <1>11, <1>13, <1>15, <1>17, <1>18, <1>19, <1>20, WritingStep

(* Nobody has reacted to a post before it is there.                        *)
LEMMA InsertStep ==
  ASSUME PostInv, NEW r \in Requests, Insert(r) PROVE PostInv'
<1>1. TypeOK /\ \A q \in Posts : PostGood(q)
  BY Parts
<1>2. PICK x \in Request : x = req[r]
  BY <1>1 DEF TypeOK
<1>3. x.pc = "uploaded" /\ RequestOK(x)
  BY <1>2 DEF Insert, PostInv
<1>4. x.p \in Posts /\ Drawn(x.p) /\ image[x.p] = "all"
  BY <1>3 DEF RequestOK
<1>5. PICK p \in Posts : p = x.p
  BY <1>4
<1>6. PICK c \in PostDoc : c = post[p] /\ c.life = "drawn"
  BY <1>1, <1>4, <1>5 DEF TypeOK, Drawn
<1>7. PICK d \in PostDoc : d = [c EXCEPT !.life = "stored"]
  BY DEF PostDoc
<1>8. /\ d.life = "stored" /\ d.expired = c.expired /\ d.likes = c.likes
      /\ post' = [post EXCEPT ![p] = d]
      /\ UNCHANGED <<user, reaction, image, job>>
  BY <1>2, <1>5, <1>6, <1>7 DEF Insert, PostDoc
<1>9. /\ post' \in [Posts -> PostDoc]
      /\ \A q \in Posts : post'[q] = IF q = p THEN d ELSE post[q]
      /\ Writes({}, {})
  BY <1>1, <1>6, <1>8, OnePost DEF Created, Ended, Stored
<1>10. PICK y \in Request : y = [x EXCEPT !.pc = "inserted"]
  BY GotoRecord
<1>11. y.pc = "inserted" /\ y.p = x.p /\ y.u = x.u
  BY <1>10, GotoRecord
<1>12. req' = [req EXCEPT ![r] = y]
  BY <1>2, <1>10 DEF Insert, Goto
<1>13. PostGood(p)'
  <2>1. Likers(p) = {} /\ post[p].likes = 0
    BY <1>1, <1>6 DEF PostGood, PostOK, Created
  <2>2. /\ Likers(p)' = {} /\ post'[p].likes = 0 /\ post'[p].life = "stored"
        /\ image'[p] = "all"
    BY <1>4, <1>5, <1>6, <1>8, <1>9, <2>1 DEF Likers
  <2>3. Cardinality({}) = 0
    BY FS_EmptySet
  <2>4. Cardinality(Likers(p))' = 0
    BY <2>2, <2>3
  <2> QED
    BY <2>2, <2>4 DEF PostGood, PostOK, Created
<1>14. \A q \in Posts : PostGood(q)'
  BY <1>1, <1>8, <1>9, <1>13, OtherPosts
<1>15. x.u \in Users /\ x.p \in Posts
  BY <1>3, <1>5 DEF RequestOK
<1>16. Created(p)'
  BY <1>8, <1>9 DEF Created
<1>17. RequestOK(y)'
  BY <1>5, <1>11, <1>15, <1>16 DEF RequestOK
<1>18. \A q \in Posts : Drawn(q) /\ q # p => post'[q].life = "drawn"
  BY <1>9 DEF Drawn
<1>19. user' \in [Users -> UserDoc] /\ reaction' \in SUBSET (Users \X Posts)
         /\ image' \in [Posts -> Amount]
  BY <1>1, <1>8 DEF TypeOK
<1> QED
  BY <1>2, <1>3, <1>5, <1>8, <1>9, <1>11, <1>12, <1>14, <1>17, <1>18, <1>19, RequestWrites

(* Images are deleted of posts that are not shown, and the request ends.   *)
LEMMA ImagesStep ==
  ASSUME PostInv, NEW r \in Requests, req' = End(r),
         UNCHANGED <<user, post, reaction, job>>,
         image' \in [Posts -> Amount],
         \A p \in Posts :
           \/ image'[p] = image[p]
           \/ /\ Ended(p) \/ (req[r].pc = "uploaded" /\ p = req[r].p)
              /\ image[p] = "none" => image'[p] = "none"
  PROVE  PostInv'
<1>1. /\ TypeOK /\ \A q \in Posts : PostGood(q)
      /\ \A q \in Requests : RequestOK(req[q])
  BY Parts
<1>2. req' = [req EXCEPT ![r] = IdleRequest] /\ IdleRequest \in Request
  BY IdleOK DEF End
<1>3. IdleRequest.pc \notin {"txn", "uploaded"} /\ RequestOK(IdleRequest)'
  BY DEF IdleRequest, RequestOK
<1>4. Writes({}, {})
  BY DEF Writes, Created, Ended, Stored
<1>5. \A p \in Posts :
        Drawn(p) /\ (req[r].pc = "uploaded" => p # req[r].p) =>
          post'[p].life = "drawn" /\ image'[p] = image[p]
  BY DEF Drawn, Ended, Created
<1>6. \A p \in Posts : Created(p) /\ image[p] = "none" => image'[p] = "none"
  OBVIOUS
<1>7. \A p \in Posts : PostGood(p)'
  <2> SUFFICES ASSUME NEW p \in Posts PROVE PostGood(p)'
    OBVIOUS
  <2>1. Likers(p)' = Likers(p)
    BY DEF Likers
  <2>2. CASE image'[p] = image[p]
    BY <1>1, <2>1, <2>2, PostKept
  <2>3. CASE image'[p] # image[p]
    <3>1. ~Stored(p)
      BY <1>1, <2>3 DEF Ended, RequestOK, Drawn, Stored
    <3> QED
      BY <1>1, <2>1, <2>3, <3>1 DEF PostGood, PostOK, Visible, Stored, Created
  <2> QED
    BY <2>2, <2>3
<1>8. user' \in [Users -> UserDoc] /\ post' \in [Posts -> PostDoc]
        /\ reaction' \in SUBSET (Users \X Posts)
  BY <1>1 DEF TypeOK
<1> QED
  BY <1>2, <1>3, <1>4, <1>5, <1>6, <1>7, <1>8, RequestWrites

(* What remains of images after a deletion.                                *)
LEMMA RemainingType ==
  ASSUME NEW a \in Amount
  PROVE  /\ Remaining(a) \subseteq Amount
         /\ \A b \in Remaining(a) : a = "none" => b = "none"
  BY DEF Remaining, Amount

LEMMA NotInsertedStep ==
  ASSUME PostInv, NEW r \in Requests, NotInserted(r) PROVE PostInv'
<1>1. TypeOK /\ RequestOK(req[r])
  BY Parts
<1>2. PICK p : p = req[r].p
  OBVIOUS
<1>3. req[r].pc = "uploaded" /\ p \in Posts
  BY <1>1, <1>2 DEF NotInserted, RequestOK
<1>4. image[p] \in Amount
  BY <1>1, <1>3 DEF TypeOK
<1>5. PICK a \in Remaining(image[p]) : image' = [image EXCEPT ![p] = a]
  BY <1>2 DEF NotInserted
<1>6. a \in Amount /\ (image[p] = "none" => a = "none")
  BY <1>4, <1>5, RemainingType
<1>7. /\ image' \in [Posts -> Amount]
      /\ \A q \in Posts : image'[q] = IF q = p THEN a ELSE image[q]
  BY <1>1, <1>5, <1>6 DEF TypeOK
<1>8. req' = End(r) /\ UNCHANGED <<user, post, reaction, job>>
  BY DEF NotInserted
<1> QED
  BY <1>2, <1>3, <1>6, <1>7, <1>8, ImagesStep

LEMMA DeleteItsImagesStep ==
  ASSUME PostInv, NEW r \in Requests, DeleteItsImages(r) PROVE PostInv'
<1>1. TypeOK /\ RequestOK(req[r])
  BY Parts
<1>2. PICK p : p = req[r].p
  OBVIOUS
<1>3. p \in Posts /\ Ended(p)
  BY <1>1, <1>2 DEF DeleteItsImages, RequestOK
<1>4. image[p] \in Amount
  BY <1>1, <1>3 DEF TypeOK
<1>5. PICK a \in Remaining(image[p]) : image' = [image EXCEPT ![p] = a]
  BY <1>2 DEF DeleteItsImages
<1>6. a \in Amount /\ (image[p] = "none" => a = "none")
  BY <1>4, <1>5, RemainingType
<1>7. /\ image' \in [Posts -> Amount]
      /\ \A q \in Posts : image'[q] = IF q = p THEN a ELSE image[q]
  BY <1>1, <1>5, <1>6 DEF TypeOK
<1>8. req' = End(r) /\ UNCHANGED <<user, post, reaction, job>>
  BY DEF DeleteItsImages
<1>9. \A q \in Posts :
        \/ image'[q] = image[q]
        \/ /\ Ended(q) \/ (req[r].pc = "uploaded" /\ q = req[r].p)
           /\ image[q] = "none" => image'[q] = "none"
  BY <1>3, <1>6, <1>7
<1> QED
  BY <1>7, <1>8, <1>9, ImagesStep

LEMMA PurgeImagesStep ==
  ASSUME PostInv, NEW r \in Requests, PurgeImages(r) PROVE PostInv'
<1>1. TypeOK /\ RequestOK(req[r])
  BY Parts
<1>2. PICK ps \in SUBSET Posts : ps = req[r].posts
  BY <1>1 DEF TypeOK, Request
<1>3. \A p \in ps : Ended(p)
  BY <1>1, <1>2 DEF PurgeImages, RequestOK
<1>4. PICK f \in [ps -> Amount] :
        /\ \A p \in ps : f[p] \in Remaining(image[p])
        /\ image' = [p \in Posts |-> IF p \in ps THEN f[p] ELSE image[p]]
  BY <1>2 DEF PurgeImages
<1>5. \A p \in Posts : image[p] \in Amount
  BY <1>1 DEF TypeOK
<1>6. \A p \in ps : f[p] \in Amount /\ (image[p] = "none" => f[p] = "none")
  BY <1>2, <1>4, <1>5, RemainingType
<1>7. /\ image' \in [Posts -> Amount]
      /\ \A q \in Posts : image'[q] = IF q \in ps THEN f[q] ELSE image[q]
  BY <1>4, <1>5, <1>6
<1>8. req' = End(r) /\ UNCHANGED <<user, post, reaction, job>>
  BY DEF PurgeImages
<1>9. \A q \in Posts :
        \/ image'[q] = image[q]
        \/ /\ Ended(q) \/ (req[r].pc = "uploaded" /\ q = req[r].p)
           /\ image[q] = "none" => image'[q] = "none"
  BY <1>3, <1>6, <1>7
<1> QED
  BY <1>7, <1>8, <1>9, ImagesStep

(* A post that was created is counted.                                     *)
LEMMA CountPostStep ==
  ASSUME PostInv, NEW r \in Requests, CountPost(r) PROVE PostInv'
<1>1. /\ TypeOK /\ \A q \in Posts : PostGood(q)
      /\ RequestOK(req[r])
  BY Parts
<1>2. PICK x \in Request : x = req[r]
  BY <1>1 DEF TypeOK
<1>3. x.pc = "inserted" /\ x.u \in Users /\ x.p \in Posts /\ Created(x.p)
  BY <1>1, <1>2 DEF CountPost, RequestOK
<1>4. PICK p \in Posts, u \in Users : p = x.p /\ u = x.u
  BY <1>3
<1>5. PICK c \in PostDoc : c = post[p]
  BY <1>1 DEF TypeOK
<1>6. PICK d \in PostDoc : d = [c EXCEPT !.counted = TRUE]
  BY DEF PostDoc
<1>7. /\ d.life = c.life /\ d.expired = c.expired /\ d.likes = c.likes
      /\ post' = [post EXCEPT ![p] = d]
      /\ user' = [user EXCEPT ![u].postsCount = @ + 1]
      /\ Mark(Goto(r, "counted"), {u}, {}, {})
      /\ UNCHANGED <<reaction, image, job>>
  BY <1>2, <1>4, <1>5, <1>6 DEF CountPost, PostDoc
<1>8. /\ post' \in [Posts -> PostDoc]
      /\ \A q \in Posts : post'[q] = IF q = p THEN d ELSE post[q]
      /\ Writes({}, {})
  BY <1>1, <1>5, <1>7, OnePost DEF Created, Ended, Stored
<1>9. user' \in [Users -> UserDoc]
  BY <1>1, <1>7 DEF TypeOK, UserDoc
<1>10. PICK y \in Request : y = [x EXCEPT !.pc = "counted"]
  BY GotoRecord
<1>11. y.pc = "counted" /\ y.p = x.p /\ y.u = x.u
  BY <1>10, GotoRecord
<1>12. Mark([req EXCEPT ![r] = y], {u}, {}, {})
  BY <1>2, <1>7, <1>10 DEF Goto
<1>13. \A q \in Posts : PostGood(q)'
  <2> TAKE q \in Posts
  <2>1. Likers(q)' = Likers(q)
    BY <1>7 DEF Likers
  <2>2. /\ post'[q].life = post[q].life /\ post'[q].likes = post[q].likes
        /\ post'[q].expired = post[q].expired /\ image'[q] = image[q]
    BY <1>5, <1>7, <1>8
  <2> QED
    BY <1>1, <2>1, <2>2, PostKept
<1>14. RequestOK(y)'
  BY <1>3, <1>5, <1>7, <1>8, <1>11 DEF RequestOK, Created
<1>15. \A q \in Posts : Drawn(q) => post'[q].life = "drawn"
  BY <1>5, <1>7, <1>8 DEF Drawn
<1>16. reaction' \in SUBSET (Users \X Posts) /\ image' \in [Posts -> Amount]
         /\ job' = job
  BY <1>1, <1>7 DEF TypeOK
<1> QED
  BY <1>7, <1>8, <1>9, <1>11, <1>12, <1>13, <1>14, <1>15, <1>16, RequestWrites

(* A creation that has failed withdraws its post.                          *)
LEMMA CompensateStep ==
  ASSUME PostInv, NEW r \in Requests, Compensate(r) PROVE PostInv'
<1>1. /\ TypeOK /\ \A q \in Posts : PostGood(q)
      /\ RequestOK(req[r])
  BY Parts
<1>2. PICK x \in Request : x = req[r]
  BY <1>1 DEF TypeOK
<1>3. x.pc = "compensate" /\ x.u \in Users /\ x.p \in Posts /\ Created(x.p)
  BY <1>1, <1>2 DEF Compensate, RequestOK
<1>4. PICK p \in Posts : p = x.p
  BY <1>3
<1>5. PICK y \in Request : y = [x EXCEPT !.pc = "images"]
  BY GotoRecord
<1>6. y.pc = "images" /\ y.p = x.p /\ y.u = x.u
  BY <1>5, GotoRecord
<1>7. /\ post' = IF Stored(p) THEN [post EXCEPT ![p] = Gone(p, "withdrawn")] ELSE post
      /\ Mark([req EXCEPT ![r] = y], {}, {p}, {})
      /\ UNCHANGED <<user, reaction, image, job>>
  BY <1>2, <1>4, <1>5 DEF Compensate, Goto
<1>8. /\ post' \in [Posts -> PostDoc]
      /\ Writes({p}, {})
      /\ \A q \in Posts : Drawn(q) => post'[q].life = "drawn"
      /\ \A q \in Posts : PostGood(q)'
      /\ Ended(p)'
  <2>1. CASE Stored(p)
    <3>1. PICK d \in PostDoc : /\ d = Gone(p, "withdrawn") /\ d.life = "withdrawn"
                               /\ d.expired = post[p].expired
      BY <1>1, GonePost
    <3>2. /\ post' = [post EXCEPT ![p] = d]
          /\ reaction' = reaction /\ image' = image
      BY <1>7, <2>1, <3>1
    <3> QED
      BY <2>1, <3>1, <3>2, RemovePost
  <2>2. CASE ~Stored(p)
    <3>1. post' = post /\ reaction' = reaction /\ image' = image
      BY <1>7, <2>2
    <3> QED
      BY <1>1, <1>3, <1>4, <2>2, <3>1
      DEF TypeOK, Writes, Created, Ended, Stored, Drawn, PostGood, PostOK,
          Visible, Likers
  <2> QED
    BY <2>1, <2>2
<1>9. RequestOK(y)'
  BY <1>3, <1>4, <1>6, <1>8 DEF RequestOK
<1>10. /\ user' \in [Users -> UserDoc] /\ reaction' \in SUBSET (Users \X Posts)
       /\ image' \in [Posts -> Amount] /\ image' = image /\ job' = job
  BY <1>1, <1>7 DEF TypeOK
<1> QED
  BY <1>6, <1>7, <1>8, <1>9, <1>10, RequestWrites

(* The owner deletes a post.                                               *)
LEMMA DeletePostStep ==
  ASSUME PostInv, NEW r \in Requests, DeletePost(r) PROVE PostInv'
<1>1. TypeOK /\ RequestOK(req[r])
  BY Parts
<1>2. PICK x \in Request : x = req[r]
  BY <1>1 DEF TypeOK
<1>3. x.u \in Users /\ x.p \in Posts
  BY <1>1, <1>2 DEF DeletePost, RequestOK
<1>4. PICK p \in Posts : p = x.p
  BY <1>3
<1>5. PICK y \in Request : y = [x EXCEPT !.pc = "removed"]
  BY GotoRecord
<1>6. y.pc = "removed" /\ y.p = x.p /\ y.u = x.u
  BY <1>5, GotoRecord
<1>7. /\ Stored(p)
      /\ post' = [post EXCEPT ![p] = Gone(p, "deleted")]
      /\ Mark([req EXCEPT ![r] = y], {}, {p}, {})
      /\ UNCHANGED <<user, reaction, image, job>>
  BY <1>2, <1>4, <1>5 DEF DeletePost, Goto
<1>8. /\ post' \in [Posts -> PostDoc]
      /\ Writes({p}, {})
      /\ \A q \in Posts : Drawn(q) => post'[q].life = "drawn"
      /\ \A q \in Posts : PostGood(q)'
      /\ Ended(p)'
  <2>1. PICK d \in PostDoc : /\ d = Gone(p, "deleted") /\ d.life = "deleted"
                             /\ d.expired = post[p].expired
    BY <1>1, GonePost
  <2>2. /\ Stored(p) /\ post' = [post EXCEPT ![p] = d]
        /\ reaction' = reaction /\ image' = image
    BY <1>7, <2>1
  <2> QED
    BY <2>1, <2>2, RemovePost
<1>9. RequestOK(y)'
  BY <1>3, <1>4, <1>6, <1>8 DEF RequestOK
<1>10. /\ user' \in [Users -> UserDoc] /\ reaction' \in SUBSET (Users \X Posts)
       /\ image' \in [Posts -> Amount] /\ image' = image /\ job' = job
  BY <1>1, <1>7 DEF TypeOK
<1> QED
  BY <1>6, <1>7, <1>8, <1>9, <1>10, RequestWrites

(* Lowering the count of an account stops at zero.                         *)
LEMMA DecrementType ==
  ASSUME TypeOK, NEW u \in Users, user' = [user EXCEPT ![u].postsCount = Dec(@)]
  PROVE  user' \in [Users -> UserDoc]
<1>1. \A n \in Nat : Dec(n) \in Nat
  BY DEF Dec
<1>2. PICK d \in UserDoc : d = user[u]
  BY DEF TypeOK
<1>3. [d EXCEPT !.postsCount = Dec(d.postsCount)] \in UserDoc
  BY <1>1 DEF UserDoc
<1> QED
  BY <1>2, <1>3 DEF TypeOK

(* The count of the author follows.                                        *)
LEMMA DecrementPostCountStep ==
  ASSUME PostInv, NEW r \in Requests, DecrementPostCount(r) PROVE PostInv'
<1>1. /\ TypeOK /\ \A q \in Posts : PostGood(q)
      /\ RequestOK(req[r])
  BY Parts
<1>2. PICK x \in Request : x = req[r]
  BY <1>1 DEF TypeOK
<1>3. x.pc = "removed" /\ x.u \in Users /\ x.p \in Posts /\ Ended(x.p)
  BY <1>1, <1>2 DEF DecrementPostCount, RequestOK
<1>4. PICK u \in Users : u = x.u
  BY <1>3
<1>5. PICK y \in Request : y = [x EXCEPT !.pc = "images"]
  BY GotoRecord
<1>6. y.pc = "images" /\ y.p = x.p /\ y.u = x.u
  BY <1>5, GotoRecord
<1>7. UNCHANGED <<post, reaction, image, job>>
  BY DEF DecrementPostCount
<1>8. \/ /\ user' = [user EXCEPT ![u].postsCount = Dec(@)]
         /\ Mark([req EXCEPT ![r] = y], {u}, {}, {})
      \/ req' = [req EXCEPT ![r] = y] /\ user' = user
  BY <1>2, <1>4, <1>5 DEF DecrementPostCount, Goto
<1>9. Writes({}, {})
  BY <1>7 DEF Writes, Created, Ended, Stored
<1>10. \A q \in Posts : PostGood(q)'
  BY <1>1, <1>7 DEF PostGood, PostOK, Visible, Stored, Created, Likers
<1>11. RequestOK(y)'
  BY <1>3, <1>6, <1>7 DEF RequestOK, Ended, Created, Stored
<1>12. /\ post' \in [Posts -> PostDoc] /\ reaction' \in SUBSET (Users \X Posts)
       /\ image' \in [Posts -> Amount] /\ image' = image /\ job' = job
  BY <1>1, <1>7 DEF TypeOK
<1>13. \A p \in Posts : Drawn(p) => post'[p].life = "drawn"
  BY <1>7 DEF Drawn
<1>14. CASE user' = [user EXCEPT ![u].postsCount = Dec(@)]
              /\ Mark([req EXCEPT ![r] = y], {u}, {}, {})
  <2>1. user' \in [Users -> UserDoc]
    BY <1>1, <1>14, DecrementType
  <2> QED
    BY <1>6, <1>9, <1>10, <1>11, <1>12, <1>13, <1>14, <2>1, RequestWrites
<1>15. CASE req' = [req EXCEPT ![r] = y] /\ user' = user
  <2>1. user' \in [Users -> UserDoc]
    BY <1>1, <1>15 DEF TypeOK
  <2> QED
    BY <1>6, <1>9, <1>10, <1>11, <1>12, <1>13, <1>15, <2>1, RequestWrites
<1> QED
  BY <1>8, <1>14, <1>15

-----------------------------------------------------------------------------
(* Reactions                                                               *)

LEMMA LikersFinite ==
  ASSUME NEW p \in Posts
  PROVE  IsFiniteSet(Likers(p)) /\ Cardinality(Likers(p)) \in Nat
<1>1. Likers(p) \subseteq Users
  BY DEF Likers
<1>2. IsFiniteSet(Likers(p))
  BY <1>1, UsersAssumption, FS_Subset
<1> QED
  BY <1>2, FS_CardinalityType

(* A reaction is one more liker of its post, and of no other.              *)
LEMMA OneMoreLiker ==
  ASSUME NEW u \in Users, NEW p \in Posts, <<u, p>> \notin reaction,
         reaction' = reaction \cup {<<u, p>>}
  PROVE  /\ Cardinality(Likers(p))' = Cardinality(Likers(p)) + 1
         /\ \A q \in Posts \ {p} : Likers(q)' = Likers(q)
<1>1. PICK S : S = Likers(p) /\ IsFiniteSet(S) /\ u \notin S
  BY LikersFinite DEF Likers
<1>2. PICK T : T = S \cup {u}
  OBVIOUS
<1>3. Cardinality(T) = Cardinality(S) + 1
  BY <1>1, <1>2, FS_AddElement
<1>4. Likers(p)' = T
  BY <1>1, <1>2 DEF Likers
<1>5. Cardinality(Likers(p))' = Cardinality(T)
  BY <1>4
<1> QED
  BY <1>1, <1>3, <1>5 DEF Likers

(* A reaction removed is one less.                                         *)
LEMMA OneLikerLess ==
  ASSUME NEW u \in Users, NEW p \in Posts, <<u, p>> \in reaction,
         reaction' = reaction \ {<<u, p>>}
  PROVE  /\ Cardinality(Likers(p)) > 0
         /\ Cardinality(Likers(p))' = Cardinality(Likers(p)) - 1
         /\ Likers(p)' \subseteq Likers(p)
         /\ \A q \in Posts \ {p} : Likers(q)' = Likers(q)
<1>1. PICK S : S = Likers(p) /\ IsFiniteSet(S) /\ u \in S
  BY LikersFinite DEF Likers
<1>2. PICK T : T = S \ {u}
  OBVIOUS
<1>3. Cardinality(T) = Cardinality(S) - 1
  BY <1>1, <1>2, FS_RemoveElement
<1>4. IsFiniteSet(T)
  BY <1>1, <1>2, FS_RemoveElement
<1>5. Cardinality(T) \in Nat /\ Cardinality(S) \in Nat
  BY <1>1, <1>4, FS_CardinalityType
<1>6. Likers(p)' = T
  BY <1>1, <1>2 DEF Likers
<1>7. Cardinality(Likers(p))' = Cardinality(T)
  BY <1>6
<1>8. \A q \in Posts \ {p} : Likers(q)' = Likers(q)
  BY DEF Likers
<1> QED
  BY <1>1, <1>2, <1>3, <1>5, <1>6, <1>7, <1>8

(* A transaction that is not stale finds no reaction, and its post there.  *)
LEMMA AddReactionStep ==
  ASSUME PostInv, NEW r \in Requests, AddReaction(r) PROVE PostInv'
<1>1. /\ TypeOK /\ \A q \in Posts : PostGood(q)
      /\ RequestOK(req[r])
  BY Parts
<1>2. PICK x \in Request : x = req[r]
  BY <1>1 DEF TypeOK
<1>3. /\ x.pc = "txn" /\ x.op = "react" /\ x.seen = {}
      /\ ~Conflicting(x) /\ RequestOK(x) /\ ~post[x.p].expired
  BY <1>1, <1>2 DEF AddReaction
<1>4. x.p \in Posts /\ x.u \in Users /\ ReactionTxnOK(x)
  BY <1>3 DEF RequestOK, ReactionTxnOK
<1>5. PICK u \in Users, p \in Posts : u = x.u /\ p = x.p
  BY <1>4
<1>6. PICK e : e = <<u, p>>
  OBVIOUS
<1>7. "reaction" \notin x.stale /\ "post" \notin x.stale
  BY <1>3 DEF Conflicting
<1>8. e \notin reaction
  BY <1>3, <1>4, <1>5, <1>6, <1>7 DEF ReactionTxnOK
<1>9. p \in PostsToWrite(x)
  BY <1>3, <1>5 DEF PostsToWrite
<1>10. Stored(p)
  BY <1>3, <1>4, <1>5, <1>7, <1>9 DEF ReactionTxnOK
<1>11. PICK c \in PostDoc : c = post[p]
  BY <1>1 DEF TypeOK
<1>12. PICK d \in PostDoc : d = [c EXCEPT !.likes = c.likes + 1]
  <2>1. c.likes + 1 \in Nat
    BY DEF PostDoc
  <2> QED
    BY <2>1 DEF PostDoc
<1>13. /\ d.life = c.life /\ d.expired = c.expired /\ d.likes = c.likes + 1
       /\ post' = [post EXCEPT ![p] = d]
       /\ reaction' = reaction \cup {e}
       /\ Mark([req EXCEPT ![r] = IdleRequest], {}, {p}, {e})
       /\ UNCHANGED <<user, image, job>>
  <2>1. d.life = c.life /\ d.expired = c.expired /\ d.likes = c.likes + 1
    BY <1>12 DEF PostDoc
  <2>2. post' = [post EXCEPT ![p] = d]
    BY <1>2, <1>5, <1>11, <1>12 DEF AddReaction
  <2>3. /\ reaction' = reaction \cup {e}
        /\ Mark([req EXCEPT ![r] = IdleRequest], {}, {p}, {e})
        /\ UNCHANGED <<user, image, job>>
    BY <1>2, <1>5, <1>6 DEF AddReaction, End
  <2> QED
    BY <2>1, <2>2, <2>3
<1>14. /\ post' \in [Posts -> PostDoc]
       /\ \A q \in Posts : post'[q] = IF q = p THEN d ELSE post[q]
  BY <1>1, <1>13 DEF TypeOK
<1>15. e \in Users \X Posts /\ reaction' \in SUBSET (Users \X Posts)
  BY <1>1, <1>6, <1>13 DEF TypeOK
<1>16. /\ Cardinality(Likers(p))' = Cardinality(Likers(p)) + 1
       /\ \A q \in Posts \ {p} : Likers(q)' = Likers(q)
  BY <1>6, <1>8, <1>13, OneMoreLiker
<1>17. Writes({p}, {e})
  BY <1>6, <1>11, <1>13, <1>14 DEF Writes, Created, Ended, Stored
<1>18. PostGood(p)'
  BY <1>1, <1>10, <1>11, <1>13, <1>14, <1>16
  DEF PostGood, PostOK, Visible, Stored, Created
<1>19. \A q \in Posts \ {p} : PostGood(q)'
  <2> TAKE q \in Posts \ {p}
  <2>1. Likers(q)' = Likers(q) /\ post'[q] = post[q] /\ image'[q] = image[q]
    BY <1>13, <1>14, <1>16
  <2> QED
    BY <1>1, <2>1, PostKept
<1>20. \A q \in Posts : PostGood(q)'
  BY <1>18, <1>19
<1>21. \A q \in Posts : Drawn(q) => post'[q].life = "drawn"
  BY <1>11, <1>13, <1>14 DEF Drawn
<1>22. IdleRequest \in Request /\ RequestOK(IdleRequest)'
         /\ IdleRequest.pc \notin {"txn", "uploaded"}
  BY IdleOK DEF IdleRequest, RequestOK
<1>23. user' \in [Users -> UserDoc] /\ image' \in [Posts -> Amount]
         /\ image' = image /\ job' = job
  BY <1>1, <1>13 DEF TypeOK
<1> QED
  BY <1>13, <1>14, <1>15, <1>17, <1>20, <1>21, <1>22, <1>23, RequestWrites

(* It finds its reaction, and counts it off if the post is still shown.    *)
LEMMA RemoveReactionStep ==
  ASSUME PostInv, NEW r \in Requests, RemoveReaction(r) PROVE PostInv'
<1>1. /\ TypeOK /\ \A q \in Posts : PostGood(q)
      /\ RequestOK(req[r])
  BY Parts
<1>2. PICK x \in Request : x = req[r]
  BY <1>1 DEF TypeOK
<1>3. /\ x.pc = "txn" /\ x.op = "remove" /\ x.seen # {}
      /\ ~Conflicting(x) /\ RequestOK(x)
  BY <1>1, <1>2 DEF RemoveReaction
<1>4. x.p \in Posts /\ x.u \in Users /\ Created(x.p) /\ ReactionTxnOK(x)
  BY <1>3 DEF RequestOK, ReactionTxnOK
<1>5. PICK u \in Users, p \in Posts : u = x.u /\ p = x.p
  BY <1>4
<1>6. PICK e : e = <<u, p>>
  OBVIOUS
<1>7. "reaction" \notin x.stale
  BY <1>3 DEF Conflicting
<1>8. e \in reaction
  BY <1>3, <1>4, <1>5, <1>6, <1>7 DEF ReactionTxnOK
<1>9. /\ reaction' = reaction \ {e}
      /\ UNCHANGED <<user, image, job>>
      /\ IF post[p].expired
         THEN /\ Mark([req EXCEPT ![r] = IdleRequest], {}, {}, {e})
              /\ UNCHANGED post
         ELSE /\ post' = [post EXCEPT ![p].likes = Dec(@)]
              /\ Mark([req EXCEPT ![r] = IdleRequest], {}, {p}, {e})
  BY <1>2, <1>5, <1>6 DEF RemoveReaction, End
<1>10. /\ Cardinality(Likers(p)) > 0
       /\ Cardinality(Likers(p))' = Cardinality(Likers(p)) - 1
       /\ Likers(p)' \subseteq Likers(p)
       /\ \A q \in Posts \ {p} : Likers(q)' = Likers(q)
  BY <1>6, <1>8, <1>9, OneLikerLess
<1>11. PICK c \in PostDoc : c = post[p]
  BY <1>1 DEF TypeOK
<1>12. IdleRequest \in Request /\ RequestOK(IdleRequest)'
         /\ IdleRequest.pc \notin {"txn", "uploaded"}
  BY IdleOK DEF IdleRequest, RequestOK
<1>13. user' \in [Users -> UserDoc] /\ image' \in [Posts -> Amount]
         /\ image' = image /\ job' = job /\ reaction' \in SUBSET (Users \X Posts)
  BY <1>1, <1>9 DEF TypeOK
<1>14. CASE post[p].expired
  <2>1. post' = post /\ post' \in [Posts -> PostDoc]
    BY <1>1, <1>9, <1>14 DEF TypeOK
  <2>2. Writes({}, {e})
    BY <1>9, <2>1 DEF Writes, Created, Ended, Stored
  <2>3. PostGood(p)'
    BY <1>1, <1>4, <1>5, <1>10, <1>13, <1>14, <2>1
    DEF PostGood, PostOK, Visible, Stored, Created
  <2>4. \A q \in Posts \ {p} : PostGood(q)'
    <3> TAKE q \in Posts \ {p}
    <3>1. Likers(q)' = Likers(q) /\ post'[q] = post[q] /\ image'[q] = image[q]
      BY <1>10, <1>13, <2>1
    <3> QED
      BY <1>1, <3>1, PostKept
  <2>5. \A q \in Posts : PostGood(q)'
    BY <2>3, <2>4
  <2>6. \A q \in Posts : Drawn(q) => post'[q].life = "drawn"
    BY <2>1 DEF Drawn
  <2>7. Mark([req EXCEPT ![r] = IdleRequest], {}, {}, {e})
    BY <1>9, <1>14
  <2> QED
    BY <1>12, <1>13, <2>1, <2>2, <2>5, <2>6, <2>7, RequestWrites
<1>15. CASE ~post[p].expired
  <2>1. post' = [post EXCEPT ![p].likes = Dec(@)]
          /\ Mark([req EXCEPT ![r] = IdleRequest], {}, {p}, {e})
    BY <1>9, <1>15
  <2>2. Dec(c.likes) \in Nat /\ (c.likes > 0 => Dec(c.likes) = c.likes - 1)
    BY <1>11 DEF PostDoc, Dec
  <2>3. PICK d \in PostDoc : d = [c EXCEPT !.likes = Dec(c.likes)]
    BY <2>2 DEF PostDoc
  <2>4. /\ d.life = c.life /\ d.expired = c.expired /\ d.likes = Dec(c.likes)
        /\ post' = [post EXCEPT ![p] = d]
    BY <1>11, <2>1, <2>3 DEF PostDoc
  <2>5. /\ post' \in [Posts -> PostDoc]
        /\ \A q \in Posts : post'[q] = IF q = p THEN d ELSE post[q]
    BY <1>1, <2>4 DEF TypeOK
  <2>6. Writes({p}, {e})
    BY <1>9, <1>11, <2>4, <2>5 DEF Writes, Created, Ended, Stored
  <2>7. PostGood(p)'
    BY <1>1, <1>4, <1>5, <1>10, <1>11, <1>13, <2>2, <2>4, <2>5
    DEF PostGood, PostOK, Visible, Stored, Created
  <2>8. \A q \in Posts \ {p} : PostGood(q)'
    <3> TAKE q \in Posts \ {p}
    <3>1. Likers(q)' = Likers(q) /\ post'[q] = post[q] /\ image'[q] = image[q]
      BY <1>10, <1>13, <2>5
    <3> QED
      BY <1>1, <3>1, PostKept
  <2>9. \A q \in Posts : PostGood(q)'
    BY <2>7, <2>8
  <2>10. \A q \in Posts : Drawn(q) => post'[q].life = "drawn"
    BY <1>11, <2>4, <2>5 DEF Drawn
  <2> QED
    BY <1>12, <1>13, <2>1, <2>5, <2>6, <2>9, <2>10, RequestWrites
<1> QED
  BY <1>14, <1>15

-----------------------------------------------------------------------------
(* The deletion of an account commits                                      *)

(* What becomes of one post: it goes with its author, loses the like of    *)
(* the account, or stays as it is.                                         *)
LEMMA AccountPost ==
  ASSUME TypeOK, NEW ps, NEW mine, NEW p \in Posts,
         post'[p] = IF p \in ps THEN Gone(p, "purged")
                    ELSE IF p \in mine THEN [post[p] EXCEPT !.likes = Dec(@)]
                    ELSE post[p]
  PROVE  /\ post'[p] \in PostDoc
         /\ post'[p].life = IF p \in ps THEN "purged" ELSE post[p].life
         /\ post'[p].expired = post[p].expired
         /\ p \notin ps =>
              post'[p].likes = IF p \in mine THEN Dec(post[p].likes)
                               ELSE post[p].likes
<1>1. PICK c \in PostDoc : c = post[p]
  BY DEF TypeOK
<1>2. CASE p \in ps
  <2>1. PICK d \in PostDoc : /\ d = Gone(p, "purged") /\ d.life = "purged"
                             /\ d.expired = post[p].expired
    BY GonePost
  <2> QED
    BY <1>2, <2>1
<1>3. CASE p \notin ps /\ p \in mine
  <2>1. Dec(c.likes) \in Nat
    BY DEF PostDoc, Dec
  <2>2. PICK d \in PostDoc : d = [c EXCEPT !.likes = Dec(c.likes)]
    BY <2>1 DEF PostDoc
  <2>3. d.life = c.life /\ d.expired = c.expired /\ d.likes = Dec(c.likes)
    BY <2>2 DEF PostDoc
  <2>4. post'[p] = d
    BY <1>1, <1>3, <2>2
  <2> QED
    BY <1>1, <1>3, <2>3, <2>4
<1>4. CASE p \notin ps /\ p \notin mine
  BY <1>1, <1>4
<1> QED
  BY <1>2, <1>3, <1>4

(* All reactions on its posts are known, and of the others only its own.   *)
LEMMA DeleteCommitStep ==
  ASSUME PostInv, NEW r \in Requests, DeleteCommit(r) PROVE PostInv'
<1>1. /\ TypeOK /\ \A q \in Posts : PostGood(q)
      /\ RequestOK(req[r])
  BY Parts
<1>2. PICK x \in Request : x = req[r]
  BY <1>1 DEF TypeOK
<1>3. /\ x.pc = "txn" /\ x.op = "account" /\ x.stale = {} /\ AccountTxnOK(x)
  BY <1>1, <1>2 DEF DeleteCommit, Conflicting, RequestOK
<1>4. PICK u \in Users, ps \in SUBSET Posts, s \in SUBSET (Users \X Posts) :
        u = x.u /\ ps = x.posts /\ s = x.seen
  BY <1>3 DEF AccountTxnOK, Request
<1>5. PICK mine \in SUBSET Posts : mine = {p \in Posts : <<u, p>> \in s}
  OBVIOUS
<1>6. /\ \A p \in ps : AuthorOf[p] = u /\ Created(p) /\ Stored(p)
      /\ s \subseteq reaction
      /\ \A e \in reaction : e[2] \in ps => e \in s
      /\ \A e \in s :
           /\ Created(e[2])
           /\ e[1] = u \/ AuthorOf[e[2]] = u
           /\ AuthorOf[e[2]] = u /\ e[2] \notin ps => ~Stored(e[2])
  BY <1>3, <1>4 DEF AccountTxnOK
<1>7. PICK y \in Request : y = [x EXCEPT !.pc = "purge"]
  BY GotoRecord
<1>8. y.pc = "purge" /\ y.posts = ps
  BY <1>4, <1>7, GotoRecord
<1>9. /\ user' = [user EXCEPT ![u] = [deleted |-> TRUE, postsCount |-> 0]]
      /\ reaction' = reaction \ s
      /\ post' = [p \in Posts |->
                    IF p \in ps THEN Gone(p, "purged")
                    ELSE IF p \in mine THEN [post[p] EXCEPT !.likes = Dec(@)]
                    ELSE post[p]]
      /\ Mark([req EXCEPT ![r] = y], {u}, ps \cup mine, s)
      /\ UNCHANGED <<image, job>>
  BY <1>2, <1>4, <1>5, <1>7 DEF DeleteCommit, Goto
<1>10. \A p \in Posts :
         /\ post'[p] \in PostDoc
         /\ post'[p].life = IF p \in ps THEN "purged" ELSE post[p].life
         /\ post'[p].expired = post[p].expired
         /\ p \notin ps =>
              post'[p].likes = IF p \in mine THEN Dec(post[p].likes)
                               ELSE post[p].likes
  <2> TAKE p \in Posts
  <2>1. post'[p] = IF p \in ps THEN Gone(p, "purged")
                   ELSE IF p \in mine THEN [post[p] EXCEPT !.likes = Dec(@)]
                   ELSE post[p]
    BY <1>9
  <2> QED
    BY <1>1, <2>1, AccountPost
<1>11. post' \in [Posts -> PostDoc]
  BY <1>9, <1>10
<1>12. user' \in [Users -> UserDoc]
  BY <1>1, <1>9 DEF TypeOK, UserDoc
<1>13. reaction' \in SUBSET (Users \X Posts) /\ image' \in [Posts -> Amount]
         /\ image' = image /\ job' = job
  BY <1>1, <1>9 DEF TypeOK
<1>14. Writes(ps \cup mine, s)
  BY <1>9, <1>10 DEF Writes, Created, Ended, Stored
<1>15. \A p \in ps : Ended(p)'
  BY <1>10 DEF Ended, Created, Stored
<1>16. RequestOK(y)'
  BY <1>8, <1>15 DEF RequestOK
<1>17. \A p \in Posts : Drawn(p) => post'[p].life = "drawn"
  BY <1>6, <1>10 DEF Drawn, Created
<1>18. \A p \in Posts : PostGood(p)'
  <2> TAKE p \in Posts
  <2>1. Likers(p)' \subseteq Likers(p)
    BY <1>9 DEF Likers
  <2>2. /\ post'[p].life = IF p \in ps THEN "purged" ELSE post[p].life
        /\ post'[p].expired = post[p].expired
        /\ p \notin ps =>
             post'[p].likes = IF p \in mine THEN Dec(post[p].likes)
                              ELSE post[p].likes
        /\ PostGood(p) /\ image'[p] = image[p]
    BY <1>1, <1>10, <1>13
  <2>3. CASE p \in ps
    <3>1. \A v \in Users : <<v, p>> \in reaction => <<v, p>> \in s
      BY <1>6, <2>3
    <3>2. Likers(p)' = {}
      BY <1>9, <3>1 DEF Likers
    <3> QED
      BY <2>2, <2>3, <3>2 DEF PostGood, PostOK, Visible, Stored, Created
  <2>4. CASE p \notin ps /\ ~Visible(p)
    <3>1. ~Created(p) => p \notin mine
      BY <1>5, <1>6
    <3>2. ~Visible(p)' /\ (Created(p)' <=> Created(p))
      BY <2>2, <2>4 DEF Visible, Stored, Created
    <3> QED
      BY <2>1, <2>2, <2>4, <3>1, <3>2 DEF PostGood, PostOK
  <2>5. CASE p \notin ps /\ Visible(p)
    <3>1. Stored(p) /\ Created(p) /\ Created(p)' /\ post'[p].life = "stored"
      BY <2>2, <2>5 DEF Visible, Stored, Created
    <3>2. \A v \in Users : <<v, p>> \in s => v = u
      BY <1>6, <2>5, <3>1
    <3>3. CASE p \in mine
      <4>1. PICK S : S = Likers(p) /\ IsFiniteSet(S)
        BY LikersFinite
      <4>2. PICK T : T = S \ {u}
        OBVIOUS
      <4>3. u \in S
        BY <1>5, <1>6, <3>3, <4>1 DEF Likers
      <4>4. Cardinality(T) = Cardinality(S) - 1
        BY <4>1, <4>2, <4>3, FS_RemoveElement
      <4>5. Likers(p)' = T
        BY <1>5, <1>9, <3>2, <3>3, <4>1, <4>2 DEF Likers
      <4>6. Cardinality(T) \in Nat /\ Cardinality(S) \in Nat
        BY <4>1, <4>2, <4>3, FS_RemoveElement, FS_CardinalityType
      <4>7. Cardinality(Likers(p))' = Cardinality(S) - 1
        BY <4>4, <4>5
      <4>8. post[p].likes = Cardinality(S)
        BY <2>2, <2>5, <4>1 DEF PostGood
      <4>9. post'[p].likes = Cardinality(S) - 1
        BY <2>2, <2>5, <3>3, <4>4, <4>6, <4>8 DEF Dec
      <4> QED
        BY <2>2, <2>5, <3>1, <4>7, <4>9 DEF PostGood, PostOK
    <3>4. CASE p \notin mine
      <4>1. Likers(p)' = Likers(p)
        BY <1>5, <1>9, <3>2, <3>4 DEF Likers
      <4> QED
        BY <2>2, <2>5, <3>4, <4>1, PostKept
    <3> QED
      BY <3>3, <3>4
  <2> QED
    BY <2>3, <2>4, <2>5
<1> QED
  BY <1>8, <1>9, <1>11, <1>12, <1>13, <1>14, <1>16, <1>17, <1>18, RequestWrites

-----------------------------------------------------------------------------
(* The clean-up                                                            *)

LEMMA IdleJobType == IdleJob \in Job /\ IdleJob.pc = "idle"
  BY DEF IdleJob, Job

LEMMA JobGotoRecord ==
  ASSUME NEW k \in Job, NEW pc \in {"removed", "decrement", "failing"}
  PROVE  LET y == [k EXCEPT !.pc = pc] IN y \in Job /\ y.pc = pc /\ y.p = k.p
  BY DEF Job

(* A step of a job that writes no document of the database, only images.   *)
LEMMA JobQuiet ==
  ASSUME PostInv, NEW j \in Jobs, NEW y \in Job, job' = [job EXCEPT ![j] = y],
         UNCHANGED <<user, post, reaction, req>>, image' \in [Posts -> Amount],
         \A p \in Posts : Drawn(p) => image'[p] = image[p],
         \A p \in Posts : Created(p) /\ image[p] = "none" => image'[p] = "none",
         y.pc # "idle" =>
           /\ y.p \in Posts /\ Created(y.p)' /\ post'[y.p].expired
           /\ y.pc = "removed" => image'[y.p] = "none",
         \A p \in Posts : PostGood(p)'
  PROVE  PostInv'
<1>1. TypeOK
  BY Parts
<1>2. Writes({}, {})
  BY DEF Writes, Created, Ended, Stored
<1>3. Mark(req, {}, {}, {})
  BY <1>1, MarkNone DEF TypeOK
<1>4. user' \in [Users -> UserDoc] /\ post' \in [Posts -> PostDoc]
  BY <1>1 DEF TypeOK
<1>5. \A p \in Posts :
        Drawn(p) => post'[p].life = "drawn" /\ image'[p] = image[p]
  BY DEF Drawn
<1>6. reaction' = reaction
  OBVIOUS
<1> QED
  BY <1>2, <1>3, <1>4, <1>5, <1>6, JobWrites

(* A step of a job that changes nothing but where it is.                   *)
LEMMA JobOnly ==
  ASSUME PostInv, NEW j \in Jobs, NEW y \in Job, job' = [job EXCEPT ![j] = y],
         UNCHANGED <<user, post, reaction, image, req>>,
         y.pc # "idle" => y.p = job[j].p /\ job[j].pc # "idle" /\ y.pc # "removed"
  PROVE  PostInv'
<1>1. /\ TypeOK /\ JobOK(j)
      /\ \A q \in Posts : PostGood(q)
  BY Parts
<1>2. \A q \in Posts : PostGood(q)'
  BY <1>1 DEF PostGood, PostOK, Visible, Stored, Created, Likers
<1>3. y.pc # "idle" =>
        /\ y.p \in Posts /\ Created(y.p)' /\ post'[y.p].expired
        /\ y.pc = "removed" => image'[y.p] = "none"
  <2>1. y.pc # "idle" => y.p \in Posts /\ Created(y.p) /\ post[y.p].expired
    BY <1>1 DEF JobOK
  <2>2. post' = post
    OBVIOUS
  <2> QED
    BY <2>1, <2>2 DEF Created
<1>4. image' = image /\ image \in [Posts -> Amount]
  BY <1>1 DEF TypeOK
<1> QED
  BY <1>2, <1>3, <1>4, JobQuiet

(* A job deletes images of its post, which has expired.                    *)
LEMMA JobImages ==
  ASSUME PostInv, NEW j \in Jobs, NEW y \in Job, job' = [job EXCEPT ![j] = y],
         NEW p \in Posts, p = job[j].p, job[j].pc # "idle", y.p = p,
         NEW a \in Amount, image' = [image EXCEPT ![p] = a],
         image[p] = "none" => a = "none",
         y.pc = "removed" => a = "none",
         UNCHANGED <<user, post, reaction, req>>
  PROVE  PostInv'
<1>1. /\ TypeOK /\ JobOK(j)
      /\ \A q \in Posts : PostGood(q)
  BY Parts
<1>2. Created(p) /\ post[p].expired
  BY <1>1 DEF JobOK
<1>3. /\ image' \in [Posts -> Amount]
      /\ \A q \in Posts : image'[q] = IF q = p THEN a ELSE image[q]
  BY <1>1 DEF TypeOK
<1>4. PostGood(p)'
  BY <1>1, <1>2, <1>3 DEF PostGood, PostOK, Visible, Stored, Created, Likers
<1>5. \A q \in Posts : PostGood(q)'
  BY <1>1, <1>3, <1>4, OtherPosts
<1>6. y.pc # "idle" =>
        /\ y.p \in Posts /\ Created(y.p)' /\ post'[y.p].expired
        /\ y.pc = "removed" => image'[y.p] = "none"
  BY <1>2, <1>3 DEF Created
<1>7. \A q \in Posts : Drawn(q) => image'[q] = image[q]
  BY <1>2, <1>3 DEF Drawn, Created
<1>8. \A q \in Posts : Created(q) /\ image[q] = "none" => image'[q] = "none"
  BY <1>3
<1>9. image' \in [Posts -> Amount]
  BY <1>3
<1> QED
  BY <1>5, <1>6, <1>7, <1>8, <1>9, JobQuiet

(* A job writes its post, but leaves it in the collection.                 *)
LEMMA JobWritesPost ==
  ASSUME PostInv, NEW j \in Jobs, NEW y \in Job, job' = [job EXCEPT ![j] = y],
         NEW p \in Posts, NEW d \in PostDoc, Stored(p),
         post' = [post EXCEPT ![p] = d],
         d.life = post[p].life, d.likes = post[p].likes, d.expired = post[p].expired,
         y.pc # "idle" => y.p = p /\ post[p].expired /\ y.pc # "removed",
         Mark(req, {}, {p}, {}), UNCHANGED <<user, reaction, image>>
  PROVE  PostInv'
<1>1. /\ TypeOK /\ \A q \in Posts : PostGood(q)
  BY Parts
<1>2. /\ post' \in [Posts -> PostDoc]
      /\ \A q \in Posts : post'[q] = IF q = p THEN d ELSE post[q]
      /\ Writes({p}, {})
  BY <1>1, OnePost DEF Created, Ended, Stored
<1>3. \A q \in Posts : PostGood(q)'
  <2> TAKE q \in Posts
  <2>1. /\ Likers(q)' = Likers(q) /\ image'[q] = image[q]
        /\ post'[q].life = post[q].life /\ post'[q].likes = post[q].likes
        /\ post'[q].expired = post[q].expired
    BY <1>2 DEF Likers
  <2> QED
    BY <1>1, <2>1, PostKept
<1>4. y.pc # "idle" =>
        /\ y.p \in Posts /\ Created(y.p)' /\ post'[y.p].expired
        /\ y.pc = "removed" => image'[y.p] = "none"
  BY <1>2 DEF Created, Stored
<1>5. /\ user' \in [Users -> UserDoc] /\ reaction' = reaction
      /\ image' \in [Posts -> Amount] /\ image' = image
  BY <1>1 DEF TypeOK
<1>6. \A q \in Posts : Drawn(q) => post'[q].life = "drawn" /\ image'[q] = image[q]
  BY <1>2, <1>5 DEF Drawn
<1>7. \A q \in Posts : Created(q) /\ image[q] = "none" => image'[q] = "none"
  BY <1>5
<1>8. post' \in [Posts -> PostDoc] /\ Writes({p}, {})
  BY <1>2
<1> QED
  BY <1>3, <1>4, <1>5, <1>6, <1>7, <1>8, JobWrites

LEMMA ClaimStep ==
  ASSUME PostInv, NEW j \in Jobs, NEW p \in Posts, Claim(j, p) PROVE PostInv'
<1>1. TypeOK
  BY Parts
<1>2. PICK c \in PostDoc : c = post[p]
  BY <1>1 DEF TypeOK
<1>3. Stored(p) /\ c.expired /\ c.attempts < MaxAttempts
  BY <1>2 DEF Claim, Claimable
<1>4. c.attempts + 1 \in 0..MaxAttempts
  BY <1>3, MaxAttemptsAssumption DEF PostDoc
<1>5. PICK d \in PostDoc :
        d = [c EXCEPT !.cleanup = "processing", !.locked = TRUE,
                      !.attempts = c.attempts + 1]
  BY <1>4 DEF PostDoc
<1>6. d.life = c.life /\ d.likes = c.likes /\ d.expired = c.expired
  BY <1>5 DEF PostDoc
<1>7. post' = [post EXCEPT ![p] = d]
  BY <1>2, <1>5 DEF Claim
<1>8. PICK y \in Job : y = [pc |-> "claimed", p |-> p]
  BY DEF Job
<1>9. y.pc = "claimed" /\ y.p = p /\ job' = [job EXCEPT ![j] = y]
  BY <1>8 DEF Claim
<1>10. Mark(req, {}, {p}, {}) /\ UNCHANGED <<user, reaction, image>>
  BY DEF Claim
<1> QED
  BY <1>2, <1>3, <1>6, <1>7, <1>9, <1>10, JobWritesPost

LEMMA DeleteImagesStep ==
  ASSUME PostInv, NEW j \in Jobs, DeleteImages(j) PROVE PostInv'
<1>1. TypeOK /\ JobOK(j)
  BY Parts
<1>2. PICK k \in Job : k = job[j]
  BY <1>1 DEF TypeOK
<1>3. job[j].pc # "idle" /\ k.p \in Posts
  BY <1>1, <1>2 DEF DeleteImages, JobOK
<1>4. PICK y \in Job : y = [k EXCEPT !.pc = "removed"] /\ y.p = k.p
  BY JobGotoRecord
<1>5. PICK p \in Posts : p = k.p
  BY <1>3
<1>6. job' = [job EXCEPT ![j] = y] /\ image' = [image EXCEPT ![p] = "none"]
        /\ UNCHANGED <<user, post, reaction, req>>
  BY <1>2, <1>4, <1>5 DEF DeleteImages, JobGoto
<1>7. "none" \in Amount
  BY DEF Amount
<1> QED
  BY <1>2, <1>3, <1>4, <1>5, <1>6, <1>7, JobImages

LEMMA FailToDeleteImagesStep ==
  ASSUME PostInv, NEW j \in Jobs, FailToDeleteImages(j) PROVE PostInv'
<1>1. TypeOK /\ JobOK(j)
  BY Parts
<1>2. PICK k \in Job : k = job[j]
  BY <1>1 DEF TypeOK
<1>3. job[j].pc # "idle" /\ k.p \in Posts
  BY <1>1, <1>2 DEF FailToDeleteImages, JobOK
<1>4. PICK y \in Job : y = [k EXCEPT !.pc = "failing"] /\ y.p = k.p /\ y.pc = "failing"
  BY JobGotoRecord
<1>5. PICK p \in Posts : p = k.p
  BY <1>3
<1>6. PICK a \in Remaining(image[p]) : image' = [image EXCEPT ![p] = a]
  BY <1>2, <1>5 DEF FailToDeleteImages
<1>7. image[p] \in Amount
  BY <1>1 DEF TypeOK
<1>8. a \in Amount /\ (image[p] = "none" => a = "none")
  BY <1>6, <1>7, RemainingType
<1>9. job' = [job EXCEPT ![j] = y] /\ UNCHANGED <<user, post, reaction, req>>
  BY <1>2, <1>4 DEF FailToDeleteImages, JobGoto
<1> QED
  BY <1>2, <1>3, <1>4, <1>5, <1>6, <1>8, <1>9, JobImages

(* A post leaves the collection when its images are gone.                  *)
LEMMA RemoveExpiredStep ==
  ASSUME PostInv, NEW j \in Jobs, RemoveExpired(j) PROVE PostInv'
<1>1. TypeOK /\ JobOK(j)
  BY Parts
<1>2. PICK k \in Job : k = job[j]
  BY <1>1 DEF TypeOK
<1>3. k.p \in Posts /\ post[k.p].expired /\ image[k.p] = "none"
  BY <1>1, <1>2 DEF RemoveExpired, JobOK
<1>4. PICK y \in Job : /\ y = [k EXCEPT !.pc = "decrement"] /\ y.p = k.p
                       /\ y.pc = "decrement"
  BY JobGotoRecord
<1>5. PICK p \in Posts : p = k.p
  BY <1>3
<1>6. PICK d \in PostDoc : /\ d = Gone(p, "cleaned") /\ d.life = "cleaned"
                           /\ d.expired = post[p].expired
  BY <1>1, GonePost
<1>7. /\ Stored(p) /\ post' = [post EXCEPT ![p] = d]
      /\ Mark(req, {}, {p}, {})
      /\ job' = [job EXCEPT ![j] = y]
      /\ user' = user /\ reaction' = reaction /\ image' = image
  BY <1>2, <1>4, <1>5, <1>6 DEF RemoveExpired, JobGoto
<1>8. /\ post' \in [Posts -> PostDoc]
      /\ Writes({p}, {})
      /\ \A q \in Posts : Drawn(q) => post'[q].life = "drawn"
      /\ \A q \in Posts : PostGood(q)'
      /\ Ended(p)'
  BY <1>3, <1>5, <1>6, <1>7, RemovePost
<1>9. post'[p].expired
  BY <1>1, <1>3, <1>5, <1>6, <1>7 DEF TypeOK
<1>10. y.pc # "idle" =>
         /\ y.p \in Posts /\ Created(y.p)' /\ post'[y.p].expired
         /\ y.pc = "removed" => image'[y.p] = "none"
  BY <1>4, <1>5, <1>8, <1>9 DEF Ended
<1>11. user' \in [Users -> UserDoc] /\ image' \in [Posts -> Amount]
  BY <1>1, <1>7 DEF TypeOK
<1> QED
  BY <1>7, <1>8, <1>10, <1>11, JobWrites

LEMMA NotRemovedStep ==
  ASSUME PostInv, NEW j \in Jobs, NotRemoved(j) PROVE PostInv'
<1>1. PICK k \in Job : k = job[j]
  BY DEF PostInv, TypeOK
<1>2. PICK y \in Job : y = [k EXCEPT !.pc = "failing"] /\ y.p = k.p /\ y.pc = "failing"
  BY JobGotoRecord
<1>3. /\ job' = [job EXCEPT ![j] = y] /\ job[j].pc # "idle"
      /\ UNCHANGED <<user, post, reaction, image, req>>
  BY <1>1, <1>2 DEF NotRemoved, JobGoto
<1> QED
  BY <1>1, <1>2, <1>3, JobOnly

LEMMA DecrementAuthorStep ==
  ASSUME PostInv, NEW j \in Jobs, DecrementAuthor(j) PROVE PostInv'
<1>1. /\ TypeOK /\ JobOK(j)
      /\ \A q \in Posts : PostGood(q)
  BY Parts
<1>2. PICK u \in Users : u = AuthorOf[job[j].p]
  <2>1. job[j].pc # "idle"
    BY DEF DecrementAuthor
  <2>2. job[j].p \in Posts
    BY <1>1, <2>1 DEF JobOK
  <2> QED
    BY <2>2, PostsAssumption
<1>3. /\ job' = [job EXCEPT ![j] = IdleJob]
      /\ UNCHANGED <<post, reaction, image>>
      /\ \/ /\ user' = [user EXCEPT ![u].postsCount = Dec(@)]
            /\ Mark(req, {u}, {}, {})
         \/ user' = user /\ req' = req
  BY <1>2 DEF DecrementAuthor, JobDone
<1>4. Writes({}, {})
  BY <1>3 DEF Writes, Created, Ended, Stored
<1>5. \A q \in Posts : PostGood(q)'
  BY <1>1, <1>3 DEF PostGood, PostOK, Visible, Stored, Created, Likers
<1>6. /\ post' \in [Posts -> PostDoc] /\ reaction' = reaction
      /\ image' \in [Posts -> Amount] /\ image' = image
  BY <1>1, <1>3 DEF TypeOK
<1>7. \A p \in Posts : Drawn(p) => post'[p].life = "drawn"
  BY <1>3 DEF Drawn
<1>8. CASE user' = [user EXCEPT ![u].postsCount = Dec(@)] /\ Mark(req, {u}, {}, {})
  <2>1. user' \in [Users -> UserDoc]
    BY <1>1, <1>8, DecrementType
  <2> QED
    BY <1>3, <1>4, <1>5, <1>6, <1>7, <1>8, <2>1, IdleJobType, JobWrites
<1>9. CASE user' = user /\ req' = req
  <2>1. UNCHANGED <<user, post, reaction, image, req>>
    BY <1>3, <1>9
  <2> QED
    BY <1>3, <2>1, IdleJobType, JobOnly
<1> QED
  BY <1>3, <1>8, <1>9

LEMMA MarkFailedStep ==
  ASSUME PostInv, NEW j \in Jobs, MarkFailed(j) PROVE PostInv'
<1>1. /\ TypeOK /\ JobOK(j)
      /\ \A q \in Posts : PostGood(q)
  BY Parts
<1>2. PICK p \in Posts : p = job[j].p
  <2>1. job[j].pc # "idle"
    BY DEF MarkFailed
  <2> QED
    BY <1>1, <2>1 DEF JobOK
<1>3. PICK c \in PostDoc : c = post[p]
  BY <1>1 DEF TypeOK
<1>4. PICK d \in PostDoc : d = [c EXCEPT !.cleanup = "failed", !.locked = FALSE]
  BY DEF PostDoc
<1>5. d.life = c.life /\ d.likes = c.likes /\ d.expired = c.expired
  BY <1>4 DEF PostDoc
<1>6. /\ job' = [job EXCEPT ![j] = IdleJob]
      /\ Mark(req, {}, {p}, {}) /\ UNCHANGED <<user, reaction, image>>
      /\ post' = IF Stored(p) THEN [post EXCEPT ![p] = d] ELSE post
  BY <1>2, <1>3, <1>4 DEF MarkFailed, JobDone
<1>7. CASE Stored(p)
  <2>1. post' = [post EXCEPT ![p] = d]
    BY <1>6, <1>7
  <2> QED
    BY <1>3, <1>5, <1>6, <1>7, <2>1, IdleJobType, JobWritesPost
<1>8. CASE ~Stored(p)
  <2>1. post' = post
    BY <1>6, <1>8
  <2>2. Writes({p}, {})
    BY <1>6, <2>1 DEF Writes, Created, Ended, Stored
  <2>3. \A q \in Posts : PostGood(q)'
    BY <1>1, <1>6, <2>1 DEF PostGood, PostOK, Visible, Stored, Created, Likers
  <2>4. /\ user' \in [Users -> UserDoc] /\ post' \in [Posts -> PostDoc]
        /\ reaction' = reaction /\ image' \in [Posts -> Amount] /\ image' = image
    BY <1>1, <1>6, <2>1 DEF TypeOK
  <2>5. \A q \in Posts : Drawn(q) => post'[q].life = "drawn"
    BY <2>1 DEF Drawn
  <2> QED
    BY <1>6, <2>2, <2>3, <2>4, <2>5, IdleJobType, JobWrites
<1> QED
  BY <1>7, <1>8

LEMMA CrashStep ==
  ASSUME PostInv, NEW j \in Jobs, Crash(j) PROVE PostInv'
  BY IdleJobType, JobOnly DEF Crash, JobDone

-----------------------------------------------------------------------------
(* Time                                                                    *)

(* A post whose flags about time change, and nothing else.                 *)
LEMMA TimeStep ==
  ASSUME PostInv, NEW p \in Posts, NEW d \in PostDoc,
         post' = [post EXCEPT ![p] = d], d.life = post[p].life,
         d.likes = post[p].likes, post[p].expired => d.expired,
         Created(p) \/ d.expired = post[p].expired,
         UNCHANGED <<user, reaction, image, req, job>>
  PROVE  PostInv'
<1>1. /\ TypeOK /\ DrawnOnce
      /\ \A q \in Requests : RequestOK(req[q])
      /\ \A q \in Posts : PostGood(q)
      /\ \A j \in Jobs : JobOK(j)
  BY Parts
<1>2. user' = user /\ reaction' = reaction /\ image' = image /\ req' = req /\ job' = job
  OBVIOUS
<1>3. /\ post' \in [Posts -> PostDoc]
      /\ \A q \in Posts : post'[q] = IF q = p THEN d ELSE post[q]
      /\ Writes({}, {})
  BY <1>1, <1>2, OnePost DEF Created, Ended, Stored
<1>4. TypeOK'
  BY <1>1, <1>2, <1>3 DEF TypeOK
<1>5. \A q \in Posts : PostGood(q)'
  <2> TAKE q \in Posts
  <2>1. /\ Likers(q)' = Likers(q) /\ image'[q] = image[q]
        /\ post'[q].life = post[q].life /\ post'[q].likes = post[q].likes
        /\ post[q].expired => post'[q].expired
        /\ Created(q) \/ post'[q].expired = post[q].expired
    BY <1>2, <1>3 DEF Likers
  <2> QED
    BY <1>1, <2>1, PostKept
<1>6. OnlyMarked(Requests, {}, {}, {})
  <2>1. \A q \in Requests : req[q] \in Request
    BY <1>1 DEF TypeOK
  <2>2. \A q \in Requests : req'[q] = Marked(req[q], {}, {}, {})
    BY <1>2, <2>1, MarkedNothing
  <2>3. \A q \in Posts : post'[q].life = post[q].life
    BY <1>3
  <2> QED
    BY <1>1, <1>2, <2>2, <2>3 DEF OnlyMarked, RequestOK, Drawn
<1>7. DrawnOnce'
  BY <1>1, <1>2 DEF DrawnOnce
<1>8. /\ \A q \in Requests \ Requests : RequestOK(req[q])'
      /\ \A j \in Jobs \ Jobs : JobOK(j)'
      /\ \A j \in Jobs : job'[j] = job[j]
      /\ \A q \in Posts : Created(q) /\ image[q] = "none" => image'[q] = "none"
  BY <1>2
<1> QED
  BY <1>3, <1>4, <1>5, <1>6, <1>7, <1>8, WritingStep

LEMMA ExpireStep ==
  ASSUME PostInv, NEW p \in Posts, Expire(p) PROVE PostInv'
<1>1. PICK c \in PostDoc : c = post[p]
  BY DEF PostInv, TypeOK
<1>2. PICK d \in PostDoc : d = [c EXCEPT !.expired = TRUE]
  BY DEF PostDoc
<1>3. d.life = c.life /\ d.likes = c.likes /\ d.expired
  BY <1>2 DEF PostDoc
<1>4. post' = [post EXCEPT ![p] = d] /\ Created(p)
        /\ UNCHANGED <<user, reaction, image, req, job>>
  BY <1>1, <1>2 DEF Expire, Created
<1> QED
  BY <1>1, <1>3, <1>4, TimeStep

LEMMA LockRunsOutStep ==
  ASSUME PostInv, NEW p \in Posts, LockRunsOut(p) PROVE PostInv'
<1>1. PICK c \in PostDoc : c = post[p]
  BY DEF PostInv, TypeOK
<1>2. PICK d \in PostDoc : d = [c EXCEPT !.locked = FALSE]
  BY DEF PostDoc
<1>3. d.life = c.life /\ d.likes = c.likes /\ d.expired = c.expired
  BY <1>2 DEF PostDoc
<1>4. post' = [post EXCEPT ![p] = d]
        /\ UNCHANGED <<user, reaction, image, req, job>>
  BY <1>1, <1>2 DEF LockRunsOut
<1> QED
  BY <1>1, <1>3, <1>4, TimeStep

-----------------------------------------------------------------------------
(* The invariant                                                           *)

LEMMA InitOK == Init => PostInv
<1> SUFFICES ASSUME Init PROVE PostInv
  OBVIOUS
<1>1. NewPost \in PostDoc /\ NewPost.life = "unused" /\ NewPost.likes = 0
        /\ ~NewPost.expired
  BY MaxAttemptsAssumption DEF NewPost, PostDoc
<1>2. TypeOK
  BY <1>1, IdleOK, IdleJobType DEF Init, TypeOK, UserDoc, Amount
<1>3. \A p \in Posts : PostGood(p)
  BY <1>1 DEF Init, PostGood, PostOK, Visible, Stored, Created, Likers
<1>4. \A r \in Requests : RequestOK(req[r])
  BY IdleOK DEF Init
<1>5. \A j \in Jobs : JobOK(j)
  BY IdleJobType DEF Init, JobOK
<1>6. DrawnOnce
  BY DEF Init, DrawnOnce, IdleRequest
<1> QED
  BY <1>2, <1>3, <1>4, <1>5, <1>6, Parts

LEMMA StutterOK ==
  ASSUME PostInv, UNCHANGED vars PROVE PostInv'
<1>1. user' = user /\ post' = post /\ reaction' = reaction /\ image' = image
        /\ req' = req /\ job' = job
  BY DEF vars
<1>2. /\ TypeOK /\ DrawnOnce
      /\ \A q \in Requests : RequestOK(req[q])
      /\ \A q \in Posts : PostGood(q)
      /\ \A j \in Jobs : JobOK(j)
  BY Parts
<1>3. TypeOK'
  BY <1>1, <1>2 DEF TypeOK
<1>4. Writes({}, {})
  BY <1>1 DEF Writes, Created, Ended, Stored
<1>5. OnlyMarked(Requests, {}, {}, {})
  <2>1. \A q \in Requests : req'[q] = Marked(req[q], {}, {}, {})
    BY <1>1, <1>2, MarkedNothing DEF TypeOK
  <2> QED
    BY <1>1, <1>2, <2>1 DEF OnlyMarked, RequestOK, Drawn
<1>6. \A p \in Posts : PostGood(p)'
  BY <1>1, <1>2 DEF PostGood, PostOK, Visible, Stored, Created, Likers
<1>7. DrawnOnce'
  BY <1>1, <1>2 DEF DrawnOnce
<1>8. /\ \A q \in Requests \ Requests : RequestOK(req[q])'
      /\ \A j \in Jobs \ Jobs : JobOK(j)'
      /\ \A j \in Jobs : job'[j] = job[j]
      /\ \A q \in Posts : Created(q) /\ image[q] = "none" => image'[q] = "none"
  BY <1>1
<1> QED
  BY <1>3, <1>4, <1>5, <1>6, <1>7, <1>8, WritingStep

(* Every step keeps the invariant.                                         *)
LEMMA StepOK == PostInv /\ [Next]_vars => PostInv'
<1> SUFFICES ASSUME PostInv, [Next]_vars PROVE PostInv'
  OBVIOUS
<1>1. ASSUME NEW r \in Requests, Start(r) PROVE PostInv'
  <2>1. ASSUME NEW p \in Posts, StartCreate(r, p) PROVE PostInv'
    BY <2>1, StartCreateStep
  <2>2. ASSUME NEW p \in Posts, StartDelete(r, p) PROVE PostInv'
    <3>1. PICK u \in Users : u = AuthorOf[p]
      BY PostsAssumption
    <3> QED
      BY <2>2, <3>1, StartStep DEF StartDelete
  <2>3. ASSUME NEW op \in {"react", "remove"}, NEW u \in Users, NEW p \in Posts,
               StartReaction(r, op, u, p)
        PROVE  PostInv'
    BY <2>3, StartStep DEF StartReaction, Visible
  <2>4. ASSUME NEW u \in Users, StartDeleteAccount(r, u) PROVE PostInv'
    BY <2>4, StartDeleteAccountStep
  <2> QED
    BY <1>1, <2>1, <2>2, <2>3, <2>4 DEF Start
<1>2. ASSUME NEW r \in Requests, CreateStep(r) PROVE PostInv'
  <2>1. FinishCreate(r) => PostInv'
    BY EndStep DEF FinishCreate
  <2> QED
    BY <1>2, <2>1, InsertStep, NotInsertedStep, CountPostStep, FailCreateStep,
       CompensateStep DEF CreateStep
<1>3. ASSUME NEW r \in Requests, DeleteStep(r) PROVE PostInv'
  BY <1>3, DeletePostStep, DecrementPostCountStep, DeleteItsImagesStep DEF DeleteStep
<1>4. ASSUME NEW r \in Requests, ReactionStep(r) PROVE PostInv'
  BY <1>4, BeginReactionStep, AddReactionStep, RemoveReactionStep, ConflictStep
  DEF ReactionStep
<1>5. ASSUME NEW r \in Requests, AccountStep(r) PROVE PostInv'
  BY <1>5, DeleteSnapshotStep, DeleteCommitStep, PurgeImagesStep DEF AccountStep
<1>6. ASSUME NEW r \in Requests, Abandon(r) PROVE PostInv'
  BY <1>6, EndStep DEF Abandon
<1>7. ASSUME NEW j \in Jobs, JobStep(j) PROVE PostInv'
  <2>1. ASSUME NEW p \in Posts, Claim(j, p) PROVE PostInv'
    BY <2>1, ClaimStep
  <2> QED
    BY <1>7, <2>1, DeleteImagesStep, FailToDeleteImagesStep, RemoveExpiredStep,
       NotRemovedStep, DecrementAuthorStep, MarkFailedStep DEF JobStep
<1>8. ASSUME NEW j \in Jobs, Crash(j) PROVE PostInv'
  BY <1>8, CrashStep
<1>9. ASSUME NEW p \in Posts, Expire(p) \/ LockRunsOut(p) PROVE PostInv'
  BY <1>9, ExpireStep, LockRunsOutStep
<1>10. CASE UNCHANGED vars
  BY <1>10, StutterOK
<1>11. CASE Next
  BY <1>1, <1>2, <1>3, <1>4, <1>5, <1>6, <1>7, <1>8, <1>9, <1>11 DEF Next
<1> QED
  BY <1>10, <1>11

(* The documents keep their types, and the invariant below them holds,     *)
(* through any number of overlapping requests, account deletions and       *)
(* clean-ups.                                                              *)
THEOREM PostEngagementCorrect == Spec => []PostInv
<1> QED
  BY InitOK, StepOK, PTL DEF Spec

(* likeCount is the number of the reactions on every post that is shown    *)
(* (reaction.service.ts:112).                                              *)
THEOREM LikesAlwaysMatch == Spec => []LikesMatch
<1>1. PostInv => LikesMatch
  BY DEF PostInv
<1> QED
  BY <1>1, PostEngagementCorrect, PTL

(* A deleted account leaves no reaction on its posts                       *)
(* (users.service.ts:991).                                                 *)
THEOREM PurgedPostsHaveNoReactions == Spec => []NoReactionsOnPurged
<1>1. PostInv => NoReactionsOnPurged
  BY DEF PostInv
<1> QED
  BY <1>1, PostEngagementCorrect, PTL

(* A post that can be seen has its images, and the clean-up removes no     *)
(* post with an image left (posts.service.ts:222,                          *)
(* expired-post-cleanup.service.ts:124).                                   *)
THEOREM ImagesCorrect == Spec => []ImagesFollowPosts
<1>1. PostInv => ImagesFollowPosts
  BY DEF PostInv, ImagesFollowPosts
<1> QED
  BY <1>1, PostEngagementCorrect, PTL

-----------------------------------------------------------------------------
(* To readers every step is one step of AtomicPosts, or none               *)

(* A step leaves what readers see of post q as it was.                     *)
Same(q) ==
  /\ Visible(q)' <=> Visible(q)
  /\ Created(q)' <=> Created(q)
  /\ Visible(q) => /\ Likers(q)' = Likers(q)
                   /\ post'[q].likes = post[q].likes

(* The number beside a post follows from who likes it.                     *)
LEMMA NumberFollows ==
  ASSUME PostInv, PostInv', NEW q \in Posts, Visible(q), Visible(q)',
         Likers(q)' = Likers(q)
  PROVE  post'[q].likes = post[q].likes
<1>1. post[q].likes = Cardinality(Likers(q))
  BY DEF PostInv, LikesMatch
<1>2. post'[q].likes = Cardinality(Likers(q)')
  BY DEF PostInv, LikesMatch
<1> QED
  BY <1>1, <1>2

LEMMA SameAs ==
  ASSUME PostInv, PostInv', NEW q \in Posts,
         Visible(q)' <=> Visible(q), Created(q)' <=> Created(q),
         Visible(q) => Likers(q)' = Likers(q)
  PROVE  Same(q)
  BY NumberFollows DEF Same

(* A post whose document and reactions are left alone.                     *)
LEMMA SameDocument ==
  ASSUME NEW q \in Posts, post'[q] = post[q], Likers(q)' = Likers(q)
  PROVE  Same(q)
  BY DEF Same, Visible, Stored, Created

LEMMA NothingSeen ==
  ASSUME \A q \in Posts : Same(q)
  PROVE  UNCHANGED Atomic!vars
<1>1. {p \in Posts : Visible(p)}' = {p \in Posts : Visible(p)}
  BY DEF Same
<1>2. {p \in Posts : post[p].life \notin {"unused", "drawn"} /\ ~Visible(p)}'
        = {p \in Posts : post[p].life \notin {"unused", "drawn"} /\ ~Visible(p)}
  BY DEF Same, Created
<1>3. [p \in Posts |-> IF Visible(p) THEN Likers(p) ELSE {}]'
        = [p \in Posts |-> IF Visible(p) THEN Likers(p) ELSE {}]
  BY DEF Same
<1>4. [p \in Posts |-> IF Visible(p) THEN post[p].likes ELSE 0]'
        = [p \in Posts |-> IF Visible(p) THEN post[p].likes ELSE 0]
  BY DEF Same
<1> QED
  BY <1>1, <1>2, <1>3, <1>4 DEF Atomic!vars

(* A post is created.                                                      *)
LEMMA PublishSeen ==
  ASSUME NEW p \in Posts, ~Created(p), Visible(p)', Created(p)',
         Likers(p)' = {}, post'[p].likes = 0,
         \A q \in Posts \ {p} : Same(q)
  PROVE  Atomic!Publish(p)
<1>1. ~Visible(p)
  BY DEF Visible, Stored, Created
<1>2. {q \in Posts : Visible(q)}' = {q \in Posts : Visible(q)} \cup {p}
  BY DEF Same
<1>3. {q \in Posts : post[q].life \notin {"unused", "drawn"} /\ ~Visible(q)}'
        = {q \in Posts : post[q].life \notin {"unused", "drawn"} /\ ~Visible(q)}
  BY DEF Same, Created
<1>4. [q \in Posts |-> IF Visible(q) THEN Likers(q) ELSE {}]'
        = [q \in Posts |-> IF Visible(q) THEN Likers(q) ELSE {}]
  BY <1>1 DEF Same
<1>5. [q \in Posts |-> IF Visible(q) THEN post[q].likes ELSE 0]'
        = [q \in Posts |-> IF Visible(q) THEN post[q].likes ELSE 0]
  BY <1>1 DEF Same
<1> QED
  BY <1>1, <1>2, <1>3, <1>4, <1>5 DEF Atomic!Publish, Created

(* The likes of qs by u are taken back, and the posts ps are gone.         *)
LEMMA TakeBackSeen ==
  ASSUME NEW ps \in SUBSET Posts, NEW qs \in SUBSET Posts, NEW u \in Users,
         \A p \in ps : Visible(p) /\ ~Visible(p)' /\ Created(p)',
         \A q \in qs : /\ q \notin ps
                       /\ Visible(q) /\ Visible(q)' /\ Created(q)'
                       /\ u \in Likers(q) /\ Likers(q)' = Likers(q) \ {u}
                       /\ post'[q].likes = post[q].likes - 1,
         \A q \in Posts \ (ps \cup qs) : Same(q)
  PROVE  Atomic!TakeBack(ps, u, qs)
<1>1. /\ \A p \in Posts : Visible(p) => Created(p)
      /\ (\A p \in Posts : Visible(p) => Created(p))'
  BY DEF Visible, Stored, Created
<1>2. {q \in Posts : Visible(q)}' = {q \in Posts : Visible(q)} \ ps
  BY DEF Same
<1>3. {q \in Posts : post[q].life \notin {"unused", "drawn"} /\ ~Visible(q)}'
        = {q \in Posts : post[q].life \notin {"unused", "drawn"} /\ ~Visible(q)} \cup ps
  <2>1. {q \in Posts : Created(q) /\ ~Visible(q)}'
          = {q \in Posts : Created(q) /\ ~Visible(q)} \cup ps
    BY <1>1 DEF Same
  <2> QED
    BY <2>1 DEF Created
<1> DEFINE L == [q \in Posts |-> IF Visible(q) THEN Likers(q) ELSE {}]
           C == [q \in Posts |-> IF Visible(q) THEN post[q].likes ELSE 0]
<1>4. L' = [q \in Posts |-> IF q \in ps THEN {}
                            ELSE IF q \in qs THEN L[q] \ {u} ELSE L[q]]
  <2>1. \A q \in Posts : (IF Visible(q)' THEN Likers(q)' ELSE {})
          = IF q \in ps THEN {} ELSE IF q \in qs THEN L[q] \ {u} ELSE L[q]
    BY DEF Same
  <2> QED
    BY <2>1
<1>5. C' = [q \in Posts |-> IF q \in ps THEN 0
                            ELSE IF q \in qs THEN C[q] - 1 ELSE C[q]]
  <2>1. \A q \in Posts : (IF Visible(q)' THEN post'[q].likes ELSE 0)
          = IF q \in ps THEN 0 ELSE IF q \in qs THEN C[q] - 1 ELSE C[q]
    BY DEF Same
  <2> QED
    BY <2>1
<1>6. /\ ps \subseteq {q \in Posts : Visible(q)}
      /\ qs \subseteq {q \in {q \in Posts : Visible(q)} \ ps : u \in L[q]}
  OBVIOUS
<1> QED
  BY <1>2, <1>3, <1>4, <1>5, <1>6 DEF Atomic!TakeBack

(* A post that may have been visible is gone, or has expired.              *)
LEMMA WithdrawSeen ==
  ASSUME NEW p \in Posts, ~Visible(p)', Created(p), Created(p)',
         \A q \in Posts \ {p} : Same(q)
  PROVE  Atomic!Withdraw(p) \/ UNCHANGED Atomic!vars
<1>1. CASE Visible(p)
  <2>1. PICK u \in Users : u = AuthorOf[p]
    BY PostsAssumption
  <2>2. Atomic!TakeBack({p}, u, {})
    BY <1>1, TakeBackSeen
  <2> QED
    BY <1>1, <2>2 DEF Atomic!Withdraw
<1>2. CASE ~Visible(p)
  BY <1>2, NothingSeen DEF Same
<1> QED
  BY <1>1, <1>2

(* A reaction comes, or goes.                                              *)
LEMMA LikeSeen ==
  ASSUME PostInv, PostInv', NEW u \in Users, NEW p \in Posts,
         Visible(p), Visible(p)', Created(p)', u \notin Likers(p),
         Likers(p)' = Likers(p) \cup {u},
         \A q \in Posts \ {p} : Same(q)
  PROVE  Atomic!Like(u, p)
<1>1. Cardinality(Likers(p) \cup {u}) = Cardinality(Likers(p)) + 1
  BY LikersFinite, FS_AddElement
<1>2. post'[p].likes = post[p].likes + 1
  <2>1. post[p].likes = Cardinality(Likers(p))
    BY DEF PostInv, LikesMatch
  <2>2. post'[p].likes = Cardinality(Likers(p)')
    BY DEF PostInv, LikesMatch
  <2> QED
    BY <1>1, <2>1, <2>2
<1>3. {q \in Posts : Visible(q)}' = {q \in Posts : Visible(q)}
  BY DEF Same
<1>4. {q \in Posts : post[q].life \notin {"unused", "drawn"} /\ ~Visible(q)}'
        = {q \in Posts : post[q].life \notin {"unused", "drawn"} /\ ~Visible(q)}
  BY DEF Same, Created
<1> DEFINE L == [q \in Posts |-> IF Visible(q) THEN Likers(q) ELSE {}]
           C == [q \in Posts |-> IF Visible(q) THEN post[q].likes ELSE 0]
<1>5. L' = [L EXCEPT ![p] = @ \cup {u}]
  BY DEF Same
<1>6. C' = [C EXCEPT ![p] = @ + 1]
  BY <1>2 DEF Same
<1>7. p \in {q \in Posts : Visible(q)} /\ u \notin L[p]
  OBVIOUS
<1> QED
  BY <1>3, <1>4, <1>5, <1>6, <1>7 DEF Atomic!Like

(* One liker less is one less beside the post.                             *)
LEMMA NumberLower ==
  ASSUME PostInv, PostInv', NEW u \in Users, NEW p \in Posts,
         Visible(p), Visible(p)', u \in Likers(p), Likers(p)' = Likers(p) \ {u}
  PROVE  post'[p].likes = post[p].likes - 1
<1>1. Cardinality(Likers(p) \ {u}) = Cardinality(Likers(p)) - 1
  BY LikersFinite, FS_RemoveElement
<1>2. post[p].likes = Cardinality(Likers(p))
  BY DEF PostInv, LikesMatch
<1>3. post'[p].likes = Cardinality(Likers(p)')
  BY DEF PostInv, LikesMatch
<1> QED
  BY <1>1, <1>2, <1>3

LEMMA UnlikeSeen ==
  ASSUME PostInv, PostInv', NEW u \in Users, NEW p \in Posts,
         Visible(p), Visible(p)', Created(p)', u \in Likers(p),
         Likers(p)' = Likers(p) \ {u},
         \A q \in Posts \ {p} : Same(q)
  PROVE  Atomic!Unlike(u, p)
<1>1. post'[p].likes = post[p].likes - 1
  BY NumberLower
<1>2. {q \in Posts : Visible(q)}' = {q \in Posts : Visible(q)}
  BY DEF Same
<1>3. {q \in Posts : post[q].life \notin {"unused", "drawn"} /\ ~Visible(q)}'
        = {q \in Posts : post[q].life \notin {"unused", "drawn"} /\ ~Visible(q)}
  BY DEF Same, Created
<1> DEFINE L == [q \in Posts |-> IF Visible(q) THEN Likers(q) ELSE {}]
           C == [q \in Posts |-> IF Visible(q) THEN post[q].likes ELSE 0]
<1>4. L' = [L EXCEPT ![p] = @ \ {u}]
  BY DEF Same
<1>5. C' = [C EXCEPT ![p] = @ - 1]
  BY <1>1 DEF Same
<1>6. p \in {q \in Posts : Visible(q)} /\ u \in L[p]
  OBVIOUS
<1> QED
  BY <1>2, <1>3, <1>4, <1>5, <1>6 DEF Atomic!Unlike

-----------------------------------------------------------------------------
(* The actions                                                             *)

(* A step that writes no reaction, and makes no post visible or removes it.*)
LEMMA QuietPosts ==
  ASSUME PostInv, PostInv', reaction' = reaction,
         \A q \in Posts : (Visible(q)' <=> Visible(q)) /\ (Created(q)' <=> Created(q))
  PROVE  UNCHANGED Atomic!vars
<1>1. \A q \in Posts : Likers(q)' = Likers(q)
  BY DEF Likers
<1> QED
  BY <1>1, SameAs, NothingSeen

LEMMA InsertSeen ==
  ASSUME PostInv, PostInv', NEW r \in Requests, Insert(r)
  PROVE  \E p \in Posts : Atomic!Publish(p)
<1>1. /\ TypeOK /\ \A q \in Posts : PostGood(q)
      /\ RequestOK(req[r])
  BY Parts
<1>2. PICK p \in Posts : p = req[r].p /\ Drawn(p)
  BY <1>1 DEF Insert, RequestOK
<1>3. PICK d : d = [post[p] EXCEPT !.life = "stored"]
  OBVIOUS
<1>4. /\ \A q \in Posts : post'[q] = IF q = p THEN d ELSE post[q]
      /\ reaction' = reaction
  BY <1>1, <1>2, <1>3 DEF Insert, TypeOK
<1>5. d.life = "stored" /\ d.expired = post[p].expired /\ d.likes = post[p].likes
  BY <1>1, <1>3 DEF TypeOK, PostDoc
<1>6. \A q \in Posts : Likers(q)' = Likers(q)
  BY <1>4 DEF Likers
<1>7. ~Created(p) /\ Likers(p) = {} /\ post[p].likes = 0 /\ ~post[p].expired
  BY <1>1, <1>2 DEF PostGood, PostOK, Drawn, Created
<1>8. Visible(p)' /\ Created(p)' /\ Likers(p)' = {} /\ post'[p].likes = 0
  BY <1>4, <1>5, <1>6, <1>7 DEF Visible, Stored, Created
<1>9. \A q \in Posts \ {p} : Same(q)
  BY <1>4, <1>6, SameDocument
<1> QED
  BY <1>7, <1>8, <1>9, PublishSeen

(* A stored post that is removed by its author or its creation, or has     *)
(* expired.                                                                *)
LEMMA RemovalSeen ==
  ASSUME PostInv, PostInv', NEW p \in Posts, NEW d, reaction' = reaction,
         post' = [post EXCEPT ![p] = d], Created(p),
         d.life \notin {"unused", "drawn"}, d.life # "stored" \/ d.expired
  PROVE  Atomic!Withdraw(p) \/ UNCHANGED Atomic!vars
<1>1. TypeOK
  BY Parts
<1>2. \A q \in Posts : post'[q] = IF q = p THEN d ELSE post[q]
  BY <1>1 DEF TypeOK
<1>3. \A q \in Posts \ {p} : Same(q)
  BY <1>2, SameDocument DEF Likers
<1>4. ~Visible(p)' /\ Created(p)'
  BY <1>2 DEF Visible, Stored, Created
<1> QED
  BY <1>3, <1>4, WithdrawSeen

LEMMA CompensateSeen ==
  ASSUME PostInv, PostInv', NEW r \in Requests, Compensate(r) \/ DeletePost(r)
  PROVE  \E p \in Posts : Atomic!Withdraw(p) \/ UNCHANGED Atomic!vars
<1>1. TypeOK /\ RequestOK(req[r])
  BY Parts
<1>2. PICK p \in Posts : p = req[r].p
  BY <1>1 DEF Compensate, DeletePost, RequestOK
<1>3. CASE reaction' = reaction /\ post' = post
  <2>1. \A q \in Posts : Likers(q)' = Likers(q)
    BY <1>3 DEF Likers
  <2> QED
    BY <1>3, <2>1, SameDocument, NothingSeen
<1>4. ASSUME NEW life \in {"deleted", "withdrawn"}, Stored(p), reaction' = reaction,
             post' = [post EXCEPT ![p] = Gone(p, life)]
      PROVE  Atomic!Withdraw(p) \/ UNCHANGED Atomic!vars
  <2>1. PICK d : d = Gone(p, life) /\ d.life = life
    BY <1>1, GonePost
  <2> QED
    BY <1>4, <2>1, RemovalSeen DEF Stored, Created
<1> QED
  BY <1>2, <1>3, <1>4 DEF Compensate, DeletePost

LEMMA ExpireSeen ==
  ASSUME PostInv, PostInv', NEW p \in Posts, Expire(p)
  PROVE  Atomic!Withdraw(p) \/ UNCHANGED Atomic!vars
<1>1. TypeOK
  BY Parts
<1>2. PICK d : d = [post[p] EXCEPT !.expired = TRUE]
  OBVIOUS
<1>3. d.life = post[p].life /\ d.expired
  BY <1>1, <1>2 DEF TypeOK, PostDoc
<1> QED
  BY <1>2, <1>3, RemovalSeen DEF Expire, Created

(* The post is written without its place in its life: a counter, a claim,  *)
(* a lock, the draw of its id.                                             *)
LEMMA WriteSeen ==
  ASSUME PostInv, PostInv', NEW p \in Posts, NEW d, reaction' = reaction,
         post' = [post EXCEPT ![p] = d], d.expired = post[p].expired,
         \/ d.life = post[p].life
         \/ post[p].life = "unused" /\ d.life = "drawn"
  PROVE  UNCHANGED Atomic!vars
<1>1. TypeOK
  BY Parts
<1>2. \A q \in Posts : post'[q] = IF q = p THEN d ELSE post[q]
  BY <1>1 DEF TypeOK
<1>3. \A q \in Posts : (Visible(q)' <=> Visible(q)) /\ (Created(q)' <=> Created(q))
  BY <1>2 DEF Visible, Stored, Created
<1> QED
  BY <1>3, QuietPosts

LEMMA QuietRequest ==
  ASSUME PostInv, PostInv', NEW r \in Requests,
         CountPost(r) \/ \E p \in Posts : StartCreate(r, p)
  PROVE  UNCHANGED Atomic!vars
<1>1. TypeOK /\ RequestOK(req[r])
  BY Parts
<1>2. \A p \in Posts : post[p] \in PostDoc
  BY <1>1 DEF TypeOK
<1>3. CASE CountPost(r)
  <2>1. PICK p \in Posts : p = req[r].p
    BY <1>1, <1>3 DEF CountPost, RequestOK
  <2>2. PICK d : d = [post[p] EXCEPT !.counted = TRUE]
    OBVIOUS
  <2>3. d.life = post[p].life /\ d.expired = post[p].expired
    BY <1>2, <2>2 DEF PostDoc
  <2> QED
    BY <1>3, <2>1, <2>2, <2>3, WriteSeen DEF CountPost
<1>4. ASSUME NEW p \in Posts, StartCreate(r, p)
      PROVE  UNCHANGED Atomic!vars
  <2>1. PICK d : d = [post[p] EXCEPT !.life = "drawn"]
    OBVIOUS
  <2>2. d.life = "drawn" /\ d.expired = post[p].expired
    BY <1>2, <2>1 DEF PostDoc
  <2> QED
    BY <1>4, <2>1, <2>2, WriteSeen DEF StartCreate
<1> QED
  BY <1>3, <1>4

LEMMA QuietJob ==
  ASSUME PostInv, PostInv', NEW j \in Jobs,
         MarkFailed(j) \/ RemoveExpired(j) \/ \E p \in Posts : Claim(j, p)
  PROVE  UNCHANGED Atomic!vars
<1>1. TypeOK /\ JobOK(j)
  BY Parts
<1>2. \A p \in Posts : post[p] \in PostDoc
  BY <1>1 DEF TypeOK
<1>3. CASE MarkFailed(j) \/ RemoveExpired(j)
  <2>1. PICK p \in Posts : p = job[j].p /\ Created(p) /\ post[p].expired
    BY <1>1, <1>3 DEF MarkFailed, RemoveExpired, JobOK
  <2>2. PICK d : d = [post[p] EXCEPT !.cleanup = "failed", !.locked = FALSE]
    OBVIOUS
  <2>3. d.life = post[p].life /\ d.expired = post[p].expired
    BY <1>2, <2>2 DEF PostDoc
  <2>4. CASE post' = post /\ reaction' = reaction
    BY <2>4, QuietPosts DEF Visible, Stored, Created
  <2>5. CASE post' = [post EXCEPT ![p] = d] /\ reaction' = reaction
    BY <2>3, <2>5, WriteSeen
  <2>6. CASE post' = [post EXCEPT ![p] = Gone(p, "cleaned")] /\ reaction' = reaction
    <3>1. PICK e : /\ e = Gone(p, "cleaned") /\ e.life = "cleaned"
                   /\ e.expired = post[p].expired
      BY <1>1, GonePost
    <3>2. \A q \in Posts : post'[q] = IF q = p THEN e ELSE post[q]
      BY <1>1, <2>6, <3>1 DEF TypeOK
    <3>3. \A q \in Posts : (Visible(q)' <=> Visible(q)) /\ (Created(q)' <=> Created(q))
      BY <2>1, <3>1, <3>2 DEF Visible, Stored, Created
    <3> QED
      BY <2>6, <3>3, QuietPosts
  <2> QED
    BY <1>3, <2>1, <2>2, <2>4, <2>5, <2>6 DEF MarkFailed, RemoveExpired
<1>4. ASSUME NEW p \in Posts, Claim(j, p)
      PROVE  UNCHANGED Atomic!vars
  <2>1. PICK c \in PostDoc : c = post[p]
    BY <1>2
  <2>2. PICK d : d = [c EXCEPT !.cleanup = "processing", !.locked = TRUE,
                               !.attempts = c.attempts + 1]
    OBVIOUS
  <2>3. d.life = post[p].life /\ d.expired = post[p].expired
    BY <2>1, <2>2 DEF PostDoc
  <2>4. post' = [post EXCEPT ![p] = d]
    BY <1>4, <2>1, <2>2 DEF Claim
  <2>5. reaction' = reaction
    BY <1>4 DEF Claim
  <2> QED
    BY <2>3, <2>4, <2>5, WriteSeen
<1> QED
  BY <1>3, <1>4

LEMMA LockSeen ==
  ASSUME PostInv, PostInv', NEW p \in Posts, LockRunsOut(p)
  PROVE  UNCHANGED Atomic!vars
<1>1. post[p] \in PostDoc
  BY Parts DEF TypeOK
<1>2. PICK d : d = [post[p] EXCEPT !.locked = FALSE]
  OBVIOUS
<1>3. d.life = post[p].life /\ d.expired = post[p].expired
  BY <1>1, <1>2 DEF PostDoc
<1> QED
  BY <1>2, <1>3, WriteSeen DEF LockRunsOut

LEMMA AddReactionSeen ==
  ASSUME PostInv, PostInv', NEW r \in Requests, AddReaction(r)
  PROVE  \E u \in Users, p \in Posts : Atomic!Like(u, p)
<1>1. TypeOK /\ RequestOK(req[r])
  BY Parts
<1>2. PICK x \in Request : x = req[r]
  BY <1>1 DEF TypeOK
<1>3. /\ x.pc = "txn" /\ x.op = "react" /\ x.seen = {}
      /\ ~Conflicting(x) /\ RequestOK(x) /\ ~post[x.p].expired
  BY <1>1, <1>2 DEF AddReaction
<1>4. x.p \in Posts /\ x.u \in Users /\ ReactionTxnOK(x)
  BY <1>3 DEF RequestOK, ReactionTxnOK
<1>5. PICK u \in Users, p \in Posts : u = x.u /\ p = x.p
  BY <1>4
<1>6. "reaction" \notin x.stale /\ "post" \notin x.stale
  BY <1>3 DEF Conflicting
<1>7. p \in PostsToWrite(x)
  BY <1>3, <1>5 DEF PostsToWrite
<1>8. <<u, p>> \notin reaction /\ Stored(p) /\ Visible(p)
  BY <1>3, <1>4, <1>5, <1>6, <1>7 DEF ReactionTxnOK, Visible
<1>9. PICK d : d = [post[p] EXCEPT !.likes = post[p].likes + 1]
  OBVIOUS
<1>10. d.life = post[p].life /\ d.expired = post[p].expired
  BY <1>1, <1>9 DEF TypeOK, PostDoc
<1>11. /\ reaction' = reaction \cup {<<u, p>>}
       /\ \A q \in Posts : post'[q] = IF q = p THEN d ELSE post[q]
  BY <1>1, <1>2, <1>5, <1>9 DEF AddReaction, TypeOK
<1>12. /\ u \notin Likers(p) /\ Likers(p)' = Likers(p) \cup {u}
       /\ \A q \in Posts \ {p} : Likers(q)' = Likers(q)
  BY <1>8, <1>11 DEF Likers
<1>13. Visible(p)' /\ Created(p)'
  BY <1>8, <1>10, <1>11 DEF Visible, Stored, Created
<1>14. \A q \in Posts \ {p} : Same(q)
  BY <1>11, <1>12, SameDocument
<1> QED
  BY <1>8, <1>12, <1>13, <1>14, LikeSeen

(* A reaction to a post that has expired meanwhile is removed unseen.      *)
LEMMA RemoveReactionSeen ==
  ASSUME PostInv, PostInv', NEW r \in Requests, RemoveReaction(r)
  PROVE  \/ \E u \in Users, p \in Posts : Atomic!Unlike(u, p)
         \/ UNCHANGED Atomic!vars
<1>1. TypeOK /\ RequestOK(req[r])
  BY Parts
<1>2. PICK x \in Request : x = req[r]
  BY <1>1 DEF TypeOK
<1>3. /\ x.pc = "txn" /\ x.op = "remove" /\ x.seen # {}
      /\ ~Conflicting(x) /\ RequestOK(x)
  BY <1>1, <1>2 DEF RemoveReaction
<1>4. x.p \in Posts /\ x.u \in Users /\ ReactionTxnOK(x)
  BY <1>3 DEF RequestOK, ReactionTxnOK
<1>5. PICK u \in Users, p \in Posts : u = x.u /\ p = x.p
  BY <1>4
<1>6. "reaction" \notin x.stale /\ ("post" \notin x.stale \/ post[p].expired)
  BY <1>3, <1>5 DEF Conflicting
<1>7. p \in PostsToWrite(x) /\ <<u, p>> \in reaction
  BY <1>3, <1>4, <1>5, <1>6 DEF PostsToWrite, ReactionTxnOK
<1>8. PICK d : d = [post[p] EXCEPT !.likes = Dec(post[p].likes)]
  OBVIOUS
<1>9. d.life = post[p].life /\ d.expired = post[p].expired
  BY <1>1, <1>8 DEF TypeOK, PostDoc
<1>10. /\ reaction' = reaction \ {<<u, p>>}
       /\ \A q \in Posts :
            post'[q] = IF q = p /\ ~post[p].expired THEN d ELSE post[q]
  BY <1>1, <1>2, <1>5, <1>8 DEF RemoveReaction, TypeOK
<1>11. /\ u \in Likers(p) /\ Likers(p)' = Likers(p) \ {u}
       /\ \A q \in Posts \ {p} : Likers(q)' = Likers(q)
  BY <1>7, <1>10 DEF Likers
<1>12. (Visible(p)' <=> Visible(p)) /\ (Created(p)' <=> Created(p))
  BY <1>9, <1>10 DEF Visible, Stored, Created
<1>13. \A q \in Posts \ {p} : Same(q)
  BY <1>10, <1>11, SameDocument
<1>14. CASE Visible(p)
  <2>1. Created(p)
    BY <1>14 DEF Visible, Stored, Created
  <2> QED
    BY <1>11, <1>12, <1>13, <1>14, <2>1, UnlikeSeen
<1>15. CASE ~Visible(p)
  <2>1. Same(p)
    BY <1>12, <1>15 DEF Same
  <2> QED
    BY <1>13, <2>1, NothingSeen
<1> QED
  BY <1>14, <1>15

(* An account leaves with its posts and its likes, in one step.            *)
LEMMA DeleteCommitSeen ==
  ASSUME PostInv, PostInv', NEW r \in Requests, DeleteCommit(r)
  PROVE  \E u \in Users : Atomic!Leave(u)
<1>1. TypeOK /\ RequestOK(req[r])
  BY Parts
<1>2. PICK x \in Request : x = req[r]
  BY <1>1 DEF TypeOK
<1>3. x.pc = "txn" /\ x.op = "account" /\ x.stale = {} /\ AccountTxnOK(x)
  BY <1>1, <1>2 DEF DeleteCommit, Conflicting, RequestOK
<1>4. PICK u \in Users, ps \in SUBSET Posts, s \in SUBSET (Users \X Posts) :
        u = x.u /\ ps = x.posts /\ s = x.seen
  BY <1>3 DEF AccountTxnOK, Request
<1>5. PICK mine \in SUBSET Posts : mine = {p \in Posts : <<u, p>> \in s}
  OBVIOUS
<1>6. /\ \A p \in ps : Created(p)
      /\ s \subseteq reaction
      /\ \A e \in s :
           /\ e[1] = u \/ AuthorOf[e[2]] = u
           /\ AuthorOf[e[2]] = u /\ e[2] \notin ps => ~Stored(e[2])
  BY <1>3, <1>4 DEF AccountTxnOK
<1>7. /\ reaction' = reaction \ s
      /\ \A p \in Posts :
           post'[p] = IF p \in ps THEN Gone(p, "purged")
                      ELSE IF p \in mine THEN [post[p] EXCEPT !.likes = Dec(@)]
                      ELSE post[p]
  BY <1>2, <1>4, <1>5 DEF DeleteCommit
<1>8. \A p \in Posts :
        /\ post'[p].life = IF p \in ps THEN "purged" ELSE post[p].life
        /\ post'[p].expired = post[p].expired
  BY <1>1, <1>7, AccountPost
<1>9. /\ \A p \in ps : ~Visible(p)' /\ Created(p)'
      /\ \A p \in Posts \ ps : /\ Visible(p)' <=> Visible(p)
                               /\ Created(p)' <=> Created(p)
  BY <1>8 DEF Visible, Stored, Created
<1>10. ASSUME NEW p \in Posts \ ps, Visible(p)
       PROVE  Likers(p)' = IF p \in mine THEN Likers(p) \ {u} ELSE Likers(p)
  <2>1. \A v \in Users : <<v, p>> \in s => v = u
    BY <1>6, <1>10 DEF Visible
  <2> QED
    BY <1>5, <1>7, <2>1 DEF Likers
<1>11. PICK gone \in SUBSET Posts : gone = {p \in ps : Visible(p)}
  OBVIOUS
<1>12. PICK left \in SUBSET Posts : left = {p \in mine \ ps : Visible(p)}
  OBVIOUS
<1>13. \A q \in left :
         /\ q \notin gone
         /\ Visible(q) /\ Visible(q)' /\ Created(q)'
         /\ u \in Likers(q) /\ Likers(q)' = Likers(q) \ {u}
         /\ post'[q].likes = post[q].likes - 1
  <2> TAKE q \in left
  <2>1. Visible(q) /\ Visible(q)' /\ q \notin ps /\ q \in mine
    BY <1>9, <1>12
  <2>2. Created(q)'
    BY <1>9, <2>1 DEF Visible, Stored, Created
  <2>3. u \in Likers(q) /\ Likers(q)' = Likers(q) \ {u}
    BY <1>5, <1>6, <1>10, <2>1 DEF Likers
  <2> QED
    BY <1>11, <2>1, <2>2, <2>3, NumberLower
<1>14. \A q \in Posts \ (gone \cup left) : Same(q)
  <2> TAKE q \in Posts \ (gone \cup left)
  <2>1. CASE q \in ps
    <3>1. ~Visible(q) /\ ~Visible(q)' /\ Created(q)' /\ Created(q)
      BY <1>6, <1>9, <1>11, <2>1
    <3> QED
      BY <3>1 DEF Same
  <2>2. CASE q \notin ps
    <3>1. Visible(q) => Likers(q)' = Likers(q)
      BY <1>10, <1>12, <2>2
    <3> QED
      BY <1>9, <2>2, <3>1, SameAs
  <2> QED
    BY <2>1, <2>2
<1>15. \A p \in gone : Visible(p) /\ ~Visible(p)' /\ Created(p)'
  BY <1>9, <1>11
<1>16. Atomic!TakeBack(gone, u, left)
  BY <1>13, <1>14, <1>15, TakeBackSeen
<1> QED
  BY <1>16 DEF Atomic!Leave

LEMMA AtomicInit == Init => Atomic!Init
<1> SUFFICES ASSUME Init PROVE Atomic!Init
  OBVIOUS
<1>1. \A p \in Posts : post[p].life = "unused" /\ ~Visible(p)
  BY DEF Init, NewPost, Visible, Stored
<1> QED
  BY <1>1 DEF Atomic!Init

LEMMA AtomicStep == PostInv /\ PostInv' /\ [Next]_vars => [Atomic!Next]_(Atomic!vars)
<1> SUFFICES ASSUME PostInv, PostInv', [Next]_vars PROVE [Atomic!Next]_(Atomic!vars)
  OBVIOUS
<1>1. CASE UNCHANGED <<post, reaction>>
  <2>1. \A q \in Posts : Same(q)
    BY <1>1, SameDocument DEF Likers
  <2> QED
    BY <2>1, NothingSeen
<1>2. ASSUME NEW r \in Requests, AddReaction(r) \/ RemoveReaction(r)
      PROVE  [Atomic!Next]_(Atomic!vars)
  BY <1>2, AddReactionSeen, RemoveReactionSeen DEF Atomic!Next
<1>3. ASSUME NEW r \in Requests, DeleteCommit(r)
      PROVE  [Atomic!Next]_(Atomic!vars)
  BY <1>3, DeleteCommitSeen DEF Atomic!Next
<1>4. ASSUME NEW r \in Requests, Insert(r) \/ Compensate(r) \/ DeletePost(r)
      PROVE  [Atomic!Next]_(Atomic!vars)
  BY <1>4, InsertSeen, CompensateSeen DEF Atomic!Next
<1>5. ASSUME NEW r \in Requests, CountPost(r) \/ \E p \in Posts : StartCreate(r, p)
      PROVE  [Atomic!Next]_(Atomic!vars)
  BY <1>5, QuietRequest
<1>6. ASSUME NEW j \in Jobs,
             MarkFailed(j) \/ RemoveExpired(j) \/ \E p \in Posts : Claim(j, p)
      PROVE  [Atomic!Next]_(Atomic!vars)
  BY <1>6, QuietJob
<1>7. ASSUME NEW p \in Posts, Expire(p) \/ LockRunsOut(p)
      PROVE  [Atomic!Next]_(Atomic!vars)
  BY <1>7, ExpireSeen, LockSeen DEF Atomic!Next
<1>8. ASSUME NEW r \in Requests,
             \/ \E p \in Posts : StartDelete(r, p)
             \/ \E op \in {"react", "remove"}, u \in Users, p \in Posts :
                  StartReaction(r, op, u, p)
             \/ \E u \in Users : StartDeleteAccount(r, u)
             \/ NotInserted(r) \/ FinishCreate(r) \/ FailCreate(r)
             \/ DecrementPostCount(r) \/ DeleteItsImages(r)
             \/ BeginReaction(r) \/ Conflict(r)
             \/ DeleteSnapshot(r) \/ PurgeImages(r) \/ Abandon(r)
      PROVE  UNCHANGED <<post, reaction>>
  BY <1>8 DEF StartDelete, StartReaction, StartDeleteAccount, NotInserted, FinishCreate,
     FailCreate, DecrementPostCount, DeleteItsImages, BeginReaction, Conflict,
     DeleteSnapshot, PurgeImages, Abandon
<1>9. ASSUME NEW j \in Jobs,
             \/ DeleteImages(j) \/ FailToDeleteImages(j) \/ NotRemoved(j)
             \/ DecrementAuthor(j) \/ Crash(j)
      PROVE  UNCHANGED <<post, reaction>>
  BY <1>9 DEF DeleteImages, FailToDeleteImages, NotRemoved, DecrementAuthor, Crash
<1>10. ASSUME NEW r \in Requests,
              Start(r) \/ CreateStep(r) \/ DeleteStep(r) \/ ReactionStep(r)
                \/ AccountStep(r) \/ Abandon(r)
       PROVE  [Atomic!Next]_(Atomic!vars)
  BY <1>1, <1>2, <1>3, <1>4, <1>5, <1>8, <1>10
  DEF Start, CreateStep, DeleteStep, ReactionStep, AccountStep
<1>11. ASSUME NEW j \in Jobs, JobStep(j) \/ Crash(j)
       PROVE  [Atomic!Next]_(Atomic!vars)
  BY <1>1, <1>6, <1>9, <1>11 DEF JobStep
<1>12. CASE UNCHANGED vars
  BY <1>1, <1>12 DEF vars
<1> QED
  BY <1>7, <1>10, <1>11, <1>12 DEF Next

(* To readers a post, its likes and the number beside it change in one     *)
(* step, whatever overlaps: the commits of reaction.service.ts and of      *)
(* softDeleteUser, and the single writes of the others, are the steps.     *)
THEOREM AtomicPostsCorrect == Spec => ReadersSeeAtomicPosts
<1>1. PostInv /\ PostInv' /\ [Next]_vars => [Atomic!Next]_(Atomic!vars)
  BY AtomicStep
<1> QED
  BY <1>1, AtomicInit, PostEngagementCorrect, PTL
  DEF Spec, ReadersSeeAtomicPosts, Atomic!Spec
-----------------------------------------------------------------------------
(* postsCount                                                              *)

(* What CountInv looks at in a request.                                    *)
SameRole(x, y) == y.pc = x.pc /\ y.op = x.op /\ y.u = x.u /\ y.p = x.p

(* A step of request r leaves what the others are about.                   *)
LEMMA RolesKept ==
  ASSUME TypeOK, NEW r \in Requests, NEW x \in Request,
         \/ req' = [req EXCEPT ![r] = x]
         \/ x.pc # "txn" /\ \E us, ps, es : Mark([req EXCEPT ![r] = x], us, ps, es)
  PROVE  /\ req'[r] = x
         /\ \A q \in Requests \ {r} : SameRole(req[q], req'[q])
<1>1. \A q \in Requests : req[q] \in Request
  BY DEF TypeOK
<1>2. CASE req' = [req EXCEPT ![r] = x]
  BY <1>2 DEF TypeOK, SameRole
<1>3. ASSUME x.pc # "txn", NEW us, NEW ps, NEW es,
             Mark([req EXCEPT ![r] = x], us, ps, es)
      PROVE  /\ req'[r] = x
             /\ \A q \in Requests \ {r} : SameRole(req[q], req'[q])
  <2>1. /\ req'[r] = x
        /\ \A q \in Requests \ {r} : req'[q] = Marked(req[q], us, ps, es)
    BY <1>3, MarkStep
  <2>2. \A q \in Requests : SameRole(req[q], Marked(req[q], us, ps, es))
    BY <1>1, MarkedEffect DEF SameRole
  <2> QED
    BY <2>1, <2>2
<1> QED
  BY <1>2, <1>3

(* And so does a step of a job.                                            *)
LEMMA AllRolesKept ==
  ASSUME TypeOK, \/ req' = req
                 \/ \E us, ps, es : Mark(req, us, ps, es)
  PROVE  \A q \in Requests : SameRole(req[q], req'[q])
<1>1. \A q \in Requests : req[q] \in Request
  BY DEF TypeOK
<1>2. CASE req' = req
  BY <1>2 DEF SameRole
<1>3. ASSUME NEW us, NEW ps, NEW es, Mark(req, us, ps, es)
      PROVE  \A q \in Requests : SameRole(req[q], req'[q])
  <2>1. \A q \in Requests : req'[q] = Marked(req[q], us, ps, es)
    BY <1>3, MarkAll
  <2>2. \A q \in Requests : SameRole(req[q], Marked(req[q], us, ps, es))
    BY <1>1, MarkedEffect DEF SameRole
  <2> QED
    BY <2>1, <2>2
<1> QED
  BY <1>2, <1>3

(* The sets that are counted are finite: finitely many posts were created. *)
LEMMA CountedSetsFinite ==
  ASSUME CountInv, NEW u
  PROVE  IsFiniteSet(DueOf(u)) /\ IsFiniteSet(UncountedOf(u))
<1>1. \A p \in Posts : Stored(p) \/ Owed(p) => Created(p)
  BY DEF CountInv, Stored, Created, Ended
<1>2. DueOf(u) \subseteq {p \in Posts : Created(p)}
  BY <1>1 DEF DueOf
<1>3. UncountedOf(u) \subseteq {p \in Posts : Created(p)}
  BY DEF UncountedOf
<1> QED
  BY <1>2, <1>3, FS_Subset DEF CountInv

(* An account that owes nothing new, and has lost no count, is balanced.   *)
LEMMA BalanceKept ==
  ASSUME TypeOK, TypeOK', CountInv, NEW u \in Users,
         ~user'[u].deleted =>
           /\ ~user[u].deleted
           /\ user'[u].postsCount = user[u].postsCount
         ,
         DueOf(u)' \subseteq DueOf(u), UncountedOf(u)' = UncountedOf(u)
  PROVE  Balanced(u)'
<1> SUFFICES ASSUME ~user'[u].deleted
             PROVE  Cardinality(DueOf(u)') <= user'[u].postsCount
                                                + Cardinality(UncountedOf(u)')
  BY DEF Balanced
<1>1. IsFiniteSet(DueOf(u)) /\ IsFiniteSet(UncountedOf(u)) /\ Balanced(u)
  BY CountedSetsFinite DEF CountInv
<1>2. PICK D, E : D = DueOf(u) /\ E = DueOf(u)'
  OBVIOUS
<1>3. /\ Cardinality(E) \in Nat /\ Cardinality(D) \in Nat
      /\ Cardinality(E) <= Cardinality(D)
  BY <1>1, <1>2, FS_Subset, FS_CardinalityType
<1>4. Cardinality(UncountedOf(u)) \in Nat /\ user[u].postsCount \in Nat
  BY <1>1, FS_CardinalityType DEF TypeOK, UserDoc
<1>5. Cardinality(D) <= user[u].postsCount + Cardinality(UncountedOf(u))
  BY <1>1, <1>2 DEF Balanced
<1> QED
  BY <1>2, <1>3, <1>4, <1>5

(* What is to be shown of a step that pays nothing and counts nothing.     *)
LEMMA CountKept ==
  ASSUME PostInv, PostInv', CountInv,
         \A p \in Posts :
           /\ Created(p)' <=> Created(p)
           /\ Stored(p)' => Stored(p)
           /\ post'[p].counted = post[p].counted
           /\ Owed(p)' => Ended(p)' /\ (Stored(p) \/ Owed(p)),
         \A u \in Users : ~user'[u].deleted =>
           ~user[u].deleted /\ user'[u].postsCount = user[u].postsCount,
         \A r \in Requests : ActsForAuthor(req'[r]),
         OwedOnce'
  PROVE  CountInv'
<1>1. TypeOK /\ TypeOK'
  BY DEF PostInv
<1>2. {p \in Posts : Created(p)}' = {p \in Posts : Created(p)}
  OBVIOUS
<1>3. (\A p \in Posts : ~Created(p) => ~post[p].counted)'
  BY DEF CountInv
<1>4. ASSUME NEW u \in Users PROVE Balanced(u)'
  <2>1. DueOf(u)' \subseteq DueOf(u)
    BY DEF DueOf
  <2>2. UncountedOf(u)' = UncountedOf(u)
    BY DEF UncountedOf
  <2> QED
    BY <1>1, <2>1, <2>2, BalanceKept
<1> QED
  BY <1>2, <1>3, <1>4 DEF CountInv

(* A step by which nobody comes to owe anything.                           *)
LEMMA CountQuiet ==
  ASSUME PostInv, PostInv', CountInv,
         \A p \in Posts :
           /\ Created(p)' <=> Created(p)
           /\ Stored(p)' => Stored(p)
           /\ post'[p].counted = post[p].counted,
         \A u \in Users : ~user'[u].deleted =>
           ~user[u].deleted /\ user'[u].postsCount = user[u].postsCount,
         \A r \in Requests :
           \/ SameRole(req[r], req'[r])
           \/ ActsForAuthor(req'[r]) /\ req'[r].pc # "removed",
         \A j \in Jobs : job'[j] = job[j] \/ job'[j].pc # "decrement"
  PROVE  CountInv'
<1>1. \A r \in Requests : \A p : OwedBy(r, p)' => OwedBy(r, p)
  BY DEF OwedBy, SameRole
<1>2. \A j \in Jobs : \A p : OwedByJob(j, p)' => OwedByJob(j, p)
  BY DEF OwedByJob
<1>3. \A p \in Posts : Owed(p)' => Owed(p)
  BY <1>1, <1>2 DEF Owed
<1>4. \A p \in Posts : Owed(p)' => Ended(p)'
  BY <1>3 DEF CountInv, Ended
<1>5. \A r \in Requests : ActsForAuthor(req'[r])
  BY DEF CountInv, SameRole, ActsForAuthor
<1>6. OwedOnce'
  BY <1>1, <1>2 DEF CountInv, OwedOnce
<1> QED
  BY <1>3, <1>4, <1>5, <1>6, CountKept

(* No post is created, brought back or counted.                            *)
PostsQuiet ==
  \A p \in Posts :
    /\ Created(p)' <=> Created(p)
    /\ Stored(p)' => Stored(p)
    /\ post'[p].counted = post[p].counted

LEMMA OnePostQuiet ==
  ASSUME TypeOK, NEW p \in Posts, NEW d,
         post' = post \/ post' = [post EXCEPT ![p] = d],
         d.counted = post[p].counted,
         \/ d.life = post[p].life
         \/ Created(p) /\ d.life \in {"deleted", "withdrawn", "purged", "cleaned"}
         \/ ~Created(p) /\ d.life = "drawn"
  PROVE  PostsQuiet
<1>1. \A q \in Posts : post'[q] = IF q = p THEN post'[p] ELSE post[q]
  BY DEF TypeOK
<1>2. post'[p] = post[p] \/ post'[p] = d
  BY DEF TypeOK
<1> QED
  BY <1>1, <1>2 DEF PostsQuiet, Created, Stored

LEMMA GoneCounted ==
  ASSUME TypeOK, NEW p \in Posts, NEW life \in {"deleted", "withdrawn", "purged", "cleaned"}
  PROVE  Gone(p, life).counted = post[p].counted /\ Gone(p, life).life = life
<1>1. Gone(p, life) = [NewPost EXCEPT !.life = life, !.expired = post[p].expired,
                                      !.counted = post[p].counted]
  BY DEF Gone
<1> QED
  BY <1>1 DEF NewPost

(* A step of a request that owes nothing after it.                         *)
LEMMA RequestQuiet ==
  ASSUME PostInv, PostInv', CountInv, NEW r \in Requests, NEW x \in Request,
         \/ req' = [req EXCEPT ![r] = x]
         \/ x.pc # "txn" /\ \E us, ps, es : Mark([req EXCEPT ![r] = x], us, ps, es),
         ActsForAuthor(x), x.pc # "removed",
         PostsQuiet, UNCHANGED job,
         \A u \in Users : ~user'[u].deleted =>
           ~user[u].deleted /\ user'[u].postsCount = user[u].postsCount
  PROVE  CountInv'
<1>1. TypeOK
  BY Parts
<1>2. \A q \in Requests :
        \/ SameRole(req[q], req'[q])
        \/ ActsForAuthor(req'[q]) /\ req'[q].pc # "removed"
  BY <1>1, RolesKept
<1>3. \A j \in Jobs : job'[j] = job[j]
  OBVIOUS
<1> QED
  BY <1>2, <1>3, CountQuiet DEF PostsQuiet

(* A step of a job, or of time, after which nothing more is owed.          *)
LEMMA JobCountQuiet ==
  ASSUME PostInv, PostInv', CountInv,
         \/ req' = req
         \/ \E us, ps, es : Mark(req, us, ps, es),
         \/ job' = job
         \/ \E j \in Jobs : \E y \in Job :
              job' = [job EXCEPT ![j] = y] /\ y.pc # "decrement",
         PostsQuiet, UNCHANGED user
  PROVE  CountInv'
<1>1. TypeOK
  BY Parts
<1>2. \A q \in Requests : SameRole(req[q], req'[q])
  BY <1>1, AllRolesKept
<1>3. \A j \in Jobs : job'[j] = job[j] \/ job'[j].pc # "decrement"
  BY <1>1 DEF TypeOK
<1> QED
  BY <1>2, <1>3, CountQuiet DEF PostsQuiet

(* The requests begin, end, fail, or change only images.                   *)
LEMMA PlainRequestCount ==
  ASSUME PostInv, PostInv', CountInv, NEW r \in Requests, NEW x \in Request,
         req' = [req EXCEPT ![r] = x], ActsForAuthor(x), x.pc # "removed",
         UNCHANGED <<user, post, job>>
  PROVE  CountInv'
<1>1. PostsQuiet
  BY DEF PostsQuiet, Created, Stored
<1> QED
  BY <1>1, RequestQuiet

LEMMA EndCount ==
  ASSUME PostInv, PostInv', CountInv, NEW r \in Requests, req' = End(r),
         UNCHANGED <<user, post, job>>
  PROVE  CountInv'
<1>1. ActsForAuthor(IdleRequest) /\ IdleRequest.pc # "removed"
  BY DEF ActsForAuthor, IdleRequest
<1> QED
  BY <1>1, IdleOK, PlainRequestCount DEF End

LEMMA StartCount ==
  ASSUME PostInv, PostInv', CountInv, NEW r \in Requests,
         NEW op \in {"delete", "react", "remove"}, NEW u \in Users, NEW p \in Posts,
         op = "delete" => u = AuthorOf[p],
         req' = [req EXCEPT ![r] = [IdleRequest EXCEPT !.op = op,
                                      !.pc = "resolved", !.u = u, !.p = p]],
         UNCHANGED <<user, post, job>>
  PROVE  CountInv'
<1> DEFINE x == [IdleRequest EXCEPT !.op = op, !.pc = "resolved", !.u = u, !.p = p]
<1>1. x \in Request
  BY DEF IdleRequest, Request, AllOps
<1>2. x.op = op /\ x.pc = "resolved" /\ x.u = u /\ x.p = p
  BY DEF IdleRequest
<1>3. req' = [req EXCEPT ![r] = x]
  OBVIOUS
<1> HIDE DEF x
<1>4. ActsForAuthor(x)
  BY <1>2 DEF ActsForAuthor
<1> QED
  BY <1>1, <1>2, <1>3, <1>4, PlainRequestCount

LEMMA StartDeleteAccountCount ==
  ASSUME PostInv, PostInv', CountInv, NEW r \in Requests, NEW u \in Users,
         StartDeleteAccount(r, u)
  PROVE  CountInv'
<1> DEFINE x == [IdleRequest EXCEPT !.op = "account", !.pc = "resolved", !.u = u]
<1>1. x \in Request
  BY DEF IdleRequest, Request, AllOps
<1>2. x.op = "account" /\ x.pc = "resolved"
  BY DEF IdleRequest
<1>3. req' = [req EXCEPT ![r] = x] /\ UNCHANGED <<user, post, job>>
  BY DEF StartDeleteAccount
<1> HIDE DEF x
<1>4. ActsForAuthor(x)
  BY <1>2 DEF ActsForAuthor
<1> QED
  BY <1>1, <1>2, <1>3, <1>4, PlainRequestCount

LEMMA FailCreateCount ==
  ASSUME PostInv, PostInv', CountInv, NEW r \in Requests, FailCreate(r)
  PROVE  CountInv'
<1>1. PICK x \in Request : x = req[r]
  BY Parts DEF TypeOK
<1>2. PICK y \in Request : y = [x EXCEPT !.pc = "compensate"] /\ y.pc = "compensate"
  <2>1. PICK z \in Request : z = [x EXCEPT !.pc = "compensate"]
    BY GotoRecord
  <2>2. z.pc = "compensate"
    BY <2>1, GotoRecord
  <2> QED
    BY <2>1, <2>2
<1>3. ActsForAuthor(y)
  BY <1>2 DEF ActsForAuthor
<1> QED
  BY <1>1, <1>2, <1>3, PlainRequestCount DEF FailCreate, Goto

LEMMA TransactionCount ==
  ASSUME PostInv, PostInv', CountInv, NEW r \in Requests,
         BeginReaction(r) \/ Conflict(r) \/ DeleteSnapshot(r)
  PROVE  CountInv'
<1>1. TypeOK /\ TypeOK' /\ RequestOK(req[r])
  BY Parts DEF PostInv
<1>2. PICK x \in Request, y \in Request : x = req[r] /\ y = req'[r]
  BY <1>1 DEF TypeOK
<1>3. req' = [req EXCEPT ![r] = y] /\ UNCHANGED <<user, post, job>>
  BY <1>1, <1>2 DEF TypeOK, BeginReaction, Conflict, DeleteSnapshot
<1>4. x.op # "delete"
  BY <1>1, <1>2 DEF RequestOK, BeginReaction, Conflict, DeleteSnapshot
<1>5. y.pc \in {"txn", "resolved"} /\ y.op = x.op
  <2>1. CASE BeginReaction(r)
    <3>1. PICK s : y = [x EXCEPT !.pc = "txn", !.seen = s]
      BY <1>1, <1>2, <2>1 DEF TypeOK, BeginReaction
    <3> QED
      BY <3>1 DEF Request
  <2>2. CASE Conflict(r)
    <3>1. y = [x EXCEPT !.pc = "resolved", !.posts = {}, !.seen = {}, !.stale = {}]
      BY <1>1, <1>2, <2>2 DEF TypeOK, Conflict
    <3> QED
      BY <3>1 DEF Request
  <2>3. CASE DeleteSnapshot(r)
    <3>1. PICK ps, s : y = [x EXCEPT !.pc = "txn", !.posts = ps, !.seen = s]
      BY <1>1, <1>2, <2>3 DEF TypeOK, DeleteSnapshot
    <3> QED
      BY <3>1 DEF Request
  <2> QED
    BY <2>1, <2>2, <2>3
<1>6. ActsForAuthor(y) /\ y.pc # "removed"
  BY <1>4, <1>5 DEF ActsForAuthor
<1> QED
  BY <1>3, <1>6, PlainRequestCount

(* A drawn post is not there yet.                                          *)
LEMMA StartCreateCount ==
  ASSUME PostInv, PostInv', CountInv, NEW r \in Requests, NEW p \in Posts,
         StartCreate(r, p)
  PROVE  CountInv'
<1> DEFINE x == [IdleRequest EXCEPT !.op = "create", !.pc = "uploaded",
                                    !.u = AuthorOf[p], !.p = p]
<1>1. x \in Request
  BY PostsAssumption DEF IdleRequest, Request, AllOps
<1>2. x.pc = "uploaded" /\ x.p = p /\ x.u = AuthorOf[p]
  BY DEF IdleRequest
<1>3. req' = [req EXCEPT ![r] = x] /\ UNCHANGED <<user, job>>
  BY DEF StartCreate
<1> HIDE DEF x
<1>4. ActsForAuthor(x)
  BY <1>2 DEF ActsForAuthor
<1>5. TypeOK
  BY Parts
<1>6. PICK d : d = [post[p] EXCEPT !.life = "drawn"]
  OBVIOUS
<1>7. d.life = "drawn" /\ d.counted = post[p].counted
  BY <1>5, <1>6 DEF TypeOK, PostDoc
<1>8. post' = [post EXCEPT ![p] = d] /\ ~Created(p)
  BY <1>6 DEF StartCreate, Created
<1>9. PostsQuiet
  BY <1>5, <1>7, <1>8, OnePostQuiet
<1> QED
  BY <1>1, <1>2, <1>3, <1>4, <1>9, RequestQuiet

(* Reactions count on their post, not on its author.                       *)
LEMMA ReactionCount ==
  ASSUME PostInv, PostInv', CountInv, NEW r \in Requests,
         AddReaction(r) \/ RemoveReaction(r)
  PROVE  CountInv'
<1>1. TypeOK /\ RequestOK(req[r])
  BY Parts
<1>2. PICK p \in Posts : p = req[r].p
  BY <1>1 DEF AddReaction, RemoveReaction, RequestOK
<1>3. PICK n : /\ post' = post \/ post' = [post EXCEPT ![p].likes = n]
               /\ UNCHANGED <<user, job>>
  BY <1>2 DEF AddReaction, RemoveReaction
<1>4. PICK d : d = [post[p] EXCEPT !.likes = n]
  OBVIOUS
<1>5. d.life = post[p].life /\ d.counted = post[p].counted
  BY <1>1, <1>4 DEF TypeOK, PostDoc
<1>6. PostsQuiet
  BY <1>1, <1>3, <1>4, <1>5, OnePostQuiet
<1>7. \E us, ps, es : Mark(End(r), us, ps, es)
  BY DEF AddReaction, RemoveReaction
<1>8. ActsForAuthor(IdleRequest) /\ IdleRequest.pc \notin {"removed", "txn"}
  BY DEF ActsForAuthor, IdleRequest
<1>9. \E us, ps, es : Mark([req EXCEPT ![r] = IdleRequest], us, ps, es)
  BY <1>7 DEF End
<1> QED
  BY <1>3, <1>6, <1>8, <1>9, IdleOK, RequestQuiet

(* What a creation that failed takes back was counted, or not: the account *)
(* is not short of it.                                                     *)
LEMMA CompensateCount ==
  ASSUME PostInv, PostInv', CountInv, NEW r \in Requests, Compensate(r)
  PROVE  CountInv'
<1>1. TypeOK /\ RequestOK(req[r])
  BY Parts
<1>2. PICK x \in Request : x = req[r]
  BY <1>1 DEF TypeOK
<1>3. PICK p \in Posts : p = x.p /\ Created(p)
  BY <1>1, <1>2 DEF Compensate, RequestOK
<1>4. PICK y \in Request : y = [x EXCEPT !.pc = "images"] /\ y.pc = "images"
  <2>1. PICK z \in Request : z = [x EXCEPT !.pc = "images"]
    BY GotoRecord
  <2>2. z.pc = "images"
    BY <2>1, GotoRecord
  <2> QED
    BY <2>1, <2>2
<1>5. ActsForAuthor(y)
  BY <1>4 DEF ActsForAuthor
<1>6. PICK d : /\ d = Gone(p, "withdrawn")
               /\ d.counted = post[p].counted /\ d.life = "withdrawn"
  BY <1>1, GoneCounted
<1>7. post' = post \/ post' = [post EXCEPT ![p] = d]
  BY <1>2, <1>3, <1>6 DEF Compensate
<1>8. PostsQuiet
  BY <1>1, <1>3, <1>6, <1>7, OnePostQuiet
<1>9. /\ Mark([req EXCEPT ![r] = y], {}, {p}, {})
      /\ UNCHANGED <<user, job>>
  BY <1>2, <1>3, <1>4 DEF Compensate, Goto
<1> QED
  BY <1>4, <1>5, <1>8, <1>9, RequestQuiet

(* An account that is deleted has no count to keep, and the posts that go  *)
(* with it are its own.                                                    *)
LEMMA DeleteCommitCount ==
  ASSUME PostInv, PostInv', CountInv, NEW r \in Requests, DeleteCommit(r)
  PROVE  CountInv'
<1>1. TypeOK /\ RequestOK(req[r])
  BY Parts
<1>2. PICK x \in Request : x = req[r]
  BY <1>1 DEF TypeOK
<1>3. x.pc = "txn" /\ x.op = "account" /\ AccountTxnOK(x)
  BY <1>1, <1>2 DEF DeleteCommit, RequestOK
<1>4. PICK u \in Users : u = x.u
  BY <1>3 DEF AccountTxnOK
<1>5. PICK y \in Request : y = [x EXCEPT !.pc = "purge"] /\ y.pc = "purge"
  <2>1. PICK z \in Request : z = [x EXCEPT !.pc = "purge"]
    BY GotoRecord
  <2>2. z.pc = "purge"
    BY <2>1, GotoRecord
  <2> QED
    BY <2>1, <2>2
<1>6. ActsForAuthor(y)
  BY <1>5 DEF ActsForAuthor
<1>7. PICK ps, es : Mark([req EXCEPT ![r] = y], {u}, ps, es)
  BY <1>2, <1>4, <1>5 DEF DeleteCommit, Goto
<1>8. ASSUME NEW q \in Posts
      PROVE  /\ Created(q)' <=> Created(q)
             /\ Stored(q)' => Stored(q)
             /\ post'[q].counted = post[q].counted
  <2>1. PICK d : d = [post[q] EXCEPT !.likes = Dec(post[q].likes)]
    OBVIOUS
  <2>2. d.life = post[q].life /\ d.counted = post[q].counted
    BY <1>1, <2>1 DEF TypeOK, PostDoc
  <2>3. PICK e : /\ e = Gone(q, "purged")
                 /\ e.counted = post[q].counted /\ e.life = "purged"
    BY <1>1, GoneCounted
  <2>4. \/ post'[q] = e /\ q \in x.posts
        \/ post'[q] = d \/ post'[q] = post[q]
    BY <1>2, <2>1, <2>3 DEF DeleteCommit
  <2>5. q \in x.posts => Created(q)
    BY <1>3 DEF AccountTxnOK
  <2> QED
    BY <2>2, <2>3, <2>4, <2>5 DEF Created, Stored
<1>9. \A v \in Users : ~user'[v].deleted =>
        ~user[v].deleted /\ user'[v].postsCount = user[v].postsCount
  BY <1>1, <1>2, <1>4 DEF DeleteCommit, TypeOK
<1>10. PostsQuiet
  BY <1>8 DEF PostsQuiet
<1> QED
  BY <1>5, <1>6, <1>7, <1>9, <1>10, RequestQuiet DEF DeleteCommit

(* The clean-up claims posts, deletes images and gives up.                 *)
LEMMA JobCount ==
  ASSUME PostInv, PostInv', CountInv, NEW j \in Jobs,
         \/ \E p \in Posts : Claim(j, p)
         \/ DeleteImages(j) \/ FailToDeleteImages(j) \/ NotRemoved(j)
         \/ MarkFailed(j) \/ Crash(j)
  PROVE  CountInv'
<1>1. TypeOK /\ TypeOK' /\ JobOK(j)
  BY Parts DEF PostInv
<1>2. PICK y \in Job : y = job'[j]
  BY <1>1 DEF TypeOK
<1>3. job' = [job EXCEPT ![j] = y] /\ y.pc # "decrement" /\ UNCHANGED user
  <2>1. PICK x \in Job : x = job[j]
    BY <1>1 DEF TypeOK
  <2>2. ASSUME NEW pc \in {"removed", "failing"}, JobGoto(j, pc)
        PROVE  job' = [job EXCEPT ![j] = y] /\ y.pc # "decrement"
    <3>1. [x EXCEPT !.pc = pc].pc = pc
      BY DEF Job
    <3> QED
      BY <1>1, <1>2, <2>1, <2>2, <3>1 DEF JobGoto, TypeOK
  <2>3. ASSUME JobDone(j)
        PROVE  job' = [job EXCEPT ![j] = y] /\ y.pc # "decrement"
    BY <1>1, <1>2, <2>3, IdleJobType DEF JobDone, TypeOK
  <2>4. ASSUME NEW p \in Posts, Claim(j, p)
        PROVE  job' = [job EXCEPT ![j] = y] /\ y.pc # "decrement"
    BY <1>1, <1>2, <2>4 DEF Claim, TypeOK
  <2> QED
    BY <2>2, <2>3, <2>4 DEF Claim, DeleteImages, FailToDeleteImages, NotRemoved,
       MarkFailed, Crash
<1>4. PostsQuiet
  <2>1. ASSUME NEW p \in Posts, NEW d, post' = [post EXCEPT ![p] = d],
               d.life = post[p].life, d.counted = post[p].counted
        PROVE  PostsQuiet
    BY <1>1, <2>1, OnePostQuiet
  <2>2. CASE post' = post
    BY <2>2 DEF PostsQuiet, Created, Stored
  <2>3. ASSUME NEW p \in Posts, Claim(j, p) PROVE PostsQuiet
    <3>1. PICK c \in PostDoc : c = post[p]
      BY <1>1 DEF TypeOK
    <3>2. PICK d : d = [c EXCEPT !.cleanup = "processing", !.locked = TRUE,
                                 !.attempts = c.attempts + 1]
      OBVIOUS
    <3>3. d.life = post[p].life /\ d.counted = post[p].counted
      BY <3>1, <3>2 DEF PostDoc
    <3>4. post' = [post EXCEPT ![p] = d]
      BY <2>3, <3>1, <3>2 DEF Claim
    <3> QED
      BY <2>1, <3>3, <3>4
  <2>4. CASE MarkFailed(j)
    <3>1. PICK p \in Posts : p = job[j].p
      BY <1>1, <2>4 DEF MarkFailed, JobOK
    <3>2. PICK d : d = [post[p] EXCEPT !.cleanup = "failed", !.locked = FALSE]
      OBVIOUS
    <3>3. d.life = post[p].life /\ d.counted = post[p].counted
      BY <1>1, <3>2 DEF TypeOK, PostDoc
    <3>4. post' = post \/ post' = [post EXCEPT ![p] = d]
      BY <2>4, <3>1, <3>2 DEF MarkFailed
    <3> QED
      BY <2>1, <2>2, <3>3, <3>4
  <2> QED
    BY <2>2, <2>3, <2>4 DEF DeleteImages, FailToDeleteImages, NotRemoved, Crash
<1>5. req' = req \/ \E us, ps, es : Mark(req, us, ps, es)
  BY DEF Claim, DeleteImages, FailToDeleteImages, NotRemoved, MarkFailed, Crash
<1> QED
  BY <1>3, <1>4, <1>5, JobCountQuiet

LEMMA TimeCount ==
  ASSUME PostInv, PostInv', CountInv, NEW p \in Posts, Expire(p) \/ LockRunsOut(p)
  PROVE  CountInv'
<1>1. TypeOK
  BY Parts
<1>2. PICK d : /\ \/ d = [post[p] EXCEPT !.expired = TRUE]
                  \/ d = [post[p] EXCEPT !.locked = FALSE]
               /\ post' = [post EXCEPT ![p] = d]
  BY DEF Expire, LockRunsOut
<1>3. d.life = post[p].life /\ d.counted = post[p].counted
  BY <1>1, <1>2 DEF TypeOK, PostDoc
<1>4. PostsQuiet
  BY <1>1, <1>2, <1>3, OnePostQuiet
<1> QED
  BY <1>4, JobCountQuiet DEF Expire, LockRunsOut

(* A post is inserted: it is there, and not counted yet.                   *)
LEMMA InsertCount ==
  ASSUME PostInv, PostInv', CountInv, NEW r \in Requests, Insert(r)
  PROVE  CountInv'
<1>1. TypeOK /\ TypeOK' /\ RequestOK(req[r])
  BY Parts DEF PostInv
<1>2. PICK x \in Request : x = req[r]
  BY <1>1 DEF TypeOK
<1>3. PICK p \in Posts : p = x.p /\ Drawn(p) /\ x.pc = "uploaded"
  BY <1>1, <1>2 DEF Insert, RequestOK
<1>4. PICK y \in Request : y = [x EXCEPT !.pc = "inserted"]
  BY GotoRecord
<1>5. y.pc = "inserted" /\ y.u = x.u /\ y.p = x.p
  BY <1>4, GotoRecord
<1>6. /\ req'[r] = y
      /\ \A q \in Requests \ {r} : SameRole(req[q], req'[q])
  BY <1>1, <1>2, <1>4, <1>5, RolesKept DEF Insert, Goto
<1>7. PICK d : d = [post[p] EXCEPT !.life = "stored"]
  OBVIOUS
<1>8. d.life = "stored" /\ d.counted = post[p].counted
  BY <1>1, <1>7 DEF TypeOK, PostDoc
<1>9. \A q \in Posts : post'[q] = IF q = p THEN d ELSE post[q]
  BY <1>1, <1>2, <1>3, <1>7 DEF Insert, TypeOK
<1>10. ~Created(p) /\ ~post[p].counted /\ ~Owed(p) /\ ~Stored(p)
  BY <1>3 DEF Drawn, Created, Ended, Stored, CountInv
<1>11. \A q, z : OwedBy(q, z)' /\ q \in Requests <=> OwedBy(q, z) /\ q \in Requests
  BY <1>2, <1>3, <1>6, <1>5 DEF OwedBy, SameRole
<1>12. job' = job /\ user' = user
  BY DEF Insert
<1>13. \A q \in Posts : Owed(q)' <=> Owed(q)
  BY <1>11, <1>12 DEF Owed, OwedByJob
<1>14. \A q \in Posts :
         /\ Created(q)' <=> Created(q) \/ q = p
         /\ Stored(q)' <=> Stored(q) \/ q = p
         /\ post'[q].counted = post[q].counted
         /\ Ended(q) => Ended(q)'
  BY <1>8, <1>9, <1>10 DEF Created, Stored, Ended
<1>15. IsFiniteSet({q \in Posts : Created(q)})'
  <2>1. {q \in Posts : Created(q)}' = {q \in Posts : Created(q)} \cup {p}
    BY <1>14
  <2> QED
    BY <2>1, FS_AddElement DEF CountInv
<1>16. (\A q \in Posts : ~Created(q) => ~post[q].counted)'
  BY <1>14 DEF CountInv
<1>17. (\A q \in Posts : Owed(q) => Ended(q))'
  BY <1>13, <1>14 DEF CountInv
<1>18. (\A q \in Requests : ActsForAuthor(req[q]))'
  <2>1. ActsForAuthor(x)
    BY <1>2 DEF CountInv
  <2>2. ActsForAuthor(y)
    BY <1>3, <1>5, <2>1 DEF ActsForAuthor
  <2>3. \A q \in Requests \ {r} : ActsForAuthor(req'[q])
    BY <1>6 DEF CountInv, ActsForAuthor, SameRole
  <2> QED
    BY <1>6, <2>2, <2>3
<1>19. OwedOnce'
  BY <1>11, <1>12 DEF CountInv, OwedOnce, OwedByJob
<1>20. ASSUME NEW u \in Users PROVE Balanced(u)'
  <2>1. CASE AuthorOf[p] # u
    <3>1. DueOf(u)' \subseteq DueOf(u)
      BY <1>13, <1>14, <2>1 DEF DueOf
    <3>2. UncountedOf(u)' = UncountedOf(u)
      BY <1>14, <2>1 DEF UncountedOf
    <3> QED
      BY <1>1, <1>12, <3>1, <3>2, BalanceKept
  <2>2. CASE AuthorOf[p] = u
    <3>1. PICK D, E : D = DueOf(u) /\ E = UncountedOf(u)
      OBVIOUS
    <3>2. DueOf(u)' = D \cup {p} /\ p \notin D
      BY <1>10, <1>13, <1>14, <2>2, <3>1 DEF DueOf
    <3>3. UncountedOf(u)' = E \cup {p} /\ p \notin E
      BY <1>10, <1>14, <2>2, <3>1 DEF UncountedOf
    <3>4. IsFiniteSet(D) /\ IsFiniteSet(E)
      BY <3>1, CountedSetsFinite
    <3>5. /\ Cardinality(D \cup {p}) = Cardinality(D) + 1
          /\ Cardinality(E \cup {p}) = Cardinality(E) + 1
          /\ Cardinality(D) \in Nat /\ Cardinality(E) \in Nat
      BY <3>2, <3>3, <3>4, FS_AddElement, FS_CardinalityType
    <3>6. user[u].postsCount \in Nat
      BY <1>1 DEF TypeOK, UserDoc
    <3>7. ~user[u].deleted => Cardinality(D) <= user[u].postsCount + Cardinality(E)
      BY <3>1 DEF CountInv, Balanced
    <3>8. ~user[u].deleted =>
            Cardinality(D \cup {p}) <= user[u].postsCount + Cardinality(E \cup {p})
      BY <3>5, <3>6, <3>7
    <3> QED
      BY <1>12, <3>2, <3>3, <3>8 DEF Balanced
  <2> QED
    BY <2>1, <2>2
<1> QED
  BY <1>15, <1>16, <1>17, <1>18, <1>19, <1>20 DEF CountInv

(* A post that was not counted is counted on the account it is drawn for.  *)
LEMMA CountPostCount ==
  ASSUME PostInv, PostInv', CountInv, NEW r \in Requests, CountPost(r)
  PROVE  CountInv'
<1>1. TypeOK /\ TypeOK' /\ RequestOK(req[r])
  BY Parts DEF PostInv
<1>2. PICK x \in Request : x = req[r]
  BY <1>1 DEF TypeOK
<1>3. PICK p \in Posts, a \in Users :
        p = x.p /\ a = x.u /\ Created(p) /\ x.pc = "inserted"
  BY <1>1, <1>2 DEF CountPost, RequestOK
<1>4. a = AuthorOf[p]
  BY <1>2, <1>3 DEF CountInv, ActsForAuthor
<1>5. PICK y \in Request : y = [x EXCEPT !.pc = "counted"] /\ y.pc = "counted"
  <2>1. PICK z \in Request : z = [x EXCEPT !.pc = "counted"]
    BY GotoRecord
  <2>2. z.pc = "counted"
    BY <2>1, GotoRecord
  <2> QED
    BY <2>1, <2>2
<1>6. Mark([req EXCEPT ![r] = y], {a}, {}, {})
  BY <1>2, <1>3, <1>5 DEF CountPost, Goto
<1>7. /\ req'[r] = y
      /\ \A q \in Requests \ {r} : SameRole(req[q], req'[q])
  BY <1>1, <1>5, <1>6, RolesKept
<1>8. PICK d : d = [post[p] EXCEPT !.counted = TRUE]
  OBVIOUS
<1>9. d.life = post[p].life /\ d.counted
  BY <1>1, <1>8 DEF TypeOK, PostDoc
<1>10. \A q \in Posts : post'[q] = IF q = p THEN d ELSE post[q]
  BY <1>1, <1>2, <1>3, <1>8 DEF CountPost, TypeOK
<1>11. \A q, z : OwedBy(q, z)' /\ q \in Requests => OwedBy(q, z)
  BY <1>5, <1>7 DEF OwedBy, SameRole
<1>12. job' = job
  BY DEF CountPost
<1>13. \A q \in Posts : Owed(q)' => Owed(q)
  BY <1>11, <1>12 DEF Owed, OwedByJob
<1>14. \A q \in Posts :
         /\ Created(q)' <=> Created(q)
         /\ Stored(q)' <=> Stored(q)
         /\ Ended(q)' <=> Ended(q)
         /\ post'[q].counted <=> post[q].counted \/ q = p
  BY <1>9, <1>10 DEF Created, Stored, Ended
<1>15. IsFiniteSet({q \in Posts : Created(q)})'
  <2>1. {q \in Posts : Created(q)}' = {q \in Posts : Created(q)}
    BY <1>14
  <2> QED
    BY <2>1 DEF CountInv
<1>16. (\A q \in Posts : ~Created(q) => ~post[q].counted)'
  BY <1>3, <1>14 DEF CountInv
<1>17. (\A q \in Posts : Owed(q) => Ended(q))'
  BY <1>13, <1>14 DEF CountInv
<1>18. (\A q \in Requests : ActsForAuthor(req[q]))'
  BY <1>5, <1>7 DEF CountInv, ActsForAuthor, SameRole
<1>19. OwedOnce'
  BY <1>11, <1>12 DEF CountInv, OwedOnce, OwedByJob
<1>20. user' = [user EXCEPT ![a].postsCount = @ + 1]
  BY <1>2, <1>3 DEF CountPost
<1>21. ASSUME NEW u \in Users PROVE Balanced(u)'
  <2>1. DueOf(u)' \subseteq DueOf(u)
    BY <1>13, <1>14 DEF DueOf
  <2>2. CASE u # a
    <3>1. UncountedOf(u)' = UncountedOf(u)
      BY <1>4, <1>14, <2>2 DEF UncountedOf
    <3>2. user'[u] = user[u]
      BY <1>1, <1>20, <2>2 DEF TypeOK
    <3> QED
      BY <1>1, <2>1, <3>1, <3>2, BalanceKept
  <2>3. CASE u = a
    <3>1. PICK D, D2, E : D = DueOf(u) /\ D2 = DueOf(u)' /\ E = UncountedOf(u)
      OBVIOUS
    <3>2. UncountedOf(u)' = E \ {p}
      BY <1>14, <3>1 DEF UncountedOf
    <3>3. IsFiniteSet(D) /\ IsFiniteSet(E)
      BY <3>1, CountedSetsFinite
    <3>4. /\ Cardinality(D2) \in Nat /\ Cardinality(D) \in Nat
          /\ Cardinality(D2) <= Cardinality(D)
      BY <2>1, <3>1, <3>3, FS_Subset, FS_CardinalityType
    <3>5. /\ Cardinality(E \ {p}) \in Nat /\ Cardinality(E) \in Nat
          /\ Cardinality(E) <= Cardinality(E \ {p}) + 1
      <4>1. /\ IsFiniteSet(E \ {p})
            /\ Cardinality(E \ {p}) = IF p \in E THEN Cardinality(E) - 1
                                                 ELSE Cardinality(E)
        BY <3>3, FS_RemoveElement
      <4> QED
        BY <3>3, <4>1, FS_CardinalityType
    <3>6. /\ user[u].postsCount \in Nat
          /\ user'[u].postsCount = user[u].postsCount + 1
          /\ user'[u].deleted = user[u].deleted
      BY <1>1, <1>20, <2>3 DEF TypeOK, UserDoc
    <3>7. ~user[u].deleted => Cardinality(D) <= user[u].postsCount + Cardinality(E)
      BY <3>1 DEF CountInv, Balanced
    <3>8. ~user'[u].deleted =>
            Cardinality(D2) <= user'[u].postsCount + Cardinality(E \ {p})
      BY <3>4, <3>5, <3>6, <3>7
    <3> QED
      BY <3>1, <3>2, <3>8 DEF Balanced
  <2> QED
    BY <2>2, <2>3
<1> QED
  BY <1>15, <1>16, <1>17, <1>18, <1>19, <1>21 DEF CountInv

(* Who removes a stored post is the only one to owe for it.                *)
LEMMA DeletePostCount ==
  ASSUME PostInv, PostInv', CountInv, NEW r \in Requests, DeletePost(r)
  PROVE  CountInv'
<1>1. TypeOK /\ TypeOK' /\ RequestOK(req[r])
  BY Parts DEF PostInv
<1>2. PICK x \in Request : x = req[r]
  BY <1>1 DEF TypeOK
<1>3. PICK p \in Posts :
        p = x.p /\ Stored(p) /\ x.pc = "resolved" /\ x.op = "delete"
  BY <1>1, <1>2 DEF DeletePost, RequestOK
<1>4. PICK y \in Request : y = [x EXCEPT !.pc = "removed"]
  BY GotoRecord
<1>5. y.pc = "removed" /\ y.u = x.u /\ y.p = x.p
  BY <1>4, GotoRecord
<1>6. Mark([req EXCEPT ![r] = y], {}, {p}, {}) /\ UNCHANGED <<user, job>>
  BY <1>2, <1>3, <1>4 DEF DeletePost, Goto
<1>7. /\ req'[r] = y
      /\ \A q \in Requests \ {r} : SameRole(req[q], req'[q])
  BY <1>1, <1>5, <1>6, RolesKept
<1>8. PICK d : /\ d = Gone(p, "deleted")
               /\ d.counted = post[p].counted /\ d.life = "deleted"
  BY <1>1, GoneCounted
<1>9. \A q \in Posts : post'[q] = IF q = p THEN d ELSE post[q]
  BY <1>1, <1>2, <1>3, <1>8 DEF DeletePost, TypeOK
<1>10. /\ Created(p) /\ ~Ended(p) /\ ~Owed(p) /\ Ended(p)'
       /\ \A q \in Posts :
            /\ Created(q)' <=> Created(q)
            /\ Stored(q)' => Stored(q)
            /\ post'[q].counted = post[q].counted
            /\ Ended(q) => Ended(q)'
  BY <1>3, <1>8, <1>9 DEF CountInv, Created, Stored, Ended
<1>11. \A q \in Requests, z \in Posts :
         OwedBy(q, z)' <=> IF q = r THEN z = p ELSE OwedBy(q, z)
  BY <1>3, <1>5, <1>7 DEF OwedBy, SameRole
<1>12. \A j \in Jobs, z \in Posts : OwedByJob(j, z)' <=> OwedByJob(j, z)
  BY <1>6 DEF OwedByJob
<1>13. \A z \in Posts : Owed(z)' => Owed(z) \/ z = p
  BY <1>11, <1>12 DEF Owed
<1>14. \A q \in Posts : Owed(q)' => Ended(q)' /\ (Stored(q) \/ Owed(q))
  BY <1>3, <1>10, <1>13 DEF CountInv
<1>15. OwedOnce'
  <2>1. /\ \A q \in Requests : ~OwedBy(q, p)
        /\ \A j \in Jobs : ~OwedByJob(j, p)
    BY <1>10 DEF Owed
  <2>2. ASSUME NEW z \in Posts
        PROVE  /\ \A q, s \in Requests : OwedBy(q, z)' /\ OwedBy(s, z)' => q = s
               /\ \A j, k \in Jobs : OwedByJob(j, z)' /\ OwedByJob(k, z)' => j = k
               /\ \A q \in Requests, j \in Jobs : ~(OwedBy(q, z)' /\ OwedByJob(j, z)')
    <3>1. CASE z = p
      <4>1. \A q \in Requests : OwedBy(q, z)' => q = r
        BY <1>11, <2>1, <3>1
      <4>2. \A j \in Jobs : ~OwedByJob(j, z)'
        BY <1>12, <2>1, <3>1
      <4> QED
        BY <4>1, <4>2
    <3>2. CASE z # p
      <4>1. \A q \in Requests : OwedBy(q, z)' => OwedBy(q, z)
        BY <1>11, <3>2
      <4> QED
        BY <1>12, <4>1 DEF CountInv, OwedOnce
    <3> QED
      BY <3>1, <3>2
  <2> QED
    BY <2>2 DEF OwedOnce
<1>16. ActsForAuthor(y)
  BY <1>2, <1>3, <1>5 DEF CountInv, ActsForAuthor
<1>17. \A q \in Requests : ActsForAuthor(req'[q])
  <2>1. \A q \in Requests \ {r} : ActsForAuthor(req'[q])
    BY <1>7 DEF CountInv, ActsForAuthor, SameRole
  <2> QED
    BY <1>7, <1>16, <2>1
<1> QED
  BY <1>6, <1>10, <1>14, <1>15, <1>17, CountKept

LEMMA RemoveExpiredCount ==
  ASSUME PostInv, PostInv', CountInv, NEW j \in Jobs, RemoveExpired(j)
  PROVE  CountInv'
<1>1. TypeOK /\ TypeOK' /\ JobOK(j)
  BY Parts DEF PostInv
<1>2. PICK x \in Job : x = job[j]
  BY <1>1 DEF TypeOK
<1>3. PICK p \in Posts : p = x.p /\ Stored(p) /\ x.pc = "removed"
  BY <1>1, <1>2 DEF RemoveExpired, JobOK
<1>4. PICK y \in Job :
        y = [x EXCEPT !.pc = "decrement"] /\ y.pc = "decrement" /\ y.p = x.p
  <2>1. PICK z \in Job : z = [x EXCEPT !.pc = "decrement"]
    BY JobGotoRecord
  <2>2. z.pc = "decrement" /\ z.p = x.p
    BY <2>1, JobGotoRecord
  <2> QED
    BY <2>1, <2>2
<1>5. job' = [job EXCEPT ![j] = y] /\ Mark(req, {}, {p}, {}) /\ UNCHANGED user
  BY <1>2, <1>3, <1>4 DEF RemoveExpired, JobGoto
<1>6. \A q \in Requests : SameRole(req[q], req'[q])
  BY <1>1, <1>5, AllRolesKept
<1>7. PICK d : /\ d = Gone(p, "cleaned")
               /\ d.counted = post[p].counted /\ d.life = "cleaned"
  BY <1>1, GoneCounted
<1>8. \A q \in Posts : post'[q] = IF q = p THEN d ELSE post[q]
  BY <1>1, <1>2, <1>3, <1>7 DEF RemoveExpired, TypeOK
<1>9. /\ Created(p) /\ ~Ended(p) /\ ~Owed(p) /\ Ended(p)'
      /\ \A q \in Posts :
           /\ Created(q)' <=> Created(q)
           /\ Stored(q)' => Stored(q)
           /\ post'[q].counted = post[q].counted
           /\ Ended(q) => Ended(q)'
  BY <1>3, <1>7, <1>8 DEF CountInv, Created, Stored, Ended
<1>10. \A q \in Requests, z \in Posts : OwedBy(q, z)' <=> OwedBy(q, z)
  BY <1>6 DEF OwedBy, SameRole
<1>11. \A k \in Jobs, z \in Posts :
         OwedByJob(k, z)' <=> IF k = j THEN z = p ELSE OwedByJob(k, z)
  BY <1>1, <1>3, <1>4, <1>5 DEF OwedByJob, TypeOK
<1>12. \A z \in Posts : Owed(z)' => Owed(z) \/ z = p
  BY <1>10, <1>11 DEF Owed
<1>13. \A q \in Posts : Owed(q)' => Ended(q)' /\ (Stored(q) \/ Owed(q))
  BY <1>3, <1>9, <1>12 DEF CountInv
<1>14. OwedOnce'
  <2>1. /\ \A q \in Requests : ~OwedBy(q, p)
        /\ \A k \in Jobs : ~OwedByJob(k, p)
    BY <1>9 DEF Owed
  <2>2. ASSUME NEW z \in Posts
        PROVE  /\ \A q, s \in Requests : OwedBy(q, z)' /\ OwedBy(s, z)' => q = s
               /\ \A i, k \in Jobs : OwedByJob(i, z)' /\ OwedByJob(k, z)' => i = k
               /\ \A q \in Requests, k \in Jobs : ~(OwedBy(q, z)' /\ OwedByJob(k, z)')
    <3>1. CASE z = p
      <4>1. \A k \in Jobs : OwedByJob(k, z)' => k = j
        BY <1>11, <2>1, <3>1
      <4>2. \A q \in Requests : ~OwedBy(q, z)'
        BY <1>10, <2>1, <3>1
      <4> QED
        BY <4>1, <4>2
    <3>2. CASE z # p
      <4>1. \A k \in Jobs : OwedByJob(k, z)' => OwedByJob(k, z)
        BY <1>11, <3>2
      <4> QED
        BY <1>10, <4>1 DEF CountInv, OwedOnce
    <3> QED
      BY <3>1, <3>2
  <2> QED
    BY <2>2 DEF OwedOnce
<1>15. \A q \in Requests : ActsForAuthor(req'[q])
  BY <1>6 DEF CountInv, ActsForAuthor, SameRole
<1> QED
  BY <1>5, <1>9, <1>13, <1>14, <1>15, CountKept

(* What was owed for a post is paid, or the payment has failed.            *)
LEMMA Paid ==
  ASSUME PostInv, PostInv', CountInv, NEW p \in Posts, NEW a \in Users,
         a = AuthorOf[p], Owed(p),
         user' = [user EXCEPT ![a].postsCount = Dec(@)], post' = post,
         \A q \in Posts : Owed(q)' => Owed(q) /\ q # p,
         \A q \in Requests : ActsForAuthor(req'[q]),
         OwedOnce'
  PROVE  CountInv'
<1>1. TypeOK /\ TypeOK'
  BY DEF PostInv
<1>2. /\ IsFiniteSet({q \in Posts : Created(q)})'
      /\ (\A q \in Posts : ~Created(q) => ~post[q].counted)'
      /\ (\A q \in Posts : Owed(q) => Ended(q))'
  BY DEF CountInv, Created, Ended, Stored
<1>3. ASSUME NEW u \in Users PROVE Balanced(u)'
  <2>1. UncountedOf(u)' = UncountedOf(u)
    BY DEF UncountedOf, Created
  <2>2. CASE u # a
    <3>1. DueOf(u)' \subseteq DueOf(u)
      BY DEF DueOf, Stored
    <3>2. user'[u] = user[u]
      BY <1>1, <2>2 DEF TypeOK
    <3> QED
      BY <1>1, <2>1, <3>1, <3>2, BalanceKept
  <2>3. CASE u = a
    <3>1. PICK D, D2, E : D = DueOf(u) /\ D2 = DueOf(u)' /\ E = UncountedOf(u)
      OBVIOUS
    <3>2. ~Stored(p) /\ p \in D
      BY <2>3, <3>1 DEF CountInv, DueOf, Ended
    <3>3. D2 \subseteq D \ {p}
      BY <3>1, <3>2 DEF DueOf, Stored
    <3>4. IsFiniteSet(D) /\ IsFiniteSet(E)
      BY <3>1, CountedSetsFinite
    <3>5. IsFiniteSet(D \ {p}) /\ Cardinality(D \ {p}) = Cardinality(D) - 1
      BY <3>2, <3>4, FS_RemoveElement
    <3>6. /\ Cardinality(D2) \in Nat /\ Cardinality(D) \in Nat /\ Cardinality(E) \in Nat
          /\ Cardinality(D2) <= Cardinality(D) - 1
      BY <3>3, <3>4, <3>5, FS_Subset, FS_CardinalityType
    <3>7. /\ user[u].postsCount \in Nat
          /\ user'[u].postsCount = Dec(user[u].postsCount)
          /\ user'[u].deleted = user[u].deleted
      BY <1>1, <2>3 DEF TypeOK, UserDoc
    <3>8. ~user[u].deleted => Cardinality(D) <= user[u].postsCount + Cardinality(E)
      BY <3>1 DEF CountInv, Balanced
    <3>9. ~user'[u].deleted => Cardinality(D2) <= user'[u].postsCount + Cardinality(E)
      BY <3>6, <3>7, <3>8 DEF Dec
    <3> QED
      BY <2>1, <3>1, <3>9 DEF Balanced
  <2> QED
    BY <2>2, <2>3
<1> QED
  BY <1>2, <1>3 DEF CountInv

LEMMA DecrementPostCountCount ==
  ASSUME PostInv, PostInv', CountInv, NEW r \in Requests, DecrementPostCount(r)
  PROVE  CountInv'
<1>1. TypeOK /\ TypeOK' /\ RequestOK(req[r])
  BY Parts DEF PostInv
<1>2. PICK x \in Request : x = req[r]
  BY <1>1 DEF TypeOK
<1>3. PICK p \in Posts, a \in Users : p = x.p /\ a = x.u /\ x.pc = "removed"
  BY <1>1, <1>2 DEF DecrementPostCount, RequestOK
<1>4. a = AuthorOf[p]
  BY <1>2, <1>3 DEF CountInv, ActsForAuthor
<1>5. PICK y \in Request : y = [x EXCEPT !.pc = "images"] /\ y.pc = "images"
  <2>1. PICK z \in Request : z = [x EXCEPT !.pc = "images"]
    BY GotoRecord
  <2>2. z.pc = "images"
    BY <2>1, GotoRecord
  <2> QED
    BY <2>1, <2>2
<1>6. ActsForAuthor(y) /\ UNCHANGED <<post, job>>
  BY <1>5 DEF ActsForAuthor, DecrementPostCount
<1>7. CASE user' = user /\ req' = Goto(r, "images")
  <2>1. req' = [req EXCEPT ![r] = y]
    BY <1>2, <1>5, <1>7 DEF Goto
  <2> QED
    BY <1>5, <1>6, <1>7, <2>1, PlainRequestCount
<1>8. CASE /\ user' = [user EXCEPT ![a].postsCount = Dec(@)]
           /\ Mark(Goto(r, "images"), {a}, {}, {})
  <2>1. Mark([req EXCEPT ![r] = y], {a}, {}, {})
    BY <1>2, <1>5, <1>8 DEF Goto
  <2>2. /\ req'[r] = y
        /\ \A q \in Requests \ {r} : SameRole(req[q], req'[q])
    BY <1>1, <1>5, <2>1, RolesKept
  <2>3. \A q \in Requests : \A z : OwedBy(q, z)' => OwedBy(q, z) /\ q # r
    BY <1>5, <2>2 DEF OwedBy, SameRole
  <2>4. \A j \in Jobs : \A z : OwedByJob(j, z)' => OwedByJob(j, z)
    BY <1>6 DEF OwedByJob
  <2>5. OwedBy(r, p)
    BY <1>2, <1>3 DEF OwedBy
  <2>6. /\ \A q \in Requests \ {r} : ~OwedBy(q, p)
        /\ \A j \in Jobs : ~OwedByJob(j, p)
    BY <2>5 DEF CountInv, OwedOnce
  <2>7. \A z \in Posts : Owed(z)' => Owed(z) /\ z # p
    BY <2>3, <2>4, <2>6 DEF Owed
  <2>8. OwedOnce'
    BY <2>3, <2>4 DEF CountInv, OwedOnce
  <2>9. \A q \in Requests : ActsForAuthor(req'[q])
    <3>1. \A q \in Requests \ {r} : ActsForAuthor(req'[q])
      BY <2>2 DEF CountInv, ActsForAuthor, SameRole
    <3> QED
      BY <1>6, <2>2, <3>1
  <2>10. Owed(p)
    BY <2>5 DEF Owed
  <2> QED
    BY <1>4, <1>6, <1>8, <2>7, <2>8, <2>9, <2>10, Paid
<1> QED
  BY <1>2, <1>3, <1>7, <1>8 DEF DecrementPostCount

LEMMA DecrementAuthorCount ==
  ASSUME PostInv, PostInv', CountInv, NEW j \in Jobs, DecrementAuthor(j)
  PROVE  CountInv'
<1>1. TypeOK /\ TypeOK' /\ JobOK(j)
  BY Parts DEF PostInv
<1>2. PICK p \in Posts, a \in Users :
        p = job[j].p /\ a = AuthorOf[p] /\ job[j].pc = "decrement"
  BY <1>1, PostsAssumption DEF DecrementAuthor, JobOK
<1>3. job' = [job EXCEPT ![j] = IdleJob] /\ post' = post
  BY DEF DecrementAuthor, JobDone
<1>4. CASE UNCHANGED <<user, req>>
  <2>1. PostsQuiet
    BY <1>3 DEF PostsQuiet, Created, Stored
  <2> QED
    BY <1>3, <1>4, <2>1, IdleJobType, JobCountQuiet
<1>5. CASE /\ user' = [user EXCEPT ![a].postsCount = Dec(@)]
           /\ Mark(req, {a}, {}, {})
  <2>1. \A q \in Requests : SameRole(req[q], req'[q])
    BY <1>1, <1>5, AllRolesKept
  <2>2. \A q \in Requests : \A z : OwedBy(q, z)' => OwedBy(q, z)
    BY <2>1 DEF OwedBy, SameRole
  <2>3. \A k \in Jobs : \A z : OwedByJob(k, z)' => OwedByJob(k, z) /\ k # j
    BY <1>1, <1>3, IdleJobType DEF OwedByJob, TypeOK
  <2>4. OwedByJob(j, p)
    BY <1>2 DEF OwedByJob
  <2>5. /\ \A q \in Requests : ~OwedBy(q, p)
        /\ \A k \in Jobs \ {j} : ~OwedByJob(k, p)
    BY <2>4 DEF CountInv, OwedOnce
  <2>6. \A z \in Posts : Owed(z)' => Owed(z) /\ z # p
    BY <2>2, <2>3, <2>5 DEF Owed
  <2>7. OwedOnce'
    BY <2>2, <2>3 DEF CountInv, OwedOnce
  <2>8. \A q \in Requests : ActsForAuthor(req'[q])
    BY <2>1 DEF CountInv, ActsForAuthor, SameRole
  <2>9. Owed(p)
    BY <2>4 DEF Owed
  <2> QED
    BY <1>2, <1>3, <1>5, <2>6, <2>7, <2>8, <2>9, Paid
<1> QED
  BY <1>2, <1>4, <1>5 DEF DecrementAuthor

-----------------------------------------------------------------------------
LEMMA CountInit == Init => CountInv
<1> SUFFICES ASSUME Init PROVE CountInv
  OBVIOUS
<1>1. \A p \in Posts : /\ ~Created(p) /\ ~Stored(p) /\ ~post[p].counted
  BY DEF Init, NewPost, Created, Stored
<1>2. \A r \in Requests : \A p : ~OwedBy(r, p)
  BY DEF Init, IdleRequest, OwedBy
<1>3. \A j \in Jobs : \A p : ~OwedByJob(j, p)
  BY DEF Init, IdleJob, OwedByJob
<1>4. \A p : ~Owed(p)
  BY <1>2, <1>3 DEF Owed
<1>5. {p \in Posts : Created(p)} = {}
  BY <1>1
<1>6. \A u \in Users : DueOf(u) = {} /\ UncountedOf(u) = {} /\ user[u].postsCount = 0
  BY <1>1, <1>4 DEF DueOf, UncountedOf, Init
<1>7. \A u \in Users : Balanced(u)
  BY <1>6, FS_EmptySet DEF Balanced
<1>8. \A r \in Requests : ActsForAuthor(req[r])
  BY DEF Init, IdleRequest, ActsForAuthor
<1> QED
  BY <1>1, <1>2, <1>3, <1>4, <1>5, <1>7, <1>8, FS_EmptySet DEF CountInv, OwedOnce

LEMMA CountStep == PostInv /\ PostInv' /\ CountInv /\ [Next]_vars => CountInv'
<1> SUFFICES ASSUME PostInv, PostInv', CountInv, [Next]_vars PROVE CountInv'
  OBVIOUS
<1>1. ASSUME NEW r \in Requests, Start(r) PROVE CountInv'
  <2>1. ASSUME NEW p \in Posts, StartDelete(r, p) PROVE CountInv'
    <3>1. PICK u \in Users : u = AuthorOf[p]
      BY PostsAssumption
    <3> QED
      BY <2>1, <3>1, StartCount DEF StartDelete
  <2>2. ASSUME NEW op \in {"react", "remove"}, NEW u \in Users, NEW p \in Posts,
               StartReaction(r, op, u, p)
        PROVE  CountInv'
    BY <2>2, StartCount DEF StartReaction
  <2> QED
    BY <1>1, <2>1, <2>2, StartCreateCount, StartDeleteAccountCount DEF Start
<1>2. ASSUME NEW r \in Requests, CreateStep(r) PROVE CountInv'
  <2>1. NotInserted(r) \/ FinishCreate(r) => CountInv'
    BY EndCount DEF NotInserted, FinishCreate
  <2> QED
    BY <1>2, <2>1, InsertCount, CountPostCount, FailCreateCount, CompensateCount
    DEF CreateStep
<1>3. ASSUME NEW r \in Requests, DeleteStep(r) PROVE CountInv'
  <2>1. DeleteItsImages(r) => CountInv'
    BY EndCount DEF DeleteItsImages
  <2> QED
    BY <1>3, <2>1, DeletePostCount, DecrementPostCountCount DEF DeleteStep
<1>4. ASSUME NEW r \in Requests, ReactionStep(r) PROVE CountInv'
  BY <1>4, TransactionCount, ReactionCount DEF ReactionStep
<1>5. ASSUME NEW r \in Requests, AccountStep(r) PROVE CountInv'
  <2>1. PurgeImages(r) => CountInv'
    BY EndCount DEF PurgeImages
  <2> QED
    BY <1>5, <2>1, TransactionCount, DeleteCommitCount DEF AccountStep
<1>6. ASSUME NEW r \in Requests, Abandon(r) PROVE CountInv'
  BY <1>6, EndCount DEF Abandon
<1>7. ASSUME NEW j \in Jobs, JobStep(j) \/ Crash(j) PROVE CountInv'
  BY <1>7, JobCount, RemoveExpiredCount, DecrementAuthorCount DEF JobStep
<1>8. ASSUME NEW p \in Posts, Expire(p) \/ LockRunsOut(p) PROVE CountInv'
  BY <1>8, TimeCount
<1>9. CASE UNCHANGED vars
  <2>1. PostsQuiet
    BY <1>9 DEF vars, PostsQuiet, Created, Stored
  <2> QED
    BY <1>9, <2>1, JobCountQuiet DEF vars
<1> QED
  BY <1>1, <1>2, <1>3, <1>4, <1>5, <1>6, <1>7, <1>8, <1>9 DEF Next

(* A profile never counts fewer posts than it has, but for those not       *)
(* counted yet, though creation, deletion, the clean-up and its crashes    *)
(* leave the count and the posts to separate writes                        *)
(* (expired-post-cleanup.service.ts:137).                                  *)
THEOREM PostsCountCorrect == Spec => []PostsCountNotTooLow
<1>1. PostInv /\ PostInv' /\ CountInv /\ [Next]_vars => CountInv'
  BY CountStep
<1>2. ASSUME PostInv, CountInv PROVE PostsCountNotTooLow
  <2> SUFFICES ASSUME NEW u \in Users, ~user[u].deleted
               PROVE  Cardinality({p \in Posts : AuthorOf[p] = u /\ Stored(p)})
                        <= user[u].postsCount + Cardinality(UncountedOf(u))
    BY DEF PostsCountNotTooLow
  <2>1. PICK S, D, E : /\ S = {p \in Posts : AuthorOf[p] = u /\ Stored(p)}
                       /\ D = DueOf(u) /\ E = UncountedOf(u)
    OBVIOUS
  <2>2. IsFiniteSet(D) /\ IsFiniteSet(E) /\ S \subseteq D
    BY <1>2, <2>1, CountedSetsFinite DEF DueOf
  <2>3. /\ Cardinality(S) \in Nat /\ Cardinality(D) \in Nat /\ Cardinality(E) \in Nat
        /\ Cardinality(S) <= Cardinality(D)
    BY <2>2, FS_Subset, FS_CardinalityType
  <2>4. user[u].postsCount \in Nat
    BY <1>2 DEF PostInv, TypeOK, UserDoc
  <2>5. Cardinality(D) <= user[u].postsCount + Cardinality(E)
    BY <1>2, <2>1 DEF CountInv, Balanced
  <2> QED
    BY <2>1, <2>3, <2>4, <2>5
<1> QED
  BY <1>1, <1>2, CountInit, PostEngagementCorrect, PTL DEF Spec
=============================================================================
