---------------------------- MODULE AtomicPosts ----------------------------
(***************************************************************************)
(* What readers of posts are promised: a post is shown once, for a while;  *)
(* each account likes it or does not; and the number beside it is raised   *)
(* and lowered together with that.  An account that leaves takes posts and *)
(* likes with it in one step.                                              *)
(***************************************************************************)
EXTENDS Integers, FiniteSets

CONSTANTS Users, Posts

VARIABLES
  shown,   \* posts that are visible
  past,    \* posts that were
  likers,  \* who likes a visible post
  count    \* the number beside it

vars == <<shown, past, likers, count>>

Init ==
  /\ shown = {}
  /\ past = {}
  /\ likers = [p \in Posts |-> {}]
  /\ count = [p \in Posts |-> 0]

Publish(p) ==
  /\ p \notin shown \cup past
  /\ shown' = shown \cup {p}
  /\ UNCHANGED <<past, likers, count>>

Like(u, p) ==
  /\ p \in shown /\ u \notin likers[p]
  /\ likers' = [likers EXCEPT ![p] = @ \cup {u}]
  /\ count' = [count EXCEPT ![p] = @ + 1]
  /\ UNCHANGED <<shown, past>>

Unlike(u, p) ==
  /\ p \in shown /\ u \in likers[p]
  /\ likers' = [likers EXCEPT ![p] = @ \ {u}]
  /\ count' = [count EXCEPT ![p] = @ - 1]
  /\ UNCHANGED <<shown, past>>

(* The posts ps are withdrawn; the account u takes back its likes of qs.   *)
TakeBack(ps, u, qs) ==
  /\ ps \subseteq shown
  /\ qs \subseteq {q \in shown \ ps : u \in likers[q]}
  /\ shown' = shown \ ps
  /\ past' = past \cup ps
  /\ likers' = [p \in Posts |-> IF p \in ps THEN {}
                                ELSE IF p \in qs THEN likers[p] \ {u}
                                ELSE likers[p]]
  /\ count' = [p \in Posts |-> IF p \in ps THEN 0
                               ELSE IF p \in qs THEN count[p] - 1
                               ELSE count[p]]

Withdraw(p) == p \in shown /\ \E u \in Users : TakeBack({p}, u, {})

Leave(u) == \E ps, qs \in SUBSET Posts : TakeBack(ps, u, qs)

Next ==
  \/ \E p \in Posts : Publish(p) \/ Withdraw(p)
  \/ \E u \in Users, p \in Posts : Like(u, p) \/ Unlike(u, p)
  \/ \E u \in Users : Leave(u)

Spec == Init /\ [][Next]_vars
=============================================================================
