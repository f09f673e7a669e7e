-------------------------- MODULE AtomicSocialGraph --------------------------
(***************************************************************************)
(* What follow, unfollow, block, unblock and account deletion promise:     *)
(* each is one step on the whole graph, decided by the graph and the       *)
(* accounts as they are at that step.                                      *)
(***************************************************************************)
CONSTANT Users

VARIABLES
  live,     \* accounts that are not deleted
  active,   \* accounts whose status is active
  follows,  \* <<a, b>>: a follows b
  blocks    \* <<a, b>>: a has blocked b

vars == <<live, active, follows, blocks>>

Usable(u) == u \in live \cap active

Between(a, b) == {<<a, b>>, <<b, a>>}

Touching(u) == {e \in Users \X Users : e[1] = u \/ e[2] = u}

Follow(a, b) ==
  /\ a # b
  /\ Usable(a) /\ Usable(b)
  /\ <<a, b>> \notin follows
  /\ blocks \cap Between(a, b) = {}
  /\ follows' = follows \cup {<<a, b>>}
  /\ UNCHANGED <<live, active, blocks>>

Unfollow(a, b) ==
  /\ Usable(a) /\ b \in live
  /\ <<a, b>> \in follows
  /\ follows' = follows \ {<<a, b>>}
  /\ UNCHANGED <<live, active, blocks>>

Block(a, b) ==
  /\ a # b
  /\ Usable(a) /\ Usable(b)
  /\ <<a, b>> \notin blocks
  /\ blocks' = blocks \cup {<<a, b>>}
  /\ follows' = follows \ Between(a, b)
  /\ UNCHANGED <<live, active>>

Unblock(a, b) ==
  /\ <<a, b>> \in blocks
  /\ blocks' = blocks \ {<<a, b>>}
  /\ UNCHANGED <<live, active, follows>>

Delete(u) ==
  /\ Usable(u)
  /\ live' = live \ {u}
  /\ follows' = follows \ Touching(u)
  /\ blocks' = blocks \ Touching(u)
  /\ UNCHANGED active

(* The operator suspends an account or reinstates it.                      *)
SetStatus(u) ==
  /\ u \in live
  /\ active' = IF u \in active THEN active \ {u} ELSE active \cup {u}
  /\ UNCHANGED <<live, follows, blocks>>

Init ==
  /\ live = Users
  /\ active = Users
  /\ follows = {}
  /\ blocks = {}

Next ==
  \/ \E a, b \in Users :
       Follow(a, b) \/ Unfollow(a, b) \/ Block(a, b) \/ Unblock(a, b)
  \/ \E u \in Users : Delete(u) \/ SetStatus(u)

Spec == Init /\ [][Next]_vars
=============================================================================
