------------------------- MODULE OneTimeGrants_proofs -------------------------
(***************************************************************************)
(* Proofs about OneTimeGrants, for any number of flows, browsers, requests *)
(* and accounts.                                                           *)
(***************************************************************************)
EXTENDS OneTimeGrants, TLAPS

-----------------------------------------------------------------------------
(* Requests                                                                *)

CallOK(r) == RequestOK(r) /\ PendingOK(r) /\ OpenOK(r) /\ DeliverOK(r)

LEMMA IdleType == Idle \in Call
  BY DEF Idle, Call, Cookies

(* What a call is made of.                                                 *)
LEMMA CallFields ==
  ASSUME TypeOK, NEW c \in Calls
  PROVE  /\ call[c] \in Call
         /\ call[c].b \in Browsers \cup {NoBrowser}
         /\ call[c].f \in Flows \cup {NoFlow}
         /\ call[c].k \in Cookies
         /\ call[c].x \in Subjects \cup {NoSubject}
         /\ call[c].u \in Users \cup {NoUser}
         /\ call[c].stale \in BOOLEAN
<1>1. call[c] \in Call
  BY DEF TypeOK
<1> QED
  BY <1>1 DEF Call

(* What the invariant says of one call.                                    *)
LEMMA CallFacts ==
  ASSUME GrantsInv, NEW c \in Calls
  PROVE  CallOK(call[c])
  BY DEF GrantsInv, CallInv, CallOK

(* A record that is neither in a flow nor about to clear a cookie of none. *)
LEMMA IdleOK == CallOK(Idle)
  BY DEF CallOK, Idle, RequestOK, PendingOK, OpenOK, DeliverOK, Pending, Open

(* An answer that only clears a cookie.                                    *)
LEMMA ClearingOK ==
  ASSUME NEW b \in Browsers, NEW k \in Cookies
  PROVE  LET r == [Idle EXCEPT !.pc = "clear", !.b = b, !.k = k]
         IN  r \in Call /\ CallOK(r)
<1>1. [Idle EXCEPT !.pc = "clear", !.b = b, !.k = k] \in Call
  BY IdleType DEF Call
<1>2. CallOK([Idle EXCEPT !.pc = "clear", !.b = b, !.k = k])
  BY DEF CallOK, Idle, RequestOK, PendingOK, OpenOK, DeliverOK, Pending, Open
<1> QED
  BY <1>1, <1>2

(* Marking changes nothing of a call but its flag, which it never clears.  *)
LEMMA WrittenEffect ==
  ASSUME NEW r \in [Calls -> Call], NEW us, NEW fs, NEW xs, Written(us, fs, xs, r)
  PROVE  /\ call' \in [Calls -> Call]
         /\ \A c \in Calls :
              /\ call'[c].pc = r[c].pc /\ call'[c].b = r[c].b
              /\ call'[c].f = r[c].f /\ call'[c].k = r[c].k
              /\ call'[c].x = r[c].x /\ call'[c].u = r[c].u
              /\ call'[c].pc \in Open /\ ~call'[c].stale =>
                   /\ ~r[c].stale
                   /\ r[c].u \notin us /\ r[c].f \notin fs /\ r[c].x \notin xs
<1>1. \A c \in Calls :
        call'[c] = IF r[c].pc \in Open
                      /\ (r[c].u \in us \/ r[c].f \in fs \/ r[c].x \in xs)
                   THEN [r[c] EXCEPT !.stale = TRUE] ELSE r[c]
  BY DEF Written
<1>2. \A s \in Call : [s EXCEPT !.stale = TRUE] \in Call
  BY DEF Call
<1>3. call' \in [Calls -> Call]
  BY <1>1, <1>2 DEF Written
<1> QED
  BY <1>1, <1>3 DEF Call

-----------------------------------------------------------------------------
(* Steps that change a call and its cookies                                *)

LEMMA QuietStep ==
  ASSUME GrantsInv, NEW c \in Calls, NEW r \in Call,
         call' = [call EXCEPT ![c] = r],
         cookie' \in [Browsers -> [Cookies -> Flows \cup {NoFlow}]],
         \A b \in Browsers : \A k \in Cookies :
           cookie'[b][k] # NoFlow => by[cookie'[b][k]] = b,
         UNCHANGED <<doc, grant, by, accounts, ghosts>>,
         CallOK(r),
         r.pc \in Pending => call[c].pc \in Pending /\ call[c].f = r.f,
         r.pc # "deliver"
  PROVE  GrantsInv'
<1>1. \A d \in Calls : call'[d] = IF d = c THEN r ELSE call[d]
  BY DEF GrantsInv, TypeOK
<1>2. TypeOK'
  BY DEF GrantsInv, TypeOK, accounts, ghosts
<1>3. \A d \in Calls : CallOK(call'[d])
  BY <1>1, CallFacts
<1>4. \A s : /\ RequestOK(s)' <=> RequestOK(s)
             /\ PendingOK(s)' <=> PendingOK(s)
             /\ OpenOK(s)' <=> OpenOK(s)
             /\ DeliverOK(s)' <=> DeliverOK(s)
  BY DEF accounts, ghosts, RequestOK, PendingOK, OpenOK, DeliverOK,
         SubjectTaken, Linked, HasEmail
<1>5. CallInv'
  BY <1>3, <1>4 DEF CallInv, CallOK
<1>6. AloneInv'
  BY <1>1 DEF GrantsInv, AloneInv
<1>7. FlowInv' /\ LinkedInv'
  BY DEF GrantsInv, FlowInv, LinkedInv, accounts, ghosts
<1>8. OneExchangePerState' /\ GrantIsItsEffect' /\ TokensDeliveredOnce'
  BY DEF GrantsInv, OneExchangePerState, GrantIsItsEffect, TokensDeliveredOnce, ghosts
<1>9. OneToOne' /\ AsGranted'
  BY DEF GrantsInv, OneToOne, AsGranted, HasEmail, accounts, ghosts
<1>10. BoundToBrowser'
  BY DEF BoundToBrowser
<1> QED
  BY <1>2, <1>5, <1>6, <1>7, <1>8, <1>9, <1>10 DEF GrantsInv

(* The same, when no cookie changes.                                       *)
LEMMA QuietCall ==
  ASSUME GrantsInv, NEW c \in Calls, NEW r \in Call,
         call' = [call EXCEPT ![c] = r],
         UNCHANGED <<doc, grant, by, cookie, accounts, ghosts>>,
         CallOK(r),
         r.pc \in Pending => call[c].pc \in Pending /\ call[c].f = r.f,
         r.pc # "deliver"
  PROVE  GrantsInv'
<1>1. cookie' \in [Browsers -> [Cookies -> Flows \cup {NoFlow}]]
  BY DEF GrantsInv, TypeOK
<1>2. \A b \in Browsers : \A k \in Cookies :
        cookie'[b][k] # NoFlow => by[cookie'[b][k]] = b
  BY DEF GrantsInv, BoundToBrowser
<1> QED
  BY <1>1, <1>2, QuietStep

LEMMA QuietClearing ==
  ASSUME GrantsInv, NEW c \in Calls, NEW k \in Cookies,
         call[c].pc # "idle", call' = Clearing(c, k),
         UNCHANGED <<doc, grant, by, cookie, accounts, ghosts>>
  PROVE  GrantsInv'
<1> DEFINE r == [Idle EXCEPT !.pc = "clear", !.b = call[c].b, !.k = k]
<1>1. call[c].b \in Browsers
  BY CallFacts DEF CallOK, RequestOK
<1>2. r \in Call /\ CallOK(r)
  BY <1>1, ClearingOK
<1>3. r.pc = "clear" /\ "clear" \notin Pending
  BY DEF Idle, Pending
<1>4. call' = [call EXCEPT ![c] = r]
  BY DEF Clearing
<1> HIDE DEF r
<1> QED
  BY <1>2, <1>3, <1>4, QuietCall

LEMMA CallbackStepQuiet ==
  ASSUME GrantsInv, NEW c \in Calls, NEW b \in Browsers, NEW f \in Flows,
         Callback(c, b, f)
  PROVE  GrantsInv'
<1> DEFINE r == [Idle EXCEPT !.pc = IF cookie[b]["state"] = f THEN "consume" ELSE "clear",
                             !.b = b, !.f = f]
<1>1. r \in Call
  BY IdleType DEF Call
<1>2. /\ r.pc = IF cookie[b]["state"] = f THEN "consume" ELSE "clear"
      /\ r.b = b /\ r.f = f
  BY DEF Idle
<1>3. r.pc = "consume" => by[f] = b
  <2>1. "state" \in Cookies /\ f # NoFlow
    BY NoneAssumption DEF Cookies
  <2> QED
    BY <1>2, <2>1 DEF GrantsInv, BoundToBrowser
<1>4. call' = [call EXCEPT ![c] = r] /\ UNCHANGED <<doc, grant, by, cookie, accounts, ghosts>>
  BY DEF Callback
<1> HIDE DEF r
<1>5. CallOK(r)
  BY <1>2, <1>3 DEF CallOK, RequestOK, PendingOK, OpenOK, DeliverOK, Pending, Open
<1>6. r.pc \notin Pending /\ r.pc # "deliver"
  BY <1>2 DEF Pending
<1> QED
  BY <1>1, <1>4, <1>5, <1>6, QuietCall

LEMMA ResolveIdentityQuiet ==
  ASSUME GrantsInv, NEW c \in Calls, ResolveIdentity(c)
  PROVE  GrantsInv'
<1>1. call[c] \in Call /\ call[c].pc = "identity"
  BY CallFields DEF GrantsInv, ResolveIdentity
<1>2. PICK r \in Call :
        /\ call' = [call EXCEPT ![c] = r]
        /\ r.pc \in {"signIn", "byEmail"}
        /\ r.b = call[c].b /\ r.f = call[c].f /\ r.x = call[c].x
  <2>1. CASE \E u \in Users : call' = [call EXCEPT ![c].pc = "signIn", ![c].u = u]
    <3>1. PICK u \in Users : call' = [call EXCEPT ![c].pc = "signIn", ![c].u = u]
      BY <2>1
    <3> DEFINE r == [call[c] EXCEPT !.pc = "signIn", !.u = u]
    <3>2. call' = [call EXCEPT ![c] = r]
      BY <3>1
    <3>8. r \in Call
      BY <1>1 DEF Call, Pending
    <3>9. r.pc = "signIn" /\ r.b = call[c].b /\ r.f = call[c].f /\ r.x = call[c].x
      BY <1>1 DEF Call
    <3> HIDE DEF r
    <3> QED
      BY <3>2, <3>8, <3>9
  <2>2. CASE Goto(c, "byEmail")
    <3> DEFINE r == [call[c] EXCEPT !.pc = "byEmail"]
    <3>1. call' = [call EXCEPT ![c] = r]
      BY <2>2 DEF Goto
    <3>8. r \in Call
      BY <1>1 DEF Call, Pending
    <3>9. r.pc = "byEmail" /\ r.b = call[c].b /\ r.f = call[c].f /\ r.x = call[c].x
      BY <1>1 DEF Call
    <3> HIDE DEF r
    <3> QED
      BY <3>1, <3>8, <3>9
  <2> QED
    BY <2>1, <2>2 DEF ResolveIdentity
<1>3. CallOK(r)
  BY <1>1, <1>2, CallFacts
  DEF CallOK, RequestOK, PendingOK, OpenOK, DeliverOK, Pending, Open
<1>4. UNCHANGED <<doc, grant, by, cookie, accounts, ghosts>>
  BY DEF ResolveIdentity
<1>5. call[c].pc \in Pending /\ r.pc # "deliver"
  BY <1>1, <1>2 DEF Pending
<1> QED
  BY <1>2, <1>3, <1>4, <1>5, QuietCall

LEMMA ResolveByEmailQuiet ==
  ASSUME GrantsInv, NEW c \in Calls, ResolveByEmail(c)
  PROVE  GrantsInv'
<1>1. call[c] \in Call /\ call[c].pc = "byEmail"
  BY CallFields DEF GrantsInv, ResolveByEmail
<1>2. PICK r \in Call :
        /\ call' = [call EXCEPT ![c] = r]
        /\ r.pc = "issue"
        /\ r.b = call[c].b /\ r.f = call[c].f /\ r.x = call[c].x
  <2>1. CASE \E u \in Users : call' = [call EXCEPT ![c].pc = "issue", ![c].k = "link",
                                                  ![c].u = u]
    <3>1. PICK u \in Users : call' = [call EXCEPT ![c].pc = "issue", ![c].k = "link",
                                                   ![c].u = u]
      BY <2>1
    <3> DEFINE r == [call[c] EXCEPT !.pc = "issue", !.k = "link", !.u = u]
    <3>2. call' = [call EXCEPT ![c] = r]
      BY <3>1
    <3>8. r \in Call
      BY <1>1 DEF Call, Pending, Cookies
    <3>9. r.pc = "issue" /\ r.b = call[c].b /\ r.f = call[c].f /\ r.x = call[c].x
      BY <1>1 DEF Call
    <3> HIDE DEF r
    <3> QED
      BY <3>2, <3>8, <3>9
  <2>2. CASE call' = [call EXCEPT ![c].pc = "issue", ![c].k = "registration"]
    <3> DEFINE r == [call[c] EXCEPT !.pc = "issue", !.k = "registration"]
    <3>1. call' = [call EXCEPT ![c] = r]
      BY <2>2
    <3>8. r \in Call
      BY <1>1 DEF Call, Pending, Cookies
    <3>9. r.pc = "issue" /\ r.b = call[c].b /\ r.f = call[c].f /\ r.x = call[c].x
      BY <1>1 DEF Call
    <3> HIDE DEF r
    <3> QED
      BY <3>1, <3>8, <3>9
  <2> QED
    BY <2>1, <2>2 DEF ResolveByEmail
<1>3. CallOK(r)
  BY <1>1, <1>2, CallFacts
  DEF CallOK, RequestOK, PendingOK, OpenOK, DeliverOK, Pending, Open
<1>4. UNCHANGED <<doc, grant, by, cookie, accounts, ghosts>>
  BY DEF ResolveByEmail
<1>5. call[c].pc \in Pending /\ r.pc # "deliver"
  BY <1>1, <1>2 DEF Pending
<1> QED
  BY <1>2, <1>3, <1>4, <1>5, QuietCall

(* Neither a flow nor a browser can be told from none.                     *)
LEMMA AnswerCallbackQuiet ==
  ASSUME GrantsInv, NEW c \in Calls, AnswerCallback(c)
  PROVE  GrantsInv'
<1>1. /\ call[c].pc = "answer"
      /\ call[c].b \in Browsers /\ call[c].f \in Flows /\ by[call[c].f] = call[c].b
  BY CallFacts DEF AnswerCallback, CallOK, RequestOK
<1>2. \A b \in Browsers : \A k \in Cookies :
        \/ cookie'[b][k] = cookie[b][k]
        \/ cookie'[b][k] = NoFlow
        \/ b = call[c].b /\ cookie'[b][k] = call[c].f
  BY <1>1 DEF AnswerCallback, GrantsInv, TypeOK
<1>3. cookie' \in [Browsers -> [Cookies -> Flows \cup {NoFlow}]]
  BY <1>1 DEF AnswerCallback, GrantsInv, TypeOK
<1>4. \A b \in Browsers : \A k \in Cookies :
        cookie'[b][k] # NoFlow => by[cookie'[b][k]] = b
  BY <1>1, <1>2 DEF GrantsInv, BoundToBrowser
<1>5. /\ call' = [call EXCEPT ![c] = Idle]
      /\ UNCHANGED <<doc, grant, by, accounts, ghosts>>
  BY DEF AnswerCallback, Done
<1>6. Idle.pc = "idle" /\ "idle" \notin Pending
  BY DEF Idle, Pending
<1> QED
  BY <1>3, <1>4, <1>5, <1>6, IdleType, IdleOK, QuietStep

LEMMA ClearQuiet ==
  ASSUME GrantsInv, NEW c \in Calls, Clear(c)
  PROVE  GrantsInv'
<1>1. call[c].b \in Browsers /\ call[c].k \in Cookies
  BY CallFacts, CallFields DEF Clear, CallOK, RequestOK, GrantsInv
<1>2. \A b \in Browsers : \A k \in Cookies :
        cookie'[b][k] = cookie[b][k] \/ cookie'[b][k] = NoFlow
  BY <1>1 DEF Clear, GrantsInv, TypeOK
<1>3. cookie' \in [Browsers -> [Cookies -> Flows \cup {NoFlow}]]
  BY <1>1 DEF Clear, GrantsInv, TypeOK
<1>4. \A b \in Browsers : \A k \in Cookies :
        cookie'[b][k] # NoFlow => by[cookie'[b][k]] = b
  BY <1>2 DEF GrantsInv, BoundToBrowser
<1>5. /\ call' = [call EXCEPT ![c] = Idle]
      /\ UNCHANGED <<doc, grant, by, accounts, ghosts>>
  BY DEF Clear, Done
<1>6. Idle.pc = "idle" /\ "idle" \notin Pending
  BY DEF Idle, Pending
<1> QED
  BY <1>3, <1>4, <1>5, <1>6, IdleType, IdleOK, QuietStep

LEMMA LoseQuiet ==
  ASSUME GrantsInv, NEW c \in Calls, Lose(c)
  PROVE  GrantsInv'
<1>1. /\ call' = [call EXCEPT ![c] = Idle]
      /\ UNCHANGED <<doc, grant, by, cookie, accounts, ghosts>>
  BY DEF Lose
<1>2. Idle.pc = "idle" /\ "idle" \notin Pending
  BY DEF Idle, Pending
<1> QED
  BY <1>1, <1>2, IdleType, IdleOK, QuietCall

LEMMA FailuresQuiet ==
  ASSUME GrantsInv, NEW c \in Calls,
         FailCallback(c) \/ RefuseGrant(c) \/ RefuseHandoff(c)
  PROVE  GrantsInv'
<1>1. call[c].pc # "idle" /\ UNCHANGED <<doc, grant, by, cookie, accounts, ghosts>>
  BY DEF FailCallback, RefuseGrant, RefuseHandoff, Pending
<1>2. call[c].k \in Cookies /\ "state" \in Cookies /\ "handoff" \in Cookies
  BY CallFields DEF GrantsInv, Cookies
<1>3. \E k \in Cookies : call' = Clearing(c, k)
  BY <1>2 DEF FailCallback, RefuseGrant, RefuseHandoff
<1> QED
  BY <1>1, <1>3, QuietClearing

(* A request with the secret of cookie k of its browser.                   *)
LEMMA RequestQuiet ==
  ASSUME GrantsInv, NEW c \in Calls,
         \E b \in Browsers : \/ RegistrationRequest(c, b) \/ Redeem(c, b)
                             \/ \E u \in Users : LinkRequest(c, b, u)
  PROVE  GrantsInv'
<1>1. PICK b \in Browsers : \/ RegistrationRequest(c, b) \/ Redeem(c, b)
                            \/ \E u \in Users : LinkRequest(c, b, u)
  OBVIOUS
<1>2. \A k \in Cookies : cookie[b][k] # NoFlow =>
        cookie[b][k] \in Flows /\ by[cookie[b][k]] = b
  BY DEF GrantsInv, TypeOK, BoundToBrowser
<1>3. PICK r \in Call :
        /\ call' = [call EXCEPT ![c] = r]
        /\ r.pc \in {"link", "registration", "redeem"}
        /\ r.b = b /\ r.f \in Flows /\ by[r.f] = b
        /\ r.pc = "link" => r.k = "link" /\ r.u \in Users /\ Active(r.u)
        /\ r.pc = "registration" => r.k = "registration"
  <2>1. CASE RegistrationRequest(c, b)
    <3> DEFINE r == [Idle EXCEPT !.pc = "registration", !.b = b, !.k = "registration",
                                 !.f = cookie[b]["registration"]]
    <3>1. cookie[b]["registration"] \in Flows /\ by[cookie[b]["registration"]] = b
      BY <1>2, <2>1 DEF RegistrationRequest, Cookies
    <3>2. r \in Call
      BY <3>1, IdleType DEF Call, Cookies
    <3>3. r.pc = "registration" /\ r.b = b /\ r.k = "registration"
          /\ r.f = cookie[b]["registration"]
      BY DEF Idle
    <3>4. call' = [call EXCEPT ![c] = r]
      BY <2>1 DEF RegistrationRequest
    <3> HIDE DEF r
    <3> QED
      BY <3>1, <3>2, <3>3, <3>4
  <2>2. CASE Redeem(c, b)
    <3> DEFINE r == [Idle EXCEPT !.pc = "redeem", !.b = b, !.k = "handoff",
                                 !.f = cookie[b]["handoff"]]
    <3>1. cookie[b]["handoff"] \in Flows /\ by[cookie[b]["handoff"]] = b
      BY <1>2, <2>2 DEF Redeem, Cookies
    <3>2. r \in Call
      BY <3>1, IdleType DEF Call, Cookies
    <3>3. r.pc = "redeem" /\ r.b = b /\ r.f = cookie[b]["handoff"]
      BY DEF Idle
    <3>4. call' = [call EXCEPT ![c] = r]
      BY <2>2 DEF Redeem
    <3> HIDE DEF r
    <3> QED
      BY <3>1, <3>2, <3>3, <3>4
  <2>3. CASE \E u \in Users : LinkRequest(c, b, u)
    <3>0. PICK u \in Users : LinkRequest(c, b, u)
      BY <2>3
    <3> DEFINE r == [Idle EXCEPT !.pc = "link", !.b = b, !.k = "link",
                                 !.f = cookie[b]["link"], !.u = u]
    <3>1. cookie[b]["link"] \in Flows /\ by[cookie[b]["link"]] = b
      BY <1>2, <3>0 DEF LinkRequest, Cookies
    <3>2. r \in Call
      BY <3>1, IdleType DEF Call, Cookies
    <3>3. r.pc = "link" /\ r.b = b /\ r.k = "link" /\ r.u = u
          /\ r.f = cookie[b]["link"]
      BY DEF Idle
    <3>4. call' = [call EXCEPT ![c] = r] /\ Active(u)
      BY <3>0 DEF LinkRequest
    <3> HIDE DEF r
    <3> QED
      BY <3>1, <3>2, <3>3, <3>4
  <2> QED
    BY <1>1, <2>1, <2>2, <2>3
<1>4. CallOK(r)
  BY <1>3 DEF CallOK, RequestOK, PendingOK, OpenOK, DeliverOK, Pending, Open, Active
<1>5. UNCHANGED <<doc, grant, by, cookie, accounts, ghosts>>
  BY <1>1 DEF RegistrationRequest, Redeem, LinkRequest
<1>6. r.pc \notin Pending /\ r.pc # "deliver"
  BY <1>3 DEF Pending
<1> QED
  BY <1>3, <1>4, <1>5, <1>6, QuietCall

(* A grant that passes the filter names a subject Google has verified.     *)
LEMMA GrantedFacts ==
  ASSUME GrantsInv, NEW c \in Calls, call[c].f \in Flows, Granted(c)
  PROVE  /\ grant[call[c].f].subject \in Subjects
         /\ doc["grant"][call[c].f] = "live"
         /\ grant[call[c].f].purpose = call[c].k
         /\ grant[call[c].f].target = call[c].u
  BY DEF GrantsInv, FlowInv, Granted

LEMMA OpenLinkQuiet ==
  ASSUME GrantsInv, NEW c \in Calls, OpenLink(c)
  PROVE  GrantsInv'
<1> DEFINE x == grant[call[c].f].subject
           r == [call[c] EXCEPT !.pc = "openLink", !.x = x, !.stale = FALSE]
<1>1. /\ call[c] \in Call /\ call[c].pc = "link"
      /\ call[c].f \in Flows /\ CallOK(call[c])
  BY CallFields, CallFacts DEF GrantsInv, OpenLink, CallOK, RequestOK
<1>2. /\ x \in Subjects /\ doc["grant"][call[c].f] = "live"
      /\ grant[call[c].f].purpose = call[c].k
      /\ grant[call[c].f].target = call[c].u
  BY <1>1, GrantedFacts DEF OpenLink
<1>3. ~SubjectTaken(x) /\ \A y \in Subjects : ~Linked(y, call[c].u)
  BY DEF OpenLink, LinkConflict
<1>4. r \in Call
  BY <1>1, <1>2 DEF Call, Open
<1>5. /\ r.pc = "openLink" /\ r.b = call[c].b /\ r.f = call[c].f /\ r.x = x
      /\ r.k = call[c].k /\ r.u = call[c].u
  BY <1>1 DEF Call
<1>6. /\ call' = [call EXCEPT ![c] = r]
      /\ UNCHANGED <<doc, grant, by, cookie, accounts, ghosts>>
  BY DEF OpenLink
<1> HIDE DEF r, x
<1>7. RequestOK(r)
  BY <1>1, <1>5 DEF CallOK, RequestOK
<1>8. OpenOK(r)
  <2>1. x = grant[r.f].subject
    BY <1>5 DEF x
  <2> QED
    BY <1>2, <1>3, <1>5, <2>1 DEF OpenOK
<1>9. CallOK(r)
  BY <1>5, <1>7, <1>8 DEF CallOK, PendingOK, DeliverOK, Pending
<1>10. r.pc \notin Pending /\ r.pc # "deliver"
  BY <1>5 DEF Pending
<1> QED
  BY <1>4, <1>6, <1>9, <1>10, QuietCall

LEMMA OpenRegistrationQuiet ==
  ASSUME GrantsInv, NEW c \in Calls, OpenRegistration(c)
  PROVE  GrantsInv'
<1> DEFINE x == grant[call[c].f].subject
           r == [call[c] EXCEPT !.pc = "openRegistration", !.x = x, !.stale = FALSE]
<1>1. /\ call[c] \in Call /\ call[c].pc = "registration"
      /\ call[c].f \in Flows /\ CallOK(call[c])
  BY CallFields, CallFacts DEF GrantsInv, OpenRegistration, CallOK, RequestOK
<1>2. /\ x \in Subjects /\ doc["grant"][call[c].f] = "live"
      /\ grant[call[c].f].purpose = call[c].k
  BY <1>1, GrantedFacts DEF OpenRegistration
<1>3. ~SubjectTaken(x) /\ \A u \in Users : ~HasEmail(u, x)
  BY DEF OpenRegistration
<1>4. r \in Call
  BY <1>1, <1>2 DEF Call, Open
<1>5. /\ r.pc = "openRegistration" /\ r.b = call[c].b /\ r.f = call[c].f /\ r.x = x
      /\ r.k = call[c].k /\ r.u = call[c].u
  BY <1>1 DEF Call
<1>6. /\ call' = [call EXCEPT ![c] = r]
      /\ UNCHANGED <<doc, grant, by, cookie, accounts, ghosts>>
  BY DEF OpenRegistration
<1> HIDE DEF r, x
<1>7. RequestOK(r)
  BY <1>1, <1>5 DEF CallOK, RequestOK
<1>8. OpenOK(r)
  <2>1. x = grant[r.f].subject
    BY <1>5 DEF x
  <2> QED
    BY <1>2, <1>3, <1>5, <2>1 DEF OpenOK
<1>9. CallOK(r)
  BY <1>5, <1>7, <1>8 DEF CallOK, PendingOK, DeliverOK, Pending
<1>10. r.pc \notin Pending /\ r.pc # "deliver"
  BY <1>5 DEF Pending
<1> QED
  BY <1>4, <1>6, <1>9, <1>10, QuietCall

LEMMA RunAgainQuiet ==
  ASSUME GrantsInv, NEW c \in Calls, RunAgain(c)
  PROVE  GrantsInv'
<1> DEFINE pc == IF call[c].pc = "openLink" THEN "link" ELSE "registration"
           r == [call[c] EXCEPT !.pc = pc, !.x = NoSubject, !.stale = FALSE]
<1>1. call[c] \in Call /\ call[c].pc \in Open /\ CallOK(call[c])
  BY CallFields, CallFacts DEF GrantsInv, RunAgain
<1>2. r \in Call
  BY <1>1 DEF Call
<1>3. /\ r.pc = pc /\ r.b = call[c].b /\ r.f = call[c].f
      /\ r.k = call[c].k /\ r.u = call[c].u
  BY <1>1 DEF Call
<1>4. /\ call' = [call EXCEPT ![c] = r]
      /\ UNCHANGED <<doc, grant, by, cookie, accounts, ghosts>>
  BY DEF RunAgain
<1> HIDE DEF r
<1>5. CallOK(r)
  BY <1>1, <1>3
  DEF CallOK, RequestOK, PendingOK, OpenOK, DeliverOK, Pending, Open
<1>6. r.pc \notin Pending /\ r.pc # "deliver"
  BY <1>3 DEF Pending
<1> QED
  BY <1>2, <1>4, <1>5, <1>6, QuietCall

-----------------------------------------------------------------------------
(* Steps that change documents                                             *)

(* One document gets a new status.                                         *)
LEMMA DocEffect ==
  ASSUME TypeOK, NEW k \in Kinds, NEW f \in Flows, NEW st \in Status,
         doc' = [doc EXCEPT ![k][f] = st]
  PROVE  /\ doc' \in [Kinds -> [Flows -> Status]]
         /\ \A l \in Kinds : \A g \in Flows :
              doc'[l][g] = IF l = k /\ g = f THEN st ELSE doc[l][g]
  BY DEF TypeOK

LEMMA StartStep ==
  ASSUME GrantsInv, NEW b \in Browsers, NEW f \in Flows, Start(b, f)
  PROVE  GrantsInv'
<1>1. /\ doc["state"][f] = "none" /\ by[f] = NoBrowser
      /\ doc' = [doc EXCEPT !["state"][f] = "live"]
      /\ by' = [by EXCEPT ![f] = b]
      /\ cookie' = [cookie EXCEPT ![b]["state"] = f]
      /\ UNCHANGED <<grant, call, accounts, ghosts>>
  BY DEF Start, GrantsInv, FlowInv
<1>2. /\ doc' \in [Kinds -> [Flows -> Status]]
      /\ \A g \in Flows : /\ g # f => doc'["state"][g] = doc["state"][g]
                          /\ doc'["state"][f] = "live"
                          /\ doc'["grant"][g] = doc["grant"][g]
                          /\ doc'["handoff"][g] = doc["handoff"][g]
  <2>1. TypeOK /\ "state" \in Kinds /\ "live" \in Status
    BY DEF GrantsInv, Kinds, Status
  <2>2. /\ doc' \in [Kinds -> [Flows -> Status]]
        /\ \A l \in Kinds : \A g \in Flows :
             doc'[l][g] = IF l = "state" /\ g = f THEN "live" ELSE doc[l][g]
    BY ZenonT(40), <1>1, <2>1, DocEffect
  <2> QED
    BY <2>2 DEF Kinds
<1>3. \A g \in Flows : by'[g] = IF g = f THEN b ELSE by[g]
  BY <1>1 DEF GrantsInv, TypeOK
<1>4. TypeOK'
  BY <1>1, <1>2 DEF GrantsInv, TypeOK, Cookies, accounts, ghosts
<1>5. ASSUME NEW c \in Calls PROVE CallOK(call[c])'
  <2>1. CallOK(call[c]) /\ call'[c] = call[c] /\ NoBrowser \notin Browsers
    BY <1>1, CallFacts, NoneAssumption
  <2>2. call[c].pc \notin {"idle", "clear"} => call[c].f \in Flows \ {f}
    BY <1>1, <2>1 DEF CallOK, RequestOK
  <2>3. RequestOK(call[c])'
    BY <1>1, <1>3, <2>1, <2>2 DEF CallOK, RequestOK, accounts
  <2>4. PendingOK(call[c])' /\ DeliverOK(call[c])'
    BY <1>1, <1>2, <2>1, <2>2 DEF CallOK, PendingOK, DeliverOK, Pending, ghosts
  <2>5. OpenOK(call[c])'
    BY <1>1, <1>2, <2>1, <2>2
    DEF CallOK, OpenOK, Open, SubjectTaken, Linked, HasEmail, accounts
  <2> QED
    BY <2>3, <2>4, <2>5 DEF CallOK
<1>6. CallInv' /\ AloneInv'
  BY <1>1, <1>5 DEF CallInv, CallOK, GrantsInv, AloneInv
<1>7. FlowInv' /\ LinkedInv'
  BY <1>1, <1>2, <1>3 DEF GrantsInv, FlowInv, LinkedInv, accounts, ghosts
<1>8. /\ OneExchangePerState' /\ TokensDeliveredOnce'
      /\ GrantIsItsEffect' /\ OneToOne' /\ AsGranted'
  BY <1>1, <1>2 DEF GrantsInv, OneExchangePerState, TokensDeliveredOnce,
     GrantIsItsEffect, OneToOne, AsGranted, HasEmail, accounts, ghosts
<1>9. BoundToBrowser'
  <2> SUFFICES ASSUME NEW a \in Browsers, NEW k \in Cookies, cookie'[a][k] # NoFlow
               PROVE  by'[cookie'[a][k]] = a
    BY DEF BoundToBrowser
  <2>1. CASE a = b /\ k = "state"
    BY <1>1, <1>3, <2>1 DEF GrantsInv, TypeOK
  <2>2. CASE ~(a = b /\ k = "state")
    <3>1. cookie'[a][k] = cookie[a][k] /\ cookie[a][k] \in Flows
      BY <1>1, <2>2 DEF GrantsInv, TypeOK
    <3>2. by[cookie[a][k]] = a
      BY <3>1 DEF GrantsInv, BoundToBrowser
    <3> QED
      BY <1>1, <1>3, <3>1, <3>2, NoneAssumption
  <2> QED
    BY <2>1, <2>2
<1> QED
  BY <1>4, <1>6, <1>7, <1>8, <1>9 DEF GrantsInv

LEMMA ConsumeStep ==
  ASSUME GrantsInv, NEW c \in Calls, Consume(c)
  PROVE  GrantsInv'
<1> DEFINE f == call[c].f
           r == [call[c] EXCEPT !.pc = "exchange"]
<1>1. /\ call[c] \in Call /\ call[c].pc = "consume" /\ CallOK(call[c]) /\ f \in Flows
      /\ doc["state"][f] = "live"
      /\ doc' = [doc EXCEPT !["state"][f] = "consumed"]
      /\ UNCHANGED <<grant, by, cookie, accounts, ghosts>>
  BY CallFields, CallFacts DEF Consume, GrantsInv, CallOK, RequestOK
<1>2. /\ doc' \in [Kinds -> [Flows -> Status]]
      /\ \A g \in Flows : /\ g # f => doc'["state"][g] = doc["state"][g]
                          /\ doc'["state"][f] = "consumed"
                          /\ doc'["grant"][g] = doc["grant"][g]
                          /\ doc'["handoff"][g] = doc["handoff"][g]
  <2>1. TypeOK /\ "state" \in Kinds /\ "consumed" \in Status
    BY DEF GrantsInv, Kinds, Status
  <2>2. /\ doc' \in [Kinds -> [Flows -> Status]]
        /\ \A l \in Kinds : \A g \in Flows :
             doc'[l][g] = IF l = "state" /\ g = f THEN "consumed" ELSE doc[l][g]
    BY ZenonT(40), <1>1, <2>1, DocEffect
  <2> QED
    BY <1>1, <2>2 DEF Kinds
<1>3. /\ r \in Call
      /\ r.pc = "exchange" /\ r.b = call[c].b /\ r.f = f
      /\ \A d \in Calls : call'[d] = IF d = c THEN r ELSE call[d]
  BY <1>1 DEF Call, Pending, Consume, Goto, GrantsInv, TypeOK
<1>4. TypeOK'
  BY <1>1, <1>2, <1>3 DEF GrantsInv, TypeOK, Consume, Goto, accounts, ghosts
<1>5. /\ exchanges[f] = 0 /\ doc["grant"][f] = "none" /\ doc["handoff"][f] = "none"
  BY <1>1 DEF GrantsInv, FlowInv
<1>6. ASSUME NEW d \in Calls \ {c} PROVE CallOK(call[d])'
  <2>1. CallOK(call[d]) /\ call'[d] = call[d]
    BY <1>3, CallFacts
  <2>2. call[d].pc \in Pending \cup Open \cup {"deliver"} => call[d].f \in Flows
    BY <2>1 DEF CallOK, RequestOK, Pending, Open
  <2>3. RequestOK(call[d])'
    BY <1>1, <2>1 DEF CallOK, RequestOK, accounts
  <2>4. PendingOK(call[d])' /\ DeliverOK(call[d])'
    BY <1>1, <1>2, <2>1, <2>2 DEF CallOK, PendingOK, DeliverOK, ghosts
  <2>5. OpenOK(call[d])'
    BY <1>1, <1>2, <2>1, <2>2
    DEF CallOK, OpenOK, SubjectTaken, Linked, HasEmail, accounts
  <2> QED
    BY <2>3, <2>4, <2>5 DEF CallOK
<1>7. CallOK(call[c])'
  <2>1. /\ call'[c].pc = "exchange" /\ call'[c].b = call[c].b /\ call'[c].f = f
        /\ call[c].b \in Browsers /\ by[f] = call[c].b
    BY <1>1, <1>3 DEF CallOK, RequestOK
  <2> HIDE DEF r, f
  <2>2. RequestOK(call[c])'
    BY <1>1, <2>1 DEF RequestOK
  <2>3. PendingOK(call[c])'
    BY <1>1, <1>2, <1>5, <2>1 DEF PendingOK, ghosts
  <2>4. OpenOK(call[c])' /\ DeliverOK(call[c])'
    BY <2>1 DEF OpenOK, DeliverOK, Open
  <2> QED
    BY <2>2, <2>3, <2>4 DEF CallOK
<1>8. CallInv'
  BY <1>6, <1>7 DEF CallInv, CallOK
<1>9. \A d \in Calls : call[d].pc \in Pending => call[d].f # f
  BY <1>1, CallFacts DEF CallOK, PendingOK
<1>10. AloneInv'
  <2> HIDE DEF r, f
  <2>1. \A d \in Calls : /\ call'[d].pc = IF d = c THEN "exchange" ELSE call[d].pc
                         /\ call'[d].f = call[d].f
    BY <1>3 DEF f
  <2> QED
    BY <1>9, <2>1 DEF GrantsInv, AloneInv, f
<1>11. FlowInv' /\ LinkedInv'
  BY <1>1, <1>2 DEF GrantsInv, FlowInv, LinkedInv, accounts, ghosts
<1>12. /\ OneExchangePerState' /\ TokensDeliveredOnce' /\ BoundToBrowser'
       /\ GrantIsItsEffect' /\ OneToOne' /\ AsGranted'
  BY <1>1, <1>2 DEF GrantsInv, OneExchangePerState, TokensDeliveredOnce,
     BoundToBrowser, GrantIsItsEffect, OneToOne, AsGranted, HasEmail, accounts, ghosts
<1> QED
  BY <1>4, <1>8, <1>10, <1>11, <1>12 DEF GrantsInv

LEMMA ExchangeStep ==
  ASSUME GrantsInv, NEW c \in Calls, NEW x \in Subjects, Exchange(c, x)
  PROVE  GrantsInv'
<1> DEFINE f == call[c].f
<1>1. /\ call[c] \in Call /\ call[c].pc = "exchange" /\ CallOK(call[c]) /\ f \in Flows
      /\ doc["state"][f] = "consumed" /\ doc["grant"][f] = "none"
      /\ doc["handoff"][f] = "none" /\ exchanges[f] = 0
      /\ UNCHANGED <<doc, grant, by, cookie, accounts, effects, made, delivered>>
  BY CallFields, CallFacts
  DEF Exchange, GrantsInv, CallOK, RequestOK, PendingOK, Pending
<1>2. /\ exchanges' \in [Flows -> Nat]
      /\ \A g \in Flows : exchanges'[g] = IF g = f THEN 1 ELSE exchanges[g]
  <2>1. exchanges' = [exchanges EXCEPT ![f] = exchanges[f] + 1]
    BY DEF Exchange
  <2> QED
    BY <1>1, <2>1 DEF GrantsInv, TypeOK
<1>3. /\ verified' \in [Flows -> Subjects \cup {NoSubject}]
      /\ \A g \in Flows : verified'[g] = IF g = f THEN x ELSE verified[g]
  BY <1>1 DEF Exchange, GrantsInv, TypeOK
<1>4. /\ call' \in [Calls -> Call]
      /\ \A d \in Calls \ {c} : call'[d] = call[d]
      /\ call'[c].pc = "identity" /\ call'[c].b = call[c].b /\ call'[c].f = f
      /\ call'[c].x = x
  <2> DEFINE r == [call[c] EXCEPT !.pc = "identity", !.x = x]
  <2>1. r \in Call
    BY <1>1 DEF Call, Pending
  <2>2. r.pc = "identity" /\ r.b = call[c].b /\ r.f = f /\ r.x = x
    BY <1>1 DEF Call
  <2>3. call' = [call EXCEPT ![c] = r]
    BY DEF Exchange
  <2> HIDE DEF r, f
  <2> QED
    BY <2>1, <2>2, <2>3 DEF GrantsInv, TypeOK
<1> HIDE DEF f
<1>5. TypeOK'
  BY <1>1, <1>2, <1>3, <1>4 DEF GrantsInv, TypeOK, accounts
<1>6. ASSUME NEW d \in Calls \ {c} PROVE CallOK(call[d])'
  <2>1. CallOK(call[d]) /\ call'[d] = call[d]
    BY <1>4, CallFacts
  <2>2. call[d].pc \in Pending \cup Open \cup {"deliver"} => call[d].f \in Flows
    BY <2>1 DEF CallOK, RequestOK, Pending, Open
  <2>3. call[d].pc \in Pending => call[d].f # f
    BY <1>1 DEF GrantsInv, AloneInv, Pending, f
  <2>4. RequestOK(call[d])'
    BY <1>1, <2>1 DEF CallOK, RequestOK, accounts
  <2>5. PendingOK(call[d])'
    BY <1>1, <1>2, <1>3, <2>1, <2>2, <2>3 DEF CallOK, PendingOK
  <2>6. OpenOK(call[d])' /\ DeliverOK(call[d])'
    BY <1>1, <2>1 DEF CallOK, OpenOK, DeliverOK, SubjectTaken, Linked, HasEmail, accounts
  <2> QED
    BY <2>4, <2>5, <2>6 DEF CallOK
<1>7. CallOK(call[c])'
  <2>1. RequestOK(call[c])'
    BY <1>1, <1>4 DEF CallOK, RequestOK, f
  <2>2. PendingOK(call[c])'
    BY <1>1, <1>3, <1>4 DEF PendingOK
  <2>3. OpenOK(call[c])' /\ DeliverOK(call[c])'
    BY <1>4 DEF OpenOK, DeliverOK, Open
  <2> QED
    BY <2>1, <2>2, <2>3 DEF CallOK
<1>8. CallInv'
  BY <1>6, <1>7 DEF CallInv, CallOK
<1>9. AloneInv'
  <2>1. \A d \in Calls : /\ call'[d].pc \in Pending => call[d].pc \in Pending
                         /\ call'[d].pc = "deliver" => call[d].pc = "deliver"
                         /\ call'[d].f = call[d].f
    BY <1>1, <1>4 DEF Pending, f
  <2> QED
    BY <2>1 DEF GrantsInv, AloneInv
<1>10. FlowInv' /\ LinkedInv'
  BY <1>1, <1>2, <1>3 DEF GrantsInv, FlowInv, LinkedInv, accounts
<1>11. OneExchangePerState'
  BY <1>2 DEF GrantsInv, OneExchangePerState
<1>12. AsGranted'
  <2>1. effects[f] = 0
    BY <1>1 DEF GrantsInv, GrantIsItsEffect
  <2> QED
    BY <1>1, <1>3, <2>1 DEF GrantsInv, AsGranted, accounts
<1>13. TokensDeliveredOnce' /\ BoundToBrowser' /\ GrantIsItsEffect' /\ OneToOne'
  BY <1>1 DEF GrantsInv, TokensDeliveredOnce, BoundToBrowser, GrantIsItsEffect,
     OneToOne, HasEmail, accounts
<1> QED
  BY <1>5, <1>8, <1>9, <1>10, <1>11, <1>12, <1>13 DEF GrantsInv

LEMMA IssueGrantStep ==
  ASSUME GrantsInv, NEW c \in Calls, IssueGrant(c)
  PROVE  GrantsInv'
<1> DEFINE f == call[c].f
           G == [purpose |-> IF call[c].k = "link" THEN "link" ELSE "registration",
                 subject |-> call[c].x, target |-> call[c].u]
<1>1. /\ call[c] \in Call /\ call[c].pc = "issue" /\ CallOK(call[c]) /\ f \in Flows
      /\ call[c].x \in Subjects /\ call[c].u \in Users \cup {NoUser}
      /\ verified[f] = call[c].x
      /\ doc["state"][f] = "consumed" /\ doc["grant"][f] = "none"
      /\ doc["handoff"][f] = "none"
      /\ UNCHANGED <<by, cookie, accounts, ghosts>>
  BY CallFields, CallFacts
  DEF IssueGrant, GrantsInv, CallOK, RequestOK, PendingOK, Pending
<1>2. /\ doc' \in [Kinds -> [Flows -> Status]]
      /\ \A g \in Flows : /\ doc'["state"][g] = doc["state"][g]
                          /\ doc'["grant"][g] = IF g = f THEN "live" ELSE doc["grant"][g]
                          /\ doc'["handoff"][g] = doc["handoff"][g]
  <2>1. /\ TypeOK /\ "grant" \in Kinds /\ "live" \in Status
        /\ doc' = [doc EXCEPT !["grant"][f] = "live"]
    BY DEF GrantsInv, Kinds, Status, IssueGrant
  <2>2. /\ doc' \in [Kinds -> [Flows -> Status]]
        /\ \A l \in Kinds : \A g \in Flows :
             doc'[l][g] = IF l = "grant" /\ g = f THEN "live" ELSE doc[l][g]
    BY <1>1, <2>1, DocEffect
  <2> QED
    BY <2>2 DEF Kinds
<1>3. /\ G \in Grant /\ G.subject = call[c].x
  BY <1>1 DEF Grant
<1>4. grant' = [grant EXCEPT ![f] = G]
  BY DEF IssueGrant
<1>5. /\ call' \in [Calls -> Call]
      /\ \A d \in Calls \ {c} : call'[d] = call[d]
      /\ call'[c].pc = "answer" /\ call'[c].b = call[c].b /\ call'[c].f = f
  <2> DEFINE r == [call[c] EXCEPT !.pc = "answer"]
  <2>1. r \in Call
    BY <1>1 DEF Call
  <2>2. r.pc = "answer" /\ r.b = call[c].b /\ r.f = f
    BY <1>1 DEF Call
  <2>3. call' = [call EXCEPT ![c] = r]
    BY DEF IssueGrant, Goto
  <2> HIDE DEF r, f
  <2> QED
    BY <2>1, <2>2, <2>3 DEF GrantsInv, TypeOK
<1> HIDE DEF f, G
<1>6. /\ grant' \in [Flows -> Grant]
      /\ \A g \in Flows : grant'[g] = IF g = f THEN G ELSE grant[g]
  BY <1>1, <1>3, <1>4 DEF GrantsInv, TypeOK
<1>7. TypeOK'
  BY <1>1, <1>2, <1>5, <1>6 DEF GrantsInv, TypeOK, accounts, ghosts
<1>8. ASSUME NEW d \in Calls \ {c} PROVE CallOK(call[d])'
  <2>1. CallOK(call[d]) /\ call'[d] = call[d]
    BY <1>5, CallFacts
  <2>2. call[d].pc \in Pending \cup Open \cup {"deliver"} => call[d].f \in Flows
    BY <2>1 DEF CallOK, RequestOK, Pending, Open
  <2>3. call[d].pc \in Pending => call[d].f # f
    BY <1>1 DEF GrantsInv, AloneInv, Pending, f
  <2>4. call[d].pc \in Open => call[d].f # f
    BY <1>1, <2>1 DEF CallOK, OpenOK
  <2>5. RequestOK(call[d])'
    BY <1>1, <2>1 DEF CallOK, RequestOK, accounts
  <2>6. PendingOK(call[d])' /\ DeliverOK(call[d])'
    BY <1>1, <1>2, <2>1, <2>2, <2>3 DEF CallOK, PendingOK, DeliverOK, ghosts
  <2>7. OpenOK(call[d])'
    BY <1>1, <1>2, <1>6, <2>1, <2>2, <2>4
    DEF CallOK, OpenOK, SubjectTaken, Linked, HasEmail, accounts
  <2> QED
    BY <2>5, <2>6, <2>7 DEF CallOK
<1>9. CallOK(call[c])'
  <2>1. RequestOK(call[c])'
    BY <1>1, <1>5 DEF CallOK, RequestOK, f
  <2>2. PendingOK(call[c])' /\ OpenOK(call[c])' /\ DeliverOK(call[c])'
    BY <1>5 DEF PendingOK, OpenOK, DeliverOK, Open, Pending
  <2> QED
    BY <2>1, <2>2 DEF CallOK
<1>10. CallInv'
  BY <1>8, <1>9 DEF CallInv, CallOK
<1>11. AloneInv'
  <2>1. \A d \in Calls : /\ call'[d].pc \in Pending => call[d].pc \in Pending
                         /\ call'[d].pc = "deliver" => call[d].pc = "deliver"
                         /\ call'[d].f = call[d].f
    BY <1>1, <1>5 DEF Pending, f
  <2> QED
    BY <2>1 DEF GrantsInv, AloneInv
<1>12. FlowInv' /\ LinkedInv'
  BY <1>1, <1>2, <1>3, <1>6 DEF GrantsInv, FlowInv, LinkedInv, accounts, ghosts
<1>13. effects[f] = 0
  BY <1>1 DEF GrantsInv, GrantIsItsEffect
<1>14. AsGranted'
  BY <1>1, <1>6, <1>13 DEF GrantsInv, AsGranted, accounts, ghosts
<1>15. GrantIsItsEffect'
  BY <1>1, <1>2, <1>13 DEF GrantsInv, GrantIsItsEffect, ghosts
<1>16. /\ OneExchangePerState' /\ TokensDeliveredOnce' /\ BoundToBrowser' /\ OneToOne'
  BY <1>1 DEF GrantsInv, OneExchangePerState, TokensDeliveredOnce, BoundToBrowser,
     OneToOne, HasEmail, accounts, ghosts
<1> QED
  BY <1>7, <1>10, <1>11, <1>12, <1>14, <1>15, <1>16 DEF GrantsInv

LEMMA ConsumeHandoffStep ==
  ASSUME GrantsInv, NEW c \in Calls, ConsumeHandoff(c)
  PROVE  GrantsInv'
<1> DEFINE f == call[c].f
<1>1. /\ call[c] \in Call /\ call[c].pc = "redeem" /\ CallOK(call[c]) /\ f \in Flows
      /\ doc["handoff"][f] = "live"
      /\ UNCHANGED <<grant, by, cookie, accounts, ghosts>>
  BY CallFields, CallFacts DEF ConsumeHandoff, GrantsInv, CallOK, RequestOK
<1>2. /\ doc' \in [Kinds -> [Flows -> Status]]
      /\ \A g \in Flows :
           /\ doc'["state"][g] = doc["state"][g] /\ doc'["grant"][g] = doc["grant"][g]
           /\ doc'["handoff"][g] = IF g = f THEN "consumed" ELSE doc["handoff"][g]
  <2>1. /\ TypeOK /\ "handoff" \in Kinds /\ "consumed" \in Status
        /\ doc' = [doc EXCEPT !["handoff"][f] = "consumed"]
    BY DEF GrantsInv, Kinds, Status, ConsumeHandoff
  <2>2. /\ doc' \in [Kinds -> [Flows -> Status]]
        /\ \A l \in Kinds : \A g \in Flows :
             doc'[l][g] = IF l = "handoff" /\ g = f THEN "consumed" ELSE doc[l][g]
    BY ZenonT(40), <1>1, <2>1, DocEffect
  <2> QED
    BY <2>2 DEF Kinds
<1>3. /\ call' \in [Calls -> Call]
      /\ \A d \in Calls \ {c} : call'[d] = call[d]
      /\ call'[c].pc = "deliver" /\ call'[c].b = call[c].b /\ call'[c].f = f
  <2> DEFINE r == [call[c] EXCEPT !.pc = "deliver"]
  <2>1. r \in Call
    BY <1>1 DEF Call
  <2>2. r.pc = "deliver" /\ r.b = call[c].b /\ r.f = f
    BY <1>1 DEF Call
  <2>3. call' = [call EXCEPT ![c] = r]
    BY DEF ConsumeHandoff, Goto
  <2> HIDE DEF r, f
  <2> QED
    BY <2>1, <2>2, <2>3 DEF GrantsInv, TypeOK
<1> HIDE DEF f
<1>4. TypeOK'
  BY <1>1, <1>2, <1>3 DEF GrantsInv, TypeOK, accounts, ghosts
<1>5. \A d \in Calls : call[d].pc \in Pending \cup {"deliver"} => call[d].f # f
  BY <1>1, CallFacts DEF CallOK, PendingOK, DeliverOK
<1>6. ASSUME NEW d \in Calls \ {c} PROVE CallOK(call[d])'
  <2>1. CallOK(call[d]) /\ call'[d] = call[d]
    BY <1>3, CallFacts
  <2>2. call[d].pc \in Pending \cup Open \cup {"deliver"} => call[d].f \in Flows
    BY <2>1 DEF CallOK, RequestOK, Pending, Open
  <2>3. RequestOK(call[d])'
    BY <1>1, <2>1 DEF CallOK, RequestOK, accounts
  <2>4. PendingOK(call[d])' /\ DeliverOK(call[d])'
    BY <1>1, <1>2, <1>5, <2>1, <2>2 DEF CallOK, PendingOK, DeliverOK, ghosts
  <2>5. OpenOK(call[d])'
    BY <1>1, <1>2, <2>1, <2>2
    DEF CallOK, OpenOK, SubjectTaken, Linked, HasEmail, accounts
  <2> QED
    BY <2>3, <2>4, <2>5 DEF CallOK
<1>7. CallOK(call[c])'
  <2>1. RequestOK(call[c])'
    BY <1>1, <1>3 DEF CallOK, RequestOK, f
  <2>2. PendingOK(call[c])' /\ OpenOK(call[c])'
    BY <1>3 DEF PendingOK, OpenOK, Open, Pending
  <2>3. DeliverOK(call[c])'
    BY <1>1, <1>2, <1>3 DEF DeliverOK, GrantsInv, FlowInv, ghosts
  <2> QED
    BY <2>1, <2>2, <2>3 DEF CallOK
<1>8. CallInv'
  BY <1>6, <1>7 DEF CallInv, CallOK
<1>9. AloneInv'
  <2>1. \A d \in Calls :
          /\ call'[d].f = call[d].f
          /\ call'[d].pc = IF d = c THEN "deliver" ELSE call[d].pc
    BY <1>3 DEF f
  <2>2. call[c].f = f /\ "deliver" \notin Pending
    BY DEF f, Pending
  <2> QED
    BY <1>5, <2>1, <2>2 DEF GrantsInv, AloneInv
<1>10. FlowInv' /\ LinkedInv'
  BY <1>1, <1>2 DEF GrantsInv, FlowInv, LinkedInv, accounts, ghosts
<1>11. /\ OneExchangePerState' /\ TokensDeliveredOnce' /\ BoundToBrowser'
       /\ GrantIsItsEffect' /\ OneToOne' /\ AsGranted'
  BY <1>1, <1>2 DEF GrantsInv, OneExchangePerState, TokensDeliveredOnce,
     BoundToBrowser, GrantIsItsEffect, OneToOne, AsGranted, HasEmail, accounts, ghosts
<1> QED
  BY <1>4, <1>8, <1>9, <1>10, <1>11 DEF GrantsInv

LEMMA DeliverStep ==
  ASSUME GrantsInv, NEW c \in Calls, Deliver(c)
  PROVE  GrantsInv'
<1> DEFINE f == call[c].f
<1>1. /\ call[c].pc = "deliver" /\ f \in Flows /\ call[c].b \in Browsers
      /\ doc["handoff"][f] = "consumed" /\ delivered[f] = 0
      /\ UNCHANGED <<doc, grant, by, accounts, exchanges, verified, effects, made>>
  BY CallFacts DEF Deliver, CallOK, RequestOK, DeliverOK
<1>2. /\ delivered' \in [Flows -> Nat]
      /\ \A g \in Flows : delivered'[g] = IF g = f THEN 1 ELSE delivered[g]
  <2>1. delivered' = [delivered EXCEPT ![f] = delivered[f] + 1]
    BY DEF Deliver
  <2> QED
    BY <1>1, <2>1 DEF GrantsInv, TypeOK
<1>3. /\ call' \in [Calls -> Call]
      /\ \A d \in Calls : call'[d] = IF d = c THEN Idle ELSE call[d]
  BY IdleType DEF Deliver, Done, GrantsInv, TypeOK
<1>4. /\ cookie' \in [Browsers -> [Cookies -> Flows \cup {NoFlow}]]
      /\ \A b \in Browsers : \A k \in Cookies :
           cookie'[b][k] = cookie[b][k] \/ cookie'[b][k] = NoFlow
  BY <1>1 DEF Deliver, GrantsInv, TypeOK
<1> HIDE DEF f
<1>5. TypeOK'
  BY <1>1, <1>2, <1>3, <1>4 DEF GrantsInv, TypeOK, accounts
<1>6. ASSUME NEW d \in Calls \ {c} PROVE CallOK(call[d])'
  <2>1. CallOK(call[d]) /\ call'[d] = call[d]
    BY <1>3, CallFacts
  <2>2. call[d].pc = "deliver" => call[d].f \in Flows /\ call[d].f # f
    BY <1>1, <2>1 DEF CallOK, RequestOK, GrantsInv, AloneInv, f
  <2>3. RequestOK(call[d])' /\ PendingOK(call[d])'
    BY <1>1, <2>1 DEF CallOK, RequestOK, PendingOK, accounts
  <2>4. DeliverOK(call[d])'
    BY <1>1, <1>2, <2>1, <2>2 DEF CallOK, DeliverOK
  <2>5. OpenOK(call[d])'
    BY <1>1, <2>1 DEF CallOK, OpenOK, SubjectTaken, Linked, HasEmail, accounts
  <2> QED
    BY <2>3, <2>4, <2>5 DEF CallOK
<1>7. CallOK(call[c])'
  BY <1>3 DEF CallOK, Idle, RequestOK, PendingOK, OpenOK, DeliverOK, Pending, Open
<1>8. CallInv'
  BY <1>6, <1>7 DEF CallInv, CallOK
<1>9. AloneInv'
  <2>1. \A d \in Calls : d = c => call'[d].pc = "idle"
    BY <1>3 DEF Idle
  <2>2. "idle" \notin Pending
    BY DEF Pending
  <2> QED
    BY <1>3, <2>1, <2>2 DEF GrantsInv, AloneInv
<1>10. FlowInv' /\ LinkedInv'
  BY <1>1, <1>2 DEF GrantsInv, FlowInv, LinkedInv, accounts
<1>11. TokensDeliveredOnce'
  BY <1>2 DEF GrantsInv, TokensDeliveredOnce
<1>12. BoundToBrowser'
  BY <1>1, <1>4 DEF GrantsInv, BoundToBrowser
<1>13. OneExchangePerState' /\ GrantIsItsEffect' /\ OneToOne' /\ AsGranted'
  BY <1>1 DEF GrantsInv, OneExchangePerState, GrantIsItsEffect, OneToOne, AsGranted,
     HasEmail, accounts
<1> QED
  BY <1>5, <1>8, <1>9, <1>10, <1>11, <1>12, <1>13 DEF GrantsInv

(* Documents only grow older, and marking goes with it.                    *)
LEMMA SignInStep ==
  ASSUME GrantsInv, NEW c \in Calls, SignIn(c)
  PROVE  GrantsInv'
<1> DEFINE f == call[c].f
           r == [call EXCEPT ![c].pc = "answer", ![c].k = "handoff"]
<1>1. /\ call[c] \in Call /\ call[c].pc = "signIn" /\ CallOK(call[c]) /\ f \in Flows
      /\ doc["state"][f] = "consumed" /\ doc["grant"][f] = "none"
      /\ doc["handoff"][f] = "none"
      /\ UNCHANGED <<grant, by, cookie, accounts, ghosts>>
  BY CallFields, CallFacts
  DEF SignIn, GrantsInv, CallOK, RequestOK, PendingOK, Pending
<1>2. /\ doc' \in [Kinds -> [Flows -> Status]]
      /\ \A g \in Flows :
           /\ doc'["state"][g] = doc["state"][g] /\ doc'["grant"][g] = doc["grant"][g]
           /\ doc'["handoff"][g] = IF g = f THEN "live" ELSE doc["handoff"][g]
  <2>1. /\ TypeOK /\ "handoff" \in Kinds /\ "live" \in Status
        /\ doc' = [doc EXCEPT !["handoff"][f] = "live"]
    BY DEF GrantsInv, Kinds, Status, SignIn
  <2>2. /\ doc' \in [Kinds -> [Flows -> Status]]
        /\ \A l \in Kinds : \A g \in Flows :
             doc'[l][g] = IF l = "handoff" /\ g = f THEN "live" ELSE doc[l][g]
    BY <1>1, <2>1, DocEffect
  <2> QED
    BY <2>2 DEF Kinds
<1>3. /\ r \in [Calls -> Call]
      /\ \A d \in Calls \ {c} : r[d] = call[d]
      /\ r[c].pc = "answer" /\ r[c].b = call[c].b /\ r[c].f = f
  <2> DEFINE s == [call[c] EXCEPT !.pc = "answer", !.k = "handoff"]
  <2>1. s \in Call
    BY <1>1 DEF Call, Cookies
  <2>2. s.pc = "answer" /\ s.b = call[c].b /\ s.f = f
    BY <1>1 DEF Call
  <2>3. r = [call EXCEPT ![c] = s]
    OBVIOUS
  <2> HIDE DEF r, s, f
  <2> QED
    BY <2>1, <2>2, <2>3 DEF GrantsInv, TypeOK
<1>4. Written({call[c].u}, {}, {}, r)
  BY DEF SignIn
<1> HIDE DEF r, f
<1>5. /\ call' \in [Calls -> Call]
      /\ \A d \in Calls :
           /\ call'[d].pc = r[d].pc /\ call'[d].b = r[d].b
           /\ call'[d].f = r[d].f /\ call'[d].k = r[d].k
           /\ call'[d].x = r[d].x /\ call'[d].u = r[d].u
           /\ call'[d].pc \in Open /\ ~call'[d].stale => ~r[d].stale
  BY <1>3, <1>4, WrittenEffect
<1>6. TypeOK'
  BY <1>1, <1>2, <1>5 DEF GrantsInv, TypeOK, accounts, ghosts
<1>7. ASSUME NEW d \in Calls \ {c} PROVE CallOK(call[d])'
  <2>1. CallOK(call[d]) /\ r[d] = call[d]
    BY <1>3, CallFacts
  <2>2. call[d].pc \in Pending \cup Open \cup {"deliver"} => call[d].f \in Flows
    BY <2>1 DEF CallOK, RequestOK, Pending, Open
  <2>3. call[d].pc \in Pending \cup {"deliver"} => call[d].f # f
    BY <1>1, <2>1 DEF GrantsInv, AloneInv, Pending, CallOK, DeliverOK, f
  <2>4. RequestOK(call[d])'
    BY <1>1, <1>5, <2>1 DEF CallOK, RequestOK, accounts
  <2>5. PendingOK(call[d])' /\ DeliverOK(call[d])'
    BY <1>1, <1>2, <1>5, <2>1, <2>2, <2>3 DEF CallOK, PendingOK, DeliverOK, ghosts
  <2>6. OpenOK(call[d])'
    <3>1. /\ call'[d].pc = call[d].pc /\ call'[d].f = call[d].f
          /\ call'[d].k = call[d].k /\ call'[d].x = call[d].x /\ call'[d].u = call[d].u
          /\ call'[d].pc \in Open /\ ~call'[d].stale => ~call[d].stale
      BY <1>5, <2>1
    <3> QED
      BY <1>1, <1>2, <2>1, <2>2, <3>1
      DEF CallOK, OpenOK, SubjectTaken, Linked, HasEmail, accounts
  <2> QED
    BY <2>4, <2>5, <2>6 DEF CallOK
<1>8. CallOK(call[c])'
  <2>1. call'[c].pc = "answer" /\ call'[c].b = call[c].b /\ call'[c].f = f
    BY <1>3, <1>5
  <2>2. RequestOK(call[c])'
    BY <1>1, <2>1 DEF CallOK, RequestOK, f
  <2>3. PendingOK(call[c])' /\ OpenOK(call[c])' /\ DeliverOK(call[c])'
    BY <2>1 DEF PendingOK, OpenOK, DeliverOK, Open, Pending
  <2> QED
    BY <2>2, <2>3 DEF CallOK
<1>9. CallInv'
  BY <1>7, <1>8 DEF CallInv, CallOK
<1>10. AloneInv'
  <2>1. \A d \in Calls : /\ call'[d].pc \in Pending => call[d].pc \in Pending
                         /\ call'[d].pc = "deliver" => call[d].pc = "deliver"
                         /\ call'[d].f = call[d].f
    BY <1>1, <1>3, <1>5 DEF Pending, f
  <2> QED
    BY <2>1 DEF GrantsInv, AloneInv
<1>11. FlowInv' /\ LinkedInv'
  BY <1>1, <1>2 DEF GrantsInv, FlowInv, LinkedInv, accounts, ghosts
<1>12. /\ OneExchangePerState' /\ TokensDeliveredOnce' /\ BoundToBrowser'
       /\ GrantIsItsEffect' /\ OneToOne' /\ AsGranted'
  BY <1>1, <1>2 DEF GrantsInv, OneExchangePerState, TokensDeliveredOnce,
     BoundToBrowser, GrantIsItsEffect, OneToOne, AsGranted, HasEmail, accounts, ghosts
<1> QED
  BY <1>6, <1>9, <1>10, <1>11, <1>12 DEF GrantsInv

-----------------------------------------------------------------------------
(* Steps outside the requests                                              *)

LEMMA LapseStep ==
  ASSUME GrantsInv, NEW k \in Kinds, NEW f \in Flows, Lapse(k, f)
  PROVE  GrantsInv'
<1>1. UNCHANGED <<grant, by, cookie, call, accounts, ghosts>>
  BY DEF Lapse
<1>2. /\ doc' \in [Kinds -> [Flows -> Status]]
      /\ \A l \in Kinds : \A g \in Flows :
           \/ doc'[l][g] = doc[l][g]
           \/ doc[l][g] = "live" /\ doc'[l][g] = "lapsed"
  <2>1. TypeOK /\ "lapsed" \in Status /\ doc[k][f] = "live"
        /\ doc' = [doc EXCEPT ![k][f] = "lapsed"]
    BY DEF GrantsInv, Status, Lapse
  <2> QED
    BY <2>1, DocEffect
<1>3. "state" \in Kinds /\ "grant" \in Kinds /\ "handoff" \in Kinds
  BY DEF Kinds
<1>4. TypeOK'
  BY <1>1, <1>2 DEF GrantsInv, TypeOK, accounts, ghosts
<1>5. ASSUME NEW d \in Calls PROVE CallOK(call[d])'
  <2>1. CallOK(call[d]) /\ call'[d] = call[d]
    BY <1>1, CallFacts
  <2>2. call[d].pc \in Pending \cup Open \cup {"deliver"} => call[d].f \in Flows
    BY <2>1 DEF CallOK, RequestOK, Pending, Open
  <2>3. RequestOK(call[d])'
    BY <1>1, <2>1 DEF CallOK, RequestOK, accounts
  <2>4. PendingOK(call[d])' /\ DeliverOK(call[d])'
    <3>1. \A l \in Kinds : call[d].f \in Flows /\ doc[l][call[d].f] # "live" =>
            doc'[l][call[d].f] = doc[l][call[d].f]
      BY <1>2
    <3> QED
      BY <1>1, <1>3, <2>1, <2>2, <3>1 DEF CallOK, PendingOK, DeliverOK, ghosts
  <2>5. OpenOK(call[d])'
    <3>1. call[d].pc \in Open =>
            /\ doc["grant"][call[d].f] # "none" => doc'["grant"][call[d].f] # "none"
            /\ doc["grant"][call[d].f] \in {"live", "lapsed"} =>
                 doc'["grant"][call[d].f] \in {"live", "lapsed"}
      BY <1>2, <1>3, <2>2
    <3> QED
      BY <1>1, <2>1, <3>1 DEF CallOK, OpenOK, SubjectTaken, Linked, HasEmail, accounts
  <2> QED
    BY <2>3, <2>4, <2>5 DEF CallOK
<1>6. CallInv' /\ AloneInv'
  BY <1>1, <1>5 DEF CallInv, CallOK, GrantsInv, AloneInv
<1>7. FlowInv' /\ LinkedInv'
  BY <1>1, <1>2, <1>3 DEF GrantsInv, FlowInv, LinkedInv, accounts, ghosts
<1>8. /\ OneExchangePerState' /\ TokensDeliveredOnce' /\ BoundToBrowser'
      /\ GrantIsItsEffect' /\ OneToOne' /\ AsGranted'
  BY <1>1, <1>2, <1>3 DEF GrantsInv, OneExchangePerState, TokensDeliveredOnce,
     BoundToBrowser, GrantIsItsEffect, OneToOne, AsGranted, HasEmail, accounts, ghosts
<1> QED
  BY <1>4, <1>6, <1>7, <1>8 DEF GrantsInv

LEMMA PurgeStep ==
  ASSUME GrantsInv, NEW f \in Flows, Purge(f)
  PROVE  GrantsInv'
<1>1. /\ UNCHANGED <<grant, by, cookie, accounts, ghosts>>
      /\ doc["grant"][f] \in {"lapsed", "consumed"}
      /\ Written({}, {f}, {}, call)
  BY DEF Purge
<1>2. /\ doc' \in [Kinds -> [Flows -> Status]]
      /\ \A g \in Flows :
           /\ doc'["state"][g] = doc["state"][g] /\ doc'["handoff"][g] = doc["handoff"][g]
           /\ doc'["grant"][g] = IF g = f THEN "gone" ELSE doc["grant"][g]
  <2>1. /\ TypeOK /\ "grant" \in Kinds /\ "gone" \in Status
        /\ doc' = [doc EXCEPT !["grant"][f] = "gone"]
    BY DEF GrantsInv, Kinds, Status, Purge
  <2>2. /\ doc' \in [Kinds -> [Flows -> Status]]
        /\ \A l \in Kinds : \A g \in Flows :
             doc'[l][g] = IF l = "grant" /\ g = f THEN "gone" ELSE doc[l][g]
    BY <2>1, DocEffect
  <2> QED
    BY <2>2 DEF Kinds
<1>3. call \in [Calls -> Call]
  BY DEF GrantsInv, TypeOK
<1>4. /\ call' \in [Calls -> Call]
      /\ \A d \in Calls :
           /\ call'[d].pc = call[d].pc /\ call'[d].b = call[d].b
           /\ call'[d].f = call[d].f /\ call'[d].k = call[d].k
           /\ call'[d].x = call[d].x /\ call'[d].u = call[d].u
           /\ call'[d].pc \in Open /\ ~call'[d].stale => ~call[d].stale /\ call[d].f # f
  BY <1>1, <1>3, WrittenEffect
<1>5. TypeOK'
  BY <1>1, <1>2, <1>4 DEF GrantsInv, TypeOK, accounts, ghosts
<1>6. ASSUME NEW d \in Calls PROVE CallOK(call[d])'
  <2>1. CallOK(call[d])
    BY CallFacts
  <2>2. call[d].pc \in Pending \cup Open \cup {"deliver"} => call[d].f \in Flows
    BY <2>1 DEF CallOK, RequestOK, Pending, Open
  <2>3. RequestOK(call[d])'
    BY <1>1, <1>4, <2>1 DEF CallOK, RequestOK, accounts
  <2>4. PendingOK(call[d])' /\ DeliverOK(call[d])'
    BY <1>1, <1>2, <1>4, <2>1, <2>2 DEF CallOK, PendingOK, DeliverOK, ghosts
  <2>5. OpenOK(call[d])'
    BY <1>1, <1>2, <1>4, <2>1, <2>2
    DEF CallOK, OpenOK, SubjectTaken, Linked, HasEmail, accounts
  <2> QED
    BY <2>3, <2>4, <2>5 DEF CallOK
<1>7. CallInv' /\ AloneInv'
  BY <1>4, <1>6 DEF CallInv, CallOK, GrantsInv, AloneInv
<1>8. FlowInv' /\ LinkedInv'
  BY <1>1, <1>2 DEF GrantsInv, FlowInv, LinkedInv, accounts, ghosts
<1>9. /\ OneExchangePerState' /\ TokensDeliveredOnce' /\ BoundToBrowser'
      /\ OneToOne' /\ AsGranted'
  BY <1>1 DEF GrantsInv, OneExchangePerState, TokensDeliveredOnce,
     BoundToBrowser, OneToOne, AsGranted, HasEmail, accounts, ghosts
<1>10. GrantIsItsEffect'
  BY <1>1, <1>2 DEF GrantsInv, GrantIsItsEffect, ghosts
<1> QED
  BY <1>5, <1>7, <1>8, <1>9, <1>10 DEF GrantsInv

(* What happens to accounts: identities go, accounts stay, and the emails  *)
(* of the subjects xs alone can be taken, once.                            *)
LEMMA AccountStep ==
  ASSUME GrantsInv, NEW us, NEW xs, Written(us, {}, xs, call),
         UNCHANGED <<doc, grant, by, cookie, ghosts>>,
         user' \in [Users -> UserDoc], identity' \subseteq identity,
         \A u \in Users : user[u].life # "none" => user'[u].life # "none",
         \A u \in Users, x \in Subjects : x \notin xs /\ HasEmail(u, x)' => HasEmail(u, x),
         \A u, v \in Users : \A x \in Subjects : HasEmail(u, x)' /\ HasEmail(v, x)' => u = v
  PROVE  GrantsInv'
<1>1. call \in [Calls -> Call] /\ identity \subseteq Subjects \X Users
  BY DEF GrantsInv, TypeOK
<1>2. /\ call' \in [Calls -> Call]
      /\ \A d \in Calls :
           /\ call'[d].pc = call[d].pc /\ call'[d].b = call[d].b
           /\ call'[d].f = call[d].f /\ call'[d].k = call[d].k
           /\ call'[d].x = call[d].x /\ call'[d].u = call[d].u
           /\ call'[d].pc \in Open /\ ~call'[d].stale =>
                ~call[d].stale /\ call[d].x \notin xs
  BY <1>1, WrittenEffect
<1>3. TypeOK'
  BY <1>1, <1>2 DEF GrantsInv, TypeOK, ghosts
<1>4. ASSUME NEW d \in Calls PROVE CallOK(call[d])'
  <2>1. CallOK(call[d])
    BY CallFacts
  <2>2. RequestOK(call[d])'
    BY <1>2, <2>1 DEF CallOK, RequestOK
  <2>3. PendingOK(call[d])' /\ DeliverOK(call[d])'
    BY <1>2, <2>1 DEF CallOK, PendingOK, DeliverOK, ghosts
  <2>4. OpenOK(call[d])'
    <3>1. \A x, u : Linked(x, u)' => Linked(x, u)
      BY DEF Linked
    <3>2. \A x : ~SubjectTaken(x) => ~SubjectTaken(x)'
      BY <3>1 DEF SubjectTaken
    <3> QED
      BY <1>2, <2>1, <3>1, <3>2 DEF CallOK, OpenOK
  <2> QED
    BY <2>2, <2>3, <2>4 DEF CallOK
<1>5. CallInv' /\ AloneInv'
  BY <1>2, <1>4 DEF CallInv, CallOK, GrantsInv, AloneInv
<1>6. FlowInv'
  BY DEF GrantsInv, FlowInv, ghosts
<1>7. LinkedInv'
  BY <1>1 DEF GrantsInv, LinkedInv
<1>8. OneToOne'
  BY DEF GrantsInv, OneToOne
<1>9. /\ OneExchangePerState' /\ TokensDeliveredOnce' /\ BoundToBrowser'
      /\ GrantIsItsEffect' /\ AsGranted'
  BY DEF GrantsInv, OneExchangePerState, TokensDeliveredOnce,
     BoundToBrowser, GrantIsItsEffect, AsGranted, ghosts
<1> QED
  BY <1>3, <1>5, <1>6, <1>7, <1>8, <1>9 DEF GrantsInv

LEMMA LifeSteps ==
  ASSUME GrantsInv, NEW u \in Users, Bar(u) \/ Unbar(u)
  PROVE  GrantsInv'
<1>1. PICK l \in {"active", "barred"} : user' = [user EXCEPT ![u].life = l]
  BY DEF Bar, Unbar
<1>2. user[u].life # "none" /\ UNCHANGED <<doc, grant, by, cookie, identity, ghosts>>
  BY DEF Bar, Unbar, Active
<1>3. PICK us : Written(us, {}, {}, call)
  <2>1. CASE Bar(u)
    BY <2>1 DEF Bar
  <2>2. CASE Unbar(u)
    <3>1. call' = call
      BY <2>2 DEF Unbar
    <3>2. call = [c \in Calls |-> call[c]]
      BY DEF GrantsInv, TypeOK
    <3>3. Written({}, {}, {}, call)
      <4> SUFFICES call' = [c \in Calls |-> call[c]]
        BY DEF Written
      <4> QED
        BY <3>1, <3>2
    <3> QED
      BY <3>3
  <2> QED
    BY <2>1, <2>2
<1>4. /\ user' \in [Users -> UserDoc]
      /\ \A v \in Users : /\ user'[v].email = user[v].email
                          /\ user'[v].life # "none" <=> user[v].life # "none"
  BY <1>1, <1>2 DEF GrantsInv, TypeOK, UserDoc
<1>5. \A v \in Users, x \in Subjects : HasEmail(v, x)' => HasEmail(v, x)
  BY <1>4 DEF HasEmail
<1> QED
  BY <1>2, <1>3, <1>4, <1>5, AccountStep DEF GrantsInv, OneToOne

LEMMA UnlinkStep ==
  ASSUME GrantsInv, NEW u \in Users, Unlink(u)
  PROVE  GrantsInv'
<1>1. /\ UNCHANGED <<doc, grant, by, cookie, user, ghosts>>
      /\ Written({u}, {}, {}, call)
      /\ identity' \subseteq identity
  BY DEF Unlink
<1>2. user' \in [Users -> UserDoc]
  BY <1>1 DEF GrantsInv, TypeOK
<1>3. \A v \in Users, x \in Subjects : HasEmail(v, x)' => HasEmail(v, x)
  BY <1>1 DEF HasEmail
<1> QED
  BY <1>1, <1>2, <1>3, AccountStep DEF GrantsInv, OneToOne

LEMMA RegisterStep ==
  ASSUME GrantsInv, NEW u \in Users, NEW x \in Subjects, Register(u, x)
  PROVE  GrantsInv'
<1>1. /\ user[u].life = "none" /\ \A v \in Users : ~HasEmail(v, x)
      /\ user' = [user EXCEPT ![u] = [life |-> "active", email |-> x]]
      /\ Written({u}, {}, {x}, call)
      /\ UNCHANGED <<doc, grant, by, cookie, identity, ghosts>>
  BY DEF Register
<1>2. /\ user' \in [Users -> UserDoc]
      /\ user'[u].life = "active" /\ user'[u].email = x
      /\ \A v \in Users \ {u} : user'[v] = user[v]
  BY <1>1 DEF GrantsInv, TypeOK, UserDoc
<1>3. \A v \in Users, y \in Subjects :
        HasEmail(v, y)' => (v = u /\ y = x) \/ (v # u /\ HasEmail(v, y))
  BY <1>2 DEF HasEmail
<1>4. \A v \in Users : user[v].life # "none" => user'[v].life # "none"
  BY <1>1, <1>2
<1>5. \A v \in Users, y \in Subjects : y \notin {x} /\ HasEmail(v, y)' => HasEmail(v, y)
  BY <1>3
<1>6. \A v, w \in Users : \A y \in Subjects : HasEmail(v, y)' /\ HasEmail(w, y)' => v = w
  BY <1>1, <1>3 DEF GrantsInv, OneToOne
<1> QED
  BY <1>1, <1>2, <1>4, <1>5, <1>6, AccountStep

-----------------------------------------------------------------------------
(* Steps that spend a grant                                                *)

(* A grant is spent for account u, whose email may be new.                 *)
LEMMA SpendStep ==
  ASSUME GrantsInv, NEW c \in Calls, NEW u \in Users,
         call[c].pc \in Open, ~call[c].stale, Spend(c, u),
         \A y \in Subjects : ~Linked(y, u),
         grant[call[c].f].purpose = "link" => grant[call[c].f].target = u,
         user' \in [Users -> UserDoc], user'[u].life # "none",
         \A v \in Users : user[v].life # "none" => user'[v].life # "none",
         \A v \in Users, y \in Subjects :
           y # call[c].x /\ HasEmail(v, y)' => HasEmail(v, y),
         \A v, w \in Users : \A y \in Subjects : HasEmail(v, y)' /\ HasEmail(w, y)' => v = w
  PROVE  GrantsInv'
<1> DEFINE f == call[c].f
           x == call[c].x
           r == Clearing(c, call[c].k)
<1>1. /\ f \in Flows /\ call[c].b \in Browsers /\ call[c].k \in Cookies /\ x \in Subjects
      /\ doc["grant"][f] \in {"live", "lapsed"}
      /\ ~SubjectTaken(x)
      /\ verified[f] = x /\ effects[f] = 0
  <2>1. /\ f \in Flows /\ call[c].b \in Browsers /\ call[c].k \in Cookies
        /\ x \in Subjects /\ x = grant[f].subject
        /\ doc["grant"][f] \in {"live", "lapsed"} /\ ~SubjectTaken(x)
    BY CallFacts, CallFields DEF GrantsInv, CallOK, RequestOK, OpenOK, Open
  <2> QED
    BY <2>1 DEF GrantsInv, FlowInv, GrantIsItsEffect
<1>2. /\ UNCHANGED <<grant, by, cookie, exchanges, verified, delivered>>
      /\ doc' = [doc EXCEPT !["grant"][f] = "consumed"]
      /\ identity' = identity \cup {<<x, u>>}
      /\ effects' = [effects EXCEPT ![f] = effects[f] + 1]
      /\ made' = [made EXCEPT ![f] = u]
      /\ Written({u}, {f}, {x}, r)
  BY DEF Spend
<1>3. /\ r \in [Calls -> Call]
      /\ \A d \in Calls \ {c} : r[d] = call[d]
      /\ CallOK(r[c]) /\ r[c].pc = "clear" /\ r[c].b \in Browsers
  <2> DEFINE s == [Idle EXCEPT !.pc = "clear", !.b = call[c].b, !.k = call[c].k]
  <2>1. s \in Call /\ CallOK(s)
    BY <1>1, ClearingOK
  <2>2. s.pc = "clear" /\ s.b = call[c].b
    BY DEF Idle
  <2>3. r = [call EXCEPT ![c] = s]
    BY DEF Clearing
  <2> HIDE DEF r, s, f, x
  <2> QED
    BY <1>1, <2>1, <2>2, <2>3 DEF GrantsInv, TypeOK
<1> HIDE DEF r, f, x
<1>4. /\ doc' \in [Kinds -> [Flows -> Status]]
      /\ \A g \in Flows :
           /\ doc'["state"][g] = doc["state"][g] /\ doc'["handoff"][g] = doc["handoff"][g]
           /\ doc'["grant"][g] = IF g = f THEN "consumed" ELSE doc["grant"][g]
  <2>1. TypeOK /\ "grant" \in Kinds /\ "consumed" \in Status
    BY DEF GrantsInv, Kinds, Status
  <2>2. /\ doc' \in [Kinds -> [Flows -> Status]]
        /\ \A l \in Kinds : \A g \in Flows :
             doc'[l][g] = IF l = "grant" /\ g = f THEN "consumed" ELSE doc[l][g]
    BY ZenonT(40), <1>1, <1>2, <2>1, DocEffect
  <2> QED
    BY <2>2 DEF Kinds
<1>5. /\ call' \in [Calls -> Call]
      /\ \A d \in Calls :
           /\ call'[d].pc = r[d].pc /\ call'[d].b = r[d].b
           /\ call'[d].f = r[d].f /\ call'[d].k = r[d].k
           /\ call'[d].x = r[d].x /\ call'[d].u = r[d].u
           /\ call'[d].pc \in Open /\ ~call'[d].stale =>
                /\ ~r[d].stale
                /\ r[d].u \notin {u} /\ r[d].f \notin {f} /\ r[d].x \notin {x}
  BY <1>2, <1>3, WrittenEffect
<1>6. /\ effects' \in [Flows -> Nat] /\ made' \in [Flows -> Users \cup {NoUser}]
      /\ \A g \in Flows : /\ effects'[g] = IF g = f THEN 1 ELSE effects[g]
                          /\ made'[g] = IF g = f THEN u ELSE made[g]
  BY <1>1, <1>2 DEF GrantsInv, TypeOK
<1>7. TypeOK'
  BY <1>1, <1>2, <1>4, <1>5, <1>6 DEF GrantsInv, TypeOK
<1>8. ASSUME NEW d \in Calls \ {c} PROVE CallOK(call[d])'
  <2>1. /\ CallOK(call[d])
        /\ call'[d].pc = call[d].pc /\ call'[d].b = call[d].b
        /\ call'[d].f = call[d].f /\ call'[d].k = call[d].k
        /\ call'[d].x = call[d].x /\ call'[d].u = call[d].u
        /\ call'[d].pc \in Open /\ ~call'[d].stale =>
             /\ ~call[d].stale
             /\ call[d].u # u /\ call[d].f # f /\ call[d].x # x
    BY <1>3, <1>5, CallFacts
  <2>2. call[d].pc \in Pending \cup Open \cup {"deliver"} => call[d].f \in Flows
    BY <2>1 DEF CallOK, RequestOK, Pending, Open
  <2>3. RequestOK(call[d])'
    BY <1>2, <2>1 DEF CallOK, RequestOK
  <2>4. PendingOK(call[d])'
    <3>1. call[d].pc \in Pending => call[d].f # f
      BY <1>1, <2>1 DEF CallOK, PendingOK
    <3> QED
      BY <1>2, <1>4, <2>1, <2>2, <3>1 DEF CallOK, PendingOK
  <2>5. DeliverOK(call[d])'
    BY <1>2, <1>4, <2>1, <2>2 DEF CallOK, DeliverOK
  <2>6. OpenOK(call[d])'
    <3>1. \A y, v : Linked(y, v)' => Linked(y, v) \/ (y = x /\ v = u)
      BY <1>2 DEF Linked
    <3>2. \A y : y # x /\ ~SubjectTaken(y) => ~SubjectTaken(y)'
      BY <3>1 DEF SubjectTaken
    <3>3. \A v \in Users, y \in Subjects : y # x /\ HasEmail(v, y)' => HasEmail(v, y)
      BY DEF x
    <3>4. call[d].pc \in Open =>
            /\ doc'["grant"][call[d].f] # "none"
            /\ call[d].f # f => doc'["grant"][call[d].f] = doc["grant"][call[d].f]
      BY <1>4, <2>1, <2>2 DEF CallOK, OpenOK
    <3> QED
      BY <1>2, <2>1, <3>1, <3>2, <3>3, <3>4 DEF CallOK, OpenOK
  <2> QED
    BY <2>3, <2>4, <2>5, <2>6 DEF CallOK
<1>9. CallOK(call[c])'
  BY <1>3, <1>5 DEF CallOK, RequestOK, PendingOK, OpenOK, DeliverOK, Pending, Open
<1>10. CallInv'
  BY <1>8, <1>9 DEF CallInv, CallOK
<1>11. AloneInv'
  <2>1. \A d \in Calls : call'[d].pc \in Pending \cup {"deliver"} =>
          /\ d # c
          /\ call'[d].pc = call[d].pc /\ call'[d].f = call[d].f
    BY <1>3, <1>5 DEF Pending
  <2> QED
    BY <2>1 DEF GrantsInv, AloneInv
<1>12. FlowInv'
  BY <1>1, <1>2, <1>4 DEF GrantsInv, FlowInv
<1>13. LinkedInv'
  <2>1. identity \subseteq Subjects \X Users
    BY DEF GrantsInv, TypeOK
  <2> QED
    BY <1>2, <2>1 DEF GrantsInv, LinkedInv
<1>14. GrantIsItsEffect'
  BY <1>4, <1>6 DEF GrantsInv, GrantIsItsEffect
<1>15. AsGranted'
  <2>1. \A i \in identity : \E g \in Flows :
          /\ effects'[g] = 1 /\ verified'[g] = i[1] /\ made'[g] = i[2]
          /\ grant'[g].purpose = "link" => grant'[g].target = i[2]
    BY <1>1, <1>2, <1>6 DEF GrantsInv, AsGranted
  <2>2. /\ effects'[f] = 1 /\ verified'[f] = <<x, u>>[1] /\ made'[f] = <<x, u>>[2]
        /\ grant'[f].purpose = "link" => grant'[f].target = <<x, u>>[2]
    BY <1>1, <1>2, <1>6 DEF f
  <2> QED
    BY <1>1, <1>2, <2>1, <2>2 DEF AsGranted
<1>16. OneToOne'
  <2>1. \A i \in identity : i = <<i[1], i[2]>> /\ i[1] # x /\ i[2] # u
    <3>1. \A i \in identity : /\ i = <<i[1], i[2]>> /\ i[1] \in Subjects /\ i[2] \in Users
      BY DEF GrantsInv, TypeOK
    <3> QED
      BY SMTT(30), <1>1, <3>1 DEF SubjectTaken, Linked
  <2>2. \A i, j \in identity' : i[1] = j[1] \/ i[2] = j[2] => i = j
    BY <1>2, <2>1 DEF GrantsInv, OneToOne
  <2> QED
    BY <2>2 DEF OneToOne
<1>17. OneExchangePerState' /\ TokensDeliveredOnce' /\ BoundToBrowser'
  BY <1>2 DEF GrantsInv, OneExchangePerState, TokensDeliveredOnce, BoundToBrowser
<1> QED
  BY <1>7, <1>10, <1>11, <1>12, <1>13, <1>14, <1>15, <1>16, <1>17 DEF GrantsInv

LEMMA CommitLinkStep ==
  ASSUME GrantsInv, NEW c \in Calls, CommitLink(c)
  PROVE  GrantsInv'
<1>1. /\ call[c].pc = "openLink" /\ ~call[c].stale /\ CallOK(call[c])
      /\ Spend(c, call[c].u) /\ user' = user
  BY CallFacts DEF CommitLink
<1>2. /\ call[c].pc \in Open /\ call[c].u \in Users /\ user[call[c].u].life # "none"
      /\ \A y \in Subjects : ~Linked(y, call[c].u)
      /\ grant[call[c].f].target = call[c].u
  BY <1>1 DEF CallOK, RequestOK, OpenOK, Open
<1>3. \A v \in Users, y \in Subjects : HasEmail(v, y)' => HasEmail(v, y)
  BY <1>1 DEF HasEmail
<1>4. user' \in [Users -> UserDoc]
  BY <1>1 DEF GrantsInv, TypeOK
<1> QED
  BY <1>1, <1>2, <1>3, <1>4, SpendStep DEF GrantsInv, OneToOne

LEMMA CommitRegistrationStep ==
  ASSUME GrantsInv, NEW c \in Calls, NEW u \in Users, CommitRegistration(c, u)
  PROVE  GrantsInv'
<1> DEFINE x == call[c].x
<1>1. /\ call[c].pc = "openRegistration" /\ ~call[c].stale /\ CallOK(call[c])
      /\ user[u].life = "none" /\ Spend(c, u)
      /\ user' = [user EXCEPT ![u] = [life |-> "active", email |-> x]]
  BY CallFacts DEF CommitRegistration
<1>2. /\ call[c].pc \in Open /\ x \in Subjects
      /\ \A v \in Users : ~HasEmail(v, x)
      /\ grant[call[c].f].purpose = "registration"
  BY <1>1 DEF CallOK, RequestOK, OpenOK, Open
<1> HIDE DEF x
<1>3. /\ user' \in [Users -> UserDoc]
      /\ user'[u].life = "active" /\ user'[u].email = x
      /\ \A v \in Users \ {u} : user'[v] = user[v]
  BY <1>1, <1>2 DEF GrantsInv, TypeOK, UserDoc
<1>4. \A y \in Subjects : ~Linked(y, u)
  BY <1>1 DEF GrantsInv, LinkedInv, Linked
<1>5. \A v \in Users, y \in Subjects :
        HasEmail(v, y)' => (v = u /\ y = x) \/ (v # u /\ HasEmail(v, y))
  BY <1>3 DEF HasEmail
<1>6. \A v \in Users : user[v].life # "none" => user'[v].life # "none"
  BY <1>1, <1>3
<1>7. \A v \in Users, y \in Subjects : y # call[c].x /\ HasEmail(v, y)' => HasEmail(v, y)
  BY <1>5 DEF x
<1>8. \A v, w \in Users : \A y \in Subjects : HasEmail(v, y)' /\ HasEmail(w, y)' => v = w
  BY <1>2, <1>5 DEF GrantsInv, OneToOne
<1> QED
  BY <1>1, <1>2, <1>3, <1>4, <1>6, <1>7, <1>8, SpendStep

-----------------------------------------------------------------------------
(* The theorem                                                             *)

LEMMA NoGrantType == NoGrant \in Grant
  BY DEF NoGrant, Grant

LEMMA InitGrants == Init => GrantsInv
<1> SUFFICES ASSUME Init PROVE GrantsInv
  OBVIOUS
<1>1. \A c \in Calls : call[c] = Idle /\ call[c].pc = "idle"
  BY DEF Init, Idle
<1>2. /\ doc \in [Kinds -> [Flows -> Status]]
      /\ \A k \in Kinds : \A f \in Flows : doc[k][f] = "none"
      /\ "state" \in Kinds /\ "grant" \in Kinds /\ "handoff" \in Kinds
  BY DEF Init, Status, Kinds
<1>3. user \in [Users -> UserDoc]
  BY DEF Init, UserDoc
<1>4. TypeOK
  BY <1>2, <1>3, IdleType, NoGrantType DEF Init, TypeOK
<1>5. CallInv /\ AloneInv
  BY <1>1, IdleOK DEF CallInv, CallOK, AloneInv, Pending
<1>6. FlowInv /\ LinkedInv /\ GrantIsItsEffect
  BY <1>2 DEF Init, FlowInv, LinkedInv, GrantIsItsEffect
<1>7. OneExchangePerState /\ TokensDeliveredOnce /\ BoundToBrowser /\ AsGranted
  BY DEF Init, OneExchangePerState, TokensDeliveredOnce, BoundToBrowser, AsGranted
<1>8. OneToOne
  <2>1. identity = {} /\ \A u, v \in Users :
          user[u].email = user[v].email => u = v \/ user[u].email = NoSubject
    BY DEF Init
  <2> QED
    BY <2>1, NoneAssumption DEF OneToOne, HasEmail
<1> QED
  BY <1>4, <1>5, <1>6, <1>7, <1>8 DEF GrantsInv

LEMMA StutterGrants == GrantsInv /\ UNCHANGED vars => GrantsInv'
<1> SUFFICES ASSUME GrantsInv, UNCHANGED vars PROVE GrantsInv'
  OBVIOUS
<1>1. UNCHANGED <<doc, grant, by, cookie, call, user, identity,
                  exchanges, verified, effects, made, delivered>>
  BY DEF vars, accounts, ghosts
<1>2. (TypeOK /\ AloneInv /\ FlowInv /\ LinkedInv)'
  BY <1>1 DEF GrantsInv, TypeOK, AloneInv, FlowInv, LinkedInv
<1>3. CallInv'
  BY <1>1 DEF GrantsInv, CallInv, RequestOK, PendingOK, OpenOK, DeliverOK,
     SubjectTaken, Linked, HasEmail
<1>4. /\ OneExchangePerState' /\ BoundToBrowser' /\ GrantIsItsEffect'
      /\ OneToOne' /\ AsGranted' /\ TokensDeliveredOnce'
  BY <1>1 DEF GrantsInv, OneExchangePerState, BoundToBrowser, GrantIsItsEffect,
     OneToOne, AsGranted, TokensDeliveredOnce, HasEmail
<1> QED
  BY <1>2, <1>3, <1>4 DEF GrantsInv

LEMMA NextGrants == GrantsInv /\ [Next]_vars => GrantsInv'
<1> SUFFICES ASSUME GrantsInv, [Next]_vars PROVE GrantsInv'
  OBVIOUS
<1>1. ASSUME NEW b \in Browsers, NEW f \in Flows, Start(b, f) PROVE GrantsInv'
  BY <1>1, StartStep
<1>2. ASSUME NEW c \in Calls, CallbackStep(c) PROVE GrantsInv'
  <2>1. ASSUME NEW b \in Browsers, NEW f \in Flows, Callback(c, b, f) PROVE GrantsInv'
    BY <2>1, CallbackStepQuiet
  <2>2. CASE Consume(c)
    BY <2>2, ConsumeStep
  <2>3. ASSUME NEW x \in Subjects, Exchange(c, x) PROVE GrantsInv'
    BY <2>3, ExchangeStep
  <2>4. CASE ResolveIdentity(c)
    BY <2>4, ResolveIdentityQuiet
  <2>5. CASE ResolveByEmail(c)
    BY <2>5, ResolveByEmailQuiet
  <2>6. CASE SignIn(c)
    BY <2>6, SignInStep
  <2>7. CASE IssueGrant(c)
    BY <2>7, IssueGrantStep
  <2>8. CASE AnswerCallback(c)
    BY <2>8, AnswerCallbackQuiet
  <2>9. CASE FailCallback(c)
    BY <2>9, FailuresQuiet
  <2> QED
    BY <1>2, <2>1, <2>2, <2>3, <2>4, <2>5, <2>6, <2>7, <2>8, <2>9 DEF CallbackStep
<1>3. ASSUME NEW c \in Calls, ContinuationStep(c) PROVE GrantsInv'
  <2>1. CASE \E b \in Browsers : \/ RegistrationRequest(c, b)
                                \/ \E u \in Users : LinkRequest(c, b, u)
    BY <2>1, RequestQuiet
  <2>2. CASE OpenLink(c)
    BY <2>2, OpenLinkQuiet
  <2>3. CASE OpenRegistration(c)
    BY <2>3, OpenRegistrationQuiet
  <2>4. CASE CommitLink(c)
    BY <2>4, CommitLinkStep
  <2>5. ASSUME NEW u \in Users, CommitRegistration(c, u) PROVE GrantsInv'
    BY <2>5, CommitRegistrationStep
  <2>6. CASE RunAgain(c)
    BY <2>6, RunAgainQuiet
  <2>7. CASE RefuseGrant(c)
    BY <2>7, FailuresQuiet
  <2> QED
    BY <1>3, <2>1, <2>2, <2>3, <2>4, <2>5, <2>6, <2>7 DEF ContinuationStep
<1>4. ASSUME NEW c \in Calls, SessionStep(c) PROVE GrantsInv'
  <2>1. CASE \E b \in Browsers : Redeem(c, b)
    BY <2>1, RequestQuiet
  <2>2. CASE ConsumeHandoff(c)
    BY <2>2, ConsumeHandoffStep
  <2>3. CASE RefuseHandoff(c)
    BY <2>3, FailuresQuiet
  <2>4. CASE Deliver(c)
    BY <2>4, DeliverStep
  <2> QED
    BY <1>4, <2>1, <2>2, <2>3, <2>4 DEF SessionStep
<1>5. ASSUME NEW c \in Calls, Clear(c) \/ Lose(c) PROVE GrantsInv'
  BY <1>5, ClearQuiet, LoseQuiet
<1>6. ASSUME Environment PROVE GrantsInv'
  <2>1. ASSUME NEW f \in Flows, Purge(f) PROVE GrantsInv'
    BY <2>1, PurgeStep
  <2>2. ASSUME NEW f \in Flows, NEW k \in Kinds, Lapse(k, f) PROVE GrantsInv'
    BY <2>2, LapseStep
  <2>3. ASSUME NEW u \in Users, Bar(u) \/ Unbar(u) PROVE GrantsInv'
    BY <2>3, LifeSteps
  <2>4. ASSUME NEW u \in Users, Unlink(u) PROVE GrantsInv'
    BY <2>4, UnlinkStep
  <2>5. ASSUME NEW u \in Users, NEW x \in Subjects, Register(u, x) PROVE GrantsInv'
    BY <2>5, RegisterStep
  <2> QED
    BY <1>6, <2>1, <2>2, <2>3, <2>4, <2>5 DEF Environment
<1>7. CASE UNCHANGED vars
  BY <1>7, StutterGrants
<1> QED
  BY <1>1, <1>2, <1>3, <1>4, <1>5, <1>6, <1>7 DEF Next

(* Every reachable state satisfies the invariant: the documents are good   *)
(* once, whatever requests, browsers and losses there are.                 *)
THEOREM GrantsCorrect == Spec => []GrantsInv
<1>1. Init => GrantsInv
  BY InitGrants
<1>2. GrantsInv /\ [Next]_vars => GrantsInv'
  BY NextGrants
<1> QED
  BY <1>1, <1>2, PTL DEF Spec

(* A state buys one exchange and a handoff one answer with its tokens      *)
(* (consumeAuthorization, consumeHandoff).                                 *)
THEOREM UsedOnce == Spec => []SecretsUsedOnce
<1>1. GrantsInv => SecretsUsedOnce
  BY DEF GrantsInv, SecretsUsedOnce
<1> QED
  BY <1>1, GrantsCorrect, PTL

(* A browser holds secrets of its own flows only (handleCallback).         *)
THEOREM SecretsStayInTheirBrowser == Spec => []BoundToBrowser
<1>1. GrantsInv => BoundToBrowser
  BY DEF GrantsInv
<1> QED
  BY <1>1, GrantsCorrect, PTL

(* A grant is consumed if and only if its link or registration is made     *)
(* (consumeGrant inside the transaction).                                  *)
THEOREM GrantsAreTheirEffects == Spec => []GrantIsItsEffect
<1>1. GrantsInv => GrantIsItsEffect
  BY DEF GrantsInv
<1> QED
  BY <1>1, GrantsCorrect, PTL

(* Identities, accounts and emails stay one to one (hasGoogleLinkConflict  *)
(* and the unique indexes).                                                *)
THEOREM IdentitiesOneToOne == Spec => []OneToOne
<1>1. GrantsInv => OneToOne
  BY DEF GrantsInv
<1> QED
  BY <1>1, GrantsCorrect, PTL

(* No account gets an identity but as its grant says (consumeGrant).       *)
THEOREM IdentitiesAsGranted == Spec => []AsGranted
<1>1. GrantsInv => AsGranted
  BY DEF GrantsInv
<1> QED
  BY <1>1, GrantsCorrect, PTL
=============================================================================
