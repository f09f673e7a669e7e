----------------------------- MODULE OneTimeGrants -----------------------------
(***************************************************************************)
(* Signing in, linking and registering with Google, from the first         *)
(* redirect to the tokens:                                                 *)
(*                                                                         *)
(*   src/src/modules/auth/controllers/google-oauth-*.controller.ts         *)
(*   src/src/modules/auth/services/google-oauth-*.service.ts               *)
(*                                                                         *)
(* A flow is one authorization.  It stores a document for its state, and   *)
(* its callback stores one more: the handoff of a session, or a grant to   *)
(* go on with.  Each is good once, within its time, and the browser has    *)
(* the secret of each in a cookie.  State and handoff are consumed by a    *)
(* compare-and-set before anything is done; a grant is consumed inside the *)
(* transaction that links or registers, and is back when that aborts.      *)
(*                                                                         *)
(* Documents are named by the flow they come from.  The transactions of    *)
(* sign-in and unlink are steps: their overlaps with what else changes an  *)
(* account are the subject of AuthSessions.                                *)
(***************************************************************************)
EXTENDS Naturals, FiniteSets

CONSTANTS
  Flows,      \* authorizations that can be begun
  Browsers,
  Calls,      \* requests in progress
  Subjects,   \* Google accounts; each has an email of its own
  Users,      \* accounts that exist or can be created
  NoFlow, NoBrowser, NoSubject, NoUser

ASSUME NoneAssumption ==
  /\ NoFlow \notin Flows
  /\ NoBrowser \notin Browsers
  /\ NoSubject \notin Subjects
  /\ NoUser \notin Users

VARIABLES
  doc,        \* the three collections, by flow: consumedAt and expiresAt
  grant,      \* purpose, providerAccountId and targetUserId of each grant
  by,         \* the browser each flow was answered to
  cookie,     \* the cookies of each browser
  call,       \* requests in progress
  user,       \* users collection: life and email
  identity,   \* oauth identities, as pairs of subject and account
  exchanges,  \* ghost: codes exchanged, by flow
  verified,   \* ghost: the subject Google has answered, by flow
  effects,    \* ghost: links and registrations committed, by flow
  made,       \* ghost: the account such an effect gave the identity to
  delivered   \* ghost: answers that carried the tokens of the handoff

accounts == <<user, identity>>
ghosts == <<exchanges, verified, effects, made, delivered>>
vars == <<doc, grant, by, cookie, call, accounts, ghosts>>

Kinds == {"state", "grant", "handoff"}

Status == {"none", "live", "lapsed", "consumed", "gone"}

Cookies == {"state", "link", "registration", "handoff"}

Grant == [purpose : {"link", "registration"},
          subject : Subjects \cup {NoSubject},
          target  : Users \cup {NoUser}]

NoGrant == [purpose |-> "link", subject |-> NoSubject, target |-> NoUser]

UserDoc == [life : {"none", "active", "barred"}, email : Subjects \cup {NoSubject}]

(* Between the consumption of the state and the document that follows it.  *)
Pending == {"exchange", "identity", "byEmail", "signIn", "issue"}

(* A transaction that has consumed a grant is open.                        *)
Open == {"openLink", "openRegistration"}

Call == [pc : {"idle", "consume", "answer", "link",
               "registration", "redeem", "deliver", "clear"}
              \cup Pending \cup Open,
         b : Browsers \cup {NoBrowser},
         f : Flows \cup {NoFlow},
         k : Cookies,              \* the cookie it will write or clear
         x : Subjects \cup {NoSubject},
         u : Users \cup {NoUser},
         stale : BOOLEAN]          \* its snapshot has been overtaken

Idle == [pc |-> "idle", b |-> NoBrowser, f |-> NoFlow, k |-> "state",
         x |-> NoSubject, u |-> NoUser, stale |-> FALSE]

TypeOK ==
  /\ doc \in [Kinds -> [Flows -> Status]]
  /\ grant \in [Flows -> Grant]
  /\ by \in [Flows -> Browsers \cup {NoBrowser}]
  /\ cookie \in [Browsers -> [Cookies -> Flows \cup {NoFlow}]]
  /\ call \in [Calls -> Call]
  /\ user \in [Users -> UserDoc]
  /\ identity \subseteq Subjects \X Users
  /\ exchanges \in [Flows -> Nat]
  /\ verified \in [Flows -> Subjects \cup {NoSubject}]
  /\ effects \in [Flows -> Nat]
  /\ made \in [Flows -> Users \cup {NoUser}]
  /\ delivered \in [Flows -> Nat]

-----------------------------------------------------------------------------
Active(u) == user[u].life = "active"

HasEmail(u, x) == user[u].life # "none" /\ user[u].email = x

Linked(x, u) == <<x, u>> \in identity

SubjectTaken(x) == \E u \in Users : Linked(x, u)

(* hasGoogleLinkConflict                                                   *)
LinkConflict(x, u) ==
  \/ SubjectTaken(x)
  \/ \E y \in Subjects : Linked(y, u)

Goto(c, pc) == call' = [call EXCEPT ![c].pc = pc]

Done(c) == call' = [call EXCEPT ![c] = Idle]

(* The answer of c will clear cookie k of its browser.                     *)
Clearing(c, k) ==
  [call EXCEPT ![c] = [Idle EXCEPT !.pc = "clear", !.b = call[c].b, !.k = k]]

(* Accounts us, grants fs or keys of the subjects xs are written: open     *)
(* transactions that use them are stale from here on.                      *)
Written(us, fs, xs, r) ==
  call' = [c \in Calls |->
             IF r[c].pc \in Open /\ (r[c].u \in us \/ r[c].f \in fs \/ r[c].x \in xs)
             THEN [r[c] EXCEPT !.stale = TRUE] ELSE r[c]]

-----------------------------------------------------------------------------
(* The start                                                               *)

(* beginAuthorization stores the state, and the redirect to Google carries *)
(* it in a cookie.  Of a start whose answer is lost nobody knows the state.*)
Start(b, f) ==
  /\ doc["state"][f] = "none"
  /\ doc' = [doc EXCEPT !["state"][f] = "live"]
  /\ by' = [by EXCEPT ![f] = b]
  /\ cookie' = [cookie EXCEPT ![b]["state"] = f]
  /\ UNCHANGED <<grant, call, accounts, ghosts>>

-----------------------------------------------------------------------------
(* The callback                                                            *)

(* Faulty variant: the state is not compared with the cookie.              *)
CallbackAnyBrowser(c, b, f) ==
  /\ call[c].pc = "idle" /\ by[f] # NoBrowser
  /\ call' = [call EXCEPT ![c] = [Idle EXCEPT !.pc = "consume", !.b = b, !.f = f]]
  /\ UNCHANGED <<doc, grant, by, cookie, accounts, ghosts>>

(* Google sends some browser to the callback of f, and it may come again.  *)
(* Without the cookie nothing is consumed.                                 *)
Callback(c, b, f) ==
  /\ call[c].pc = "idle" /\ by[f] # NoBrowser
  /\ call' = [call EXCEPT ![c] =
                [Idle EXCEPT !.pc = IF cookie[b]["state"] = f THEN "consume" ELSE "clear",
                             !.b = b, !.f = f]]
  /\ UNCHANGED <<doc, grant, by, cookie, accounts, ghosts>>

(* Faulty variant: the filter does without consumedAt.                     *)
ConsumeAgain(c) ==
  LET f == call[c].f IN
  /\ call[c].pc = "consume"
  /\ doc["state"][f] \in {"live", "consumed"}
  /\ doc' = [doc EXCEPT !["state"][f] = "consumed"]
  /\ Goto(c, "exchange")
  /\ UNCHANGED <<grant, by, cookie, accounts, ghosts>>

(* consumeAuthorization                                                    *)
Consume(c) ==
  LET f == call[c].f IN
  /\ call[c].pc = "consume"
  /\ doc["state"][f] = "live"
  /\ doc' = [doc EXCEPT !["state"][f] = "consumed"]
  /\ Goto(c, "exchange")
  /\ UNCHANGED <<grant, by, cookie, accounts, ghosts>>

(* exchangeAuthorizationCode: Google answers who has signed in.            *)
Exchange(c, x) ==
  LET f == call[c].f IN
  /\ call[c].pc = "exchange"
  /\ exchanges' = [exchanges EXCEPT ![f] = @ + 1]
  /\ verified' = [verified EXCEPT ![f] = x]
  /\ call' = [call EXCEPT ![c].pc = "identity", ![c].x = x]
  /\ UNCHANGED <<doc, grant, by, cookie, accounts, effects, made, delivered>>

(* The resolver reads the identity and its account, or else goes on to     *)
(* look for an account by the email.                                       *)
ResolveIdentity(c) ==
  /\ call[c].pc = "identity"
  /\ \/ \E u \in Users :
          /\ Linked(call[c].x, u) /\ Active(u)
          /\ call' = [call EXCEPT ![c].pc = "signIn", ![c].u = u]
     \/ ~SubjectTaken(call[c].x) /\ Goto(c, "byEmail")
  /\ UNCHANGED <<doc, grant, by, cookie, accounts, ghosts>>

(* An account that is barred keeps its email and ends the flow.            *)
ResolveByEmail(c) ==
  /\ call[c].pc = "byEmail"
  /\ \/ \E u \in Users :
          /\ HasEmail(u, call[c].x) /\ Active(u)
          /\ call' = [call EXCEPT ![c].pc = "issue", ![c].k = "link", ![c].u = u]
     \/ /\ \A u \in Users : ~HasEmail(u, call[c].x)
        /\ call' = [call EXCEPT ![c].pc = "issue", ![c].k = "registration"]
  /\ UNCHANGED <<doc, grant, by, cookie, accounts, ghosts>>

(* signInLinkedAccount: the session and its handoff in one transaction.    *)
SignIn(c) ==
  LET r == call[c] IN
  /\ r.pc = "signIn"
  /\ Linked(r.x, r.u) /\ Active(r.u)
  /\ doc' = [doc EXCEPT !["handoff"][r.f] = "live"]
  /\ Written({r.u}, {}, {}, [call EXCEPT ![c].pc = "answer", ![c].k = "handoff"])
  /\ UNCHANGED <<grant, by, cookie, accounts, ghosts>>

(* issueLinkGrant and issueRegistrationGrant                               *)
IssueGrant(c) ==
  LET r == call[c] IN
  /\ r.pc = "issue"
  /\ doc' = [doc EXCEPT !["grant"][r.f] = "live"]
  /\ grant' = [grant EXCEPT ![r.f] =
                 [purpose |-> IF r.k = "link" THEN "link" ELSE "registration",
                  subject |-> r.x, target |-> r.u]]
  /\ Goto(c, "answer")
  /\ UNCHANGED <<by, cookie, accounts, ghosts>>

(* The redirect clears the state and carries the secret, unless its time   *)
(* has run out by now.                                                     *)
AnswerCallback(c) ==
  LET r == call[c]
      stored == IF r.k = "handoff" THEN "handoff" ELSE "grant"
  IN
  /\ r.pc = "answer"
  /\ cookie' = [cookie EXCEPT ![r.b] =
       [k \in Cookies |-> IF k = "state" THEN NoFlow
                          ELSE IF k = r.k /\ doc[stored][r.f] = "live" THEN r.f
                          ELSE cookie[r.b][k]]]
  /\ Done(c)
  /\ UNCHANGED <<doc, grant, by, accounts, ghosts>>

(* The state is not good, the callback comes with an error instead of a    *)
(* code, the provider or the database fails, or the account may not sign   *)
(* in: the answer clears the state.                                        *)
FailCallback(c) ==
  /\ \/ call[c].pc = "consume" /\ doc["state"][call[c].f] # "live"
     \/ call[c].pc \in Pending
  /\ call' = Clearing(c, "state")
  /\ UNCHANGED <<doc, grant, by, cookie, accounts, ghosts>>

-----------------------------------------------------------------------------
(* The grant                                                               *)

(* u is who is signed in.                                                  *)
LinkRequest(c, b, u) ==
  /\ call[c].pc = "idle"
  /\ cookie[b]["link"] # NoFlow /\ Active(u)
  /\ call' = [call EXCEPT ![c] = [Idle EXCEPT !.pc = "link", !.b = b, !.k = "link",
                                              !.f = cookie[b]["link"], !.u = u]]
  /\ UNCHANGED <<doc, grant, by, cookie, accounts, ghosts>>

RegistrationRequest(c, b) ==
  /\ call[c].pc = "idle"
  /\ cookie[b]["registration"] # NoFlow
  /\ call' = [call EXCEPT ![c] =
                [Idle EXCEPT !.pc = "registration", !.b = b, !.k = "registration",
                             !.f = cookie[b]["registration"]]]
  /\ UNCHANGED <<doc, grant, by, cookie, accounts, ghosts>>

(* Faulty variant: the filter does without targetUserId.                   *)
GrantedAnyUser(c) ==
  LET r == call[c] IN
  doc["grant"][r.f] = "live" /\ grant[r.f].purpose = r.k

(* The filter of consumeGrant.                                             *)
Granted(c) ==
  LET r == call[c] IN
  /\ doc["grant"][r.f] = "live"
  /\ grant[r.f].purpose = r.k /\ grant[r.f].target = r.u

(* Faulty variant: the grant is consumed ahead of the transaction.         *)
OpenLinkConsumes(c) ==
  LET f == call[c].f  x == grant[f].subject IN
  /\ call[c].pc = "link" /\ Granted(c)
  /\ Active(call[c].u) /\ ~LinkConflict(x, call[c].u)
  /\ doc' = [doc EXCEPT !["grant"][f] = "consumed"]
  /\ call' = [call EXCEPT ![c].pc = "openLink", ![c].x = x, ![c].stale = FALSE]
  /\ UNCHANGED <<grant, by, cookie, accounts, ghosts>>

(* linkInsideTransaction up to the commit.                                 *)
OpenLink(c) ==
  LET x == grant[call[c].f].subject IN
  /\ call[c].pc = "link" /\ Granted(c)
  /\ Active(call[c].u) /\ ~LinkConflict(x, call[c].u)
  /\ call' = [call EXCEPT ![c].pc = "openLink", ![c].x = x, ![c].stale = FALSE]
  /\ UNCHANGED <<doc, grant, by, cookie, accounts, ghosts>>

(* completeInsideTransaction up to the commit.                             *)
OpenRegistration(c) ==
  LET x == grant[call[c].f].subject IN
  /\ call[c].pc = "registration" /\ Granted(c)
  /\ \A u \in Users : ~HasEmail(u, x)
  /\ ~SubjectTaken(x)
  /\ call' = [call EXCEPT ![c].pc = "openRegistration", ![c].x = x,
                          ![c].stale = FALSE]
  /\ UNCHANGED <<doc, grant, by, cookie, accounts, ghosts>>

(* The grant of call c is consumed, and account u has the identity.        *)
Spend(c, u) ==
  LET r == call[c] IN
  /\ doc' = [doc EXCEPT !["grant"][r.f] = "consumed"]
  /\ identity' = identity \cup {<<r.x, u>>}
  /\ effects' = [effects EXCEPT ![r.f] = @ + 1]
  /\ made' = [made EXCEPT ![r.f] = u]
  /\ Written({u}, {r.f}, {r.x}, Clearing(c, r.k))
  /\ UNCHANGED <<grant, by, cookie, exchanges, verified, delivered>>

CommitLink(c) ==
  /\ call[c].pc = "openLink" /\ ~call[c].stale
  /\ Spend(c, call[c].u)
  /\ UNCHANGED user

(* Faulty variant: no unique index stands against a stale read.            *)
CommitRegistrationStale(c, u) ==
  /\ call[c].pc = "openRegistration"
  /\ user[u].life = "none"
  /\ user' = [user EXCEPT ![u] = [life |-> "active", email |-> call[c].x]]
  /\ Spend(c, u)

CommitRegistration(c, u) ==
  /\ call[c].pc = "openRegistration" /\ ~call[c].stale
  /\ user[u].life = "none"
  /\ user' = [user EXCEPT ![u] = [life |-> "active", email |-> call[c].x]]
  /\ Spend(c, u)

(* A conflict, or a transient error: the callback runs again.              *)
RunAgain(c) ==
  /\ call[c].pc \in Open
  /\ call' = [call EXCEPT ![c].pc = IF @ = "openLink" THEN "link" ELSE "registration",
                          ![c].x = NoSubject, ![c].stale = FALSE]
  /\ UNCHANGED <<doc, grant, by, cookie, accounts, ghosts>>

(* A grant that is refused clears its cookie; any other failure keeps it.  *)
RefuseGrant(c) ==
  /\ call[c].pc \in {"link", "registration"} /\ ~Granted(c)
  /\ call' = Clearing(c, call[c].k)
  /\ UNCHANGED <<doc, grant, by, cookie, accounts, ghosts>>

-----------------------------------------------------------------------------
(* The handoff                                                             *)

Redeem(c, b) ==
  /\ call[c].pc = "idle"
  /\ cookie[b]["handoff"] # NoFlow
  /\ call' = [call EXCEPT ![c] = [Idle EXCEPT !.pc = "redeem", !.b = b, !.k = "handoff",
                                              !.f = cookie[b]["handoff"]]]
  /\ UNCHANGED <<doc, grant, by, cookie, accounts, ghosts>>

(* Faulty variant: the filter does without consumedAt.                     *)
ConsumeHandoffAgain(c) ==
  LET f == call[c].f IN
  /\ call[c].pc = "redeem" /\ doc["handoff"][f] \in {"live", "consumed"}
  /\ doc' = [doc EXCEPT !["handoff"][f] = "consumed"]
  /\ Goto(c, "deliver")
  /\ UNCHANGED <<grant, by, cookie, accounts, ghosts>>

ConsumeHandoff(c) ==
  LET f == call[c].f IN
  /\ call[c].pc = "redeem" /\ doc["handoff"][f] = "live"
  /\ doc' = [doc EXCEPT !["handoff"][f] = "consumed"]
  /\ Goto(c, "deliver")
  /\ UNCHANGED <<grant, by, cookie, accounts, ghosts>>

RefuseHandoff(c) ==
  /\ call[c].pc = "redeem" /\ doc["handoff"][call[c].f] # "live"
  /\ call' = Clearing(c, "handoff")
  /\ UNCHANGED <<doc, grant, by, cookie, accounts, ghosts>>

Deliver(c) ==
  /\ call[c].pc = "deliver"
  /\ delivered' = [delivered EXCEPT ![call[c].f] = @ + 1]
  /\ cookie' = [cookie EXCEPT ![call[c].b]["handoff"] = NoFlow]
  /\ Done(c)
  /\ UNCHANGED <<doc, grant, by, accounts, exchanges, verified, effects, made>>

-----------------------------------------------------------------------------
(* Answers, time and the accounts                                          *)

(* The cookie is cleared whichever secret it holds by now.                 *)
Clear(c) ==
  /\ call[c].pc = "clear"
  /\ cookie' = [cookie EXCEPT ![call[c].b][call[c].k] = NoFlow]
  /\ Done(c)
  /\ UNCHANGED <<doc, grant, by, accounts, ghosts>>

(* The process dies, the request fails in a way that touches no cookie, or *)
(* the answer is lost: what is committed stays, what is open is undone.    *)
Lose(c) ==
  /\ call[c].pc # "idle"
  /\ call' = [call EXCEPT ![c] = Idle]
  /\ UNCHANGED <<doc, grant, by, cookie, accounts, ghosts>>

(* expiresAt is over: no write, and a transaction that is open may commit. *)
Lapse(k, f) ==
  /\ doc[k][f] = "live"
  /\ doc' = [doc EXCEPT ![k][f] = "lapsed"]
  /\ UNCHANGED <<grant, by, cookie, call, accounts, ghosts>>

(* The TTL index removes a grant.  That it removes states and handoffs     *)
(* nobody can consume any more makes no difference.                        *)
Purge(f) ==
  /\ doc["grant"][f] \in {"lapsed", "consumed"}
  /\ doc' = [doc EXCEPT !["grant"][f] = "gone"]
  /\ Written({}, {f}, {}, call)
  /\ UNCHANGED <<grant, by, cookie, accounts, ghosts>>

(* An account is locked, suspended or deleted; its email stays taken.      *)
Bar(u) ==
  /\ Active(u)
  /\ user' = [user EXCEPT ![u].life = "barred"]
  /\ Written({u}, {}, {}, call)
  /\ UNCHANGED <<doc, grant, by, cookie, identity, ghosts>>

(* A lock runs out, or a suspension is lifted.                             *)
Unbar(u) ==
  /\ user[u].life = "barred"
  /\ user' = [user EXCEPT ![u].life = "active"]
  /\ UNCHANGED <<doc, grant, by, cookie, call, identity, ghosts>>

(* unlinkGoogleAccount                                                     *)
Unlink(u) ==
  /\ Active(u)
  /\ \E x \in Subjects : Linked(x, u)
  /\ identity' = {i \in identity : i[2] # u}
  /\ Written({u}, {}, {}, call)
  /\ UNCHANGED <<doc, grant, by, cookie, user, ghosts>>

(* register with a password, under the email of a Google account.          *)
Register(u, x) ==
  /\ user[u].life = "none"
  /\ \A v \in Users : ~HasEmail(v, x)
  /\ user' = [user EXCEPT ![u] = [life |-> "active", email |-> x]]
  /\ Written({u}, {}, {x}, call)
  /\ UNCHANGED <<doc, grant, by, cookie, identity, ghosts>>

-----------------------------------------------------------------------------
(* Some accounts exist, no two with one email; none is linked.             *)
Init ==
  /\ doc = [k \in Kinds |-> [f \in Flows |-> "none"]]
  /\ grant = [f \in Flows |-> NoGrant]
  /\ by = [f \in Flows |-> NoBrowser]
  /\ cookie = [b \in Browsers |-> [k \in Cookies |-> NoFlow]]
  /\ call = [c \in Calls |-> Idle]
  /\ user \in [Users -> {[life |-> "none", email |-> NoSubject]} \cup
                        [life : {"active"}, email : Subjects \cup {NoSubject}]]
  /\ \A u, v \in Users :
       user[u].email = user[v].email => u = v \/ user[u].email = NoSubject
  /\ identity = {}
  /\ exchanges = [f \in Flows |-> 0]
  /\ verified = [f \in Flows |-> NoSubject]
  /\ effects = [f \in Flows |-> 0]
  /\ made = [f \in Flows |-> NoUser]
  /\ delivered = [f \in Flows |-> 0]

CallbackStep(c) ==
  \/ \E b \in Browsers, f \in Flows : Callback(c, b, f)
  \/ Consume(c)
  \/ \E x \in Subjects : Exchange(c, x)
  \/ ResolveIdentity(c) \/ ResolveByEmail(c)
  \/ SignIn(c) \/ IssueGrant(c) \/ AnswerCallback(c) \/ FailCallback(c)

ContinuationStep(c) ==
  \/ \E b \in Browsers : RegistrationRequest(c, b) \/ \E u \in Users : LinkRequest(c, b, u)
  \/ OpenLink(c) \/ OpenRegistration(c) \/ CommitLink(c)
  \/ \E u \in Users : CommitRegistration(c, u)
  \/ RunAgain(c) \/ RefuseGrant(c)

SessionStep(c) ==
  \/ \E b \in Browsers : Redeem(c, b)
  \/ ConsumeHandoff(c) \/ RefuseHandoff(c) \/ Deliver(c)

Environment ==
  \/ \E f \in Flows : Purge(f) \/ \E k \in Kinds : Lapse(k, f)
  \/ \E u \in Users : Bar(u) \/ Unbar(u) \/ Unlink(u)
  \/ \E u \in Users, x \in Subjects : Register(u, x)

Next ==
  \/ \E b \in Browsers, f \in Flows : Start(b, f)
  \/ \E c \in Calls :
       CallbackStep(c) \/ ContinuationStep(c) \/ SessionStep(c) \/ Clear(c) \/ Lose(c)
  \/ Environment

Spec == Init /\ [][Next]_vars

-----------------------------------------------------------------------------
(* Properties                                                              *)

(* A state buys one exchange with Google, however often its callback is    *)
(* opened (consumeAuthorization).                                          *)
OneExchangePerState == \A f \in Flows : exchanges[f] <= 1

(* The secrets in a browser come from flows that were answered to it.      *)
BoundToBrowser ==
  \A b \in Browsers : \A k \in Cookies :
    cookie[b][k] # NoFlow => by[cookie[b][k]] = b

(* A grant is consumed with the one link or registration it is for, and    *)
(* stays good when that is undone.                                         *)
GrantIsItsEffect ==
  \A f \in Flows :
    /\ doc["grant"][f] = "consumed" => effects[f] = 1
    /\ doc["grant"][f] \in {"none", "live", "lapsed"} => effects[f] = 0
    /\ effects[f] <= 1

(* An account has at most one identity, an identity at most one account,   *)
(* and an email at most one account, though links and registrations        *)
(* overlap (the unique indexes behind hasGoogleLinkConflict).              *)
OneToOne ==
  /\ \A i, j \in identity : i[1] = j[1] \/ i[2] = j[2] => i = j
  /\ \A u, v \in Users : \A x \in Subjects :
       HasEmail(u, x) /\ HasEmail(v, x) => u = v

(* An account was given the identity Google answered in a flow, and no     *)
(* account but the one the grant of that flow names.                       *)
AsGranted ==
  \A i \in identity :
    \E f \in Flows :
      /\ effects[f] = 1
      /\ verified[f] = i[1] /\ made[f] = i[2]
      /\ grant[f].purpose = "link" => grant[f].target = i[2]

(* The tokens of a handoff are in one answer at most.                      *)
TokensDeliveredOnce == \A f \in Flows : delivered[f] <= 1

(* What both ends of a flow promise: one exchange and one delivery.        *)
SecretsUsedOnce == OneExchangePerState /\ TokensDeliveredOnce

(* Why they hold.  A request knows its flow from a cookie of its browser.  *)
RequestOK(r) ==
  /\ r.pc # "idle" => r.b \in Browsers
  /\ r.pc \notin {"idle", "clear"} => r.f \in Flows /\ by[r.f] = r.b
  /\ r.pc \in {"link", "openLink"} =>
       r.k = "link" /\ r.u \in Users /\ user[r.u].life # "none"
  /\ r.pc \in {"registration", "openRegistration"} => r.k = "registration"

(* Whoever consumed a state is alone with it until its document is stored. *)
PendingOK(r) ==
  r.pc \in Pending =>
    /\ doc["state"][r.f] = "consumed"
    /\ doc["grant"][r.f] = "none" /\ doc["handoff"][r.f] = "none"
    /\ r.pc = "exchange" => exchanges[r.f] = 0
    /\ r.pc # "exchange" => r.x \in Subjects /\ verified[r.f] = r.x

(* A snapshot that is not stale still tells the truth.                     *)
OpenOK(r) ==
  r.pc \in Open =>
    /\ r.x \in Subjects /\ doc["grant"][r.f] # "none"
    /\ r.x = grant[r.f].subject /\ r.k = grant[r.f].purpose
    /\ r.pc = "openLink" => grant[r.f].target = r.u
    /\ ~r.stale =>
         /\ doc["grant"][r.f] \in {"live", "lapsed"}
         /\ ~SubjectTaken(r.x)
         /\ r.pc = "openLink" => \A y \in Subjects : ~Linked(y, r.u)
         /\ r.pc = "openRegistration" => \A u \in Users : ~HasEmail(u, r.x)

DeliverOK(r) ==
  r.pc = "deliver" => doc["handoff"][r.f] = "consumed" /\ delivered[r.f] = 0

CallInv ==
  \A c \in Calls :
    /\ RequestOK(call[c]) /\ PendingOK(call[c])
    /\ OpenOK(call[c]) /\ DeliverOK(call[c])

AloneInv ==
  \A c, d \in Calls :
    /\ c # d
    /\ \/ call[c].pc \in Pending /\ call[d].pc \in Pending
       \/ call[c].pc = "deliver" /\ call[d].pc = "deliver"
    => call[c].f # call[d].f

FlowInv ==
  \A f \in Flows :
    /\ doc["state"][f] = "none" => by[f] = NoBrowser
    /\ doc["state"][f] # "consumed" =>
         exchanges[f] = 0 /\ doc["grant"][f] = "none" /\ doc["handoff"][f] = "none"
    /\ doc["grant"][f] # "none" =>
         grant[f].subject \in Subjects /\ verified[f] = grant[f].subject
    /\ doc["handoff"][f] # "consumed" => delivered[f] = 0

LinkedInv == \A i \in identity : user[i[2]].life # "none"

GrantsInv ==
  /\ TypeOK /\ CallInv /\ AloneInv /\ FlowInv /\ LinkedInv
  /\ OneExchangePerState /\ BoundToBrowser /\ GrantIsItsEffect
  /\ OneToOne /\ AsGranted /\ TokensDeliveredOnce
=============================================================================
