---------------------------- MODULE AuthSessions ----------------------------
(***************************************************************************)
(* Accounts, their passwords and their refresh-token sessions, as the auth *)
(* services of the API keep them in MongoDB:                               *)
(*                                                                         *)
(*   src/src/modules/auth/services/auth.service.ts                         *)
(*   src/src/modules/auth/services/auth-session.service.ts                 *)
(*   src/src/modules/auth/services/google-oauth-*.service.ts               *)
(*   src/src/modules/users/services/users.service.ts (softDeleteUser)      *)
(*                                                                         *)
(* Every HTTP request is a process that reads, awaits bcrypt, and writes   *)
(* later, so requests interleave between their steps.  A MongoDB           *)
(* transaction reads the snapshot of its first statement; the first        *)
(* transaction to write a document holds it until it commits, and a write  *)
(* to a document that changed after the snapshot is a write conflict,      *)
(* which aborts the transaction and runs its callback again.               *)
(*                                                                         *)
(* A transaction whose first statement claims the user document goes       *)
(* "verified" -> "claimed" -> idle; one that reads before it claims goes   *)
(* "verified" -> "snapshot" -> "claimed" -> idle.  Between "claimed" and   *)
(* the commit the remaining statements write only documents no other       *)
(* transaction can see, or documents whose write would conflict, so they   *)
(* and the commit are one step.                                            *)
(***************************************************************************)
EXTENDS Naturals

CONSTANTS
  Users,       \* accounts
  Sids,        \* auth_sessions documents that can ever be inserted
  Procs,       \* requests that may be in flight at the same time
  Ops,         \* the operations clients use
  MaxPw,       \* bound: a password is changed or reset below this version
  MaxVersion,  \* bound: a session is rotated below this token version
  NoUser, NoSid

AllOps == {"register", "googleRegister", "login", "wrongPassword", "google",
           "change", "reset", "delete", "link", "unlink", "refresh", "logout",
           "revokeOther", "logoutAll", "status"}

ASSUME ConstantsAssumption ==
  /\ NoUser \notin Users
  /\ NoSid \notin Sids
  /\ MaxPw \in Nat
  /\ MaxVersion \in Nat
  /\ Ops \subseteq AllOps

VARIABLES
  user,        \* users collection, projected to the auth fields
  session,     \* auth_sessions collection
  audited,     \* ghost: security audit events that count a session revoked
  rotations,   \* ghost: refreshes of a session that were answered with tokens
  replaySeen,  \* ghost: a superseded refresh token of the session was read
  req          \* the in-flight request of each process

vars == <<user, session, audited, rotations, replaySeen, req>>

Statuses == {"active", "banned", "reported"}

Reasons == {"LOGOUT", "LOGOUT_ALL", "SESSION_REVOKED", "PASSWORD_CHANGED",
            "PASSWORD_RESET", "ACCOUNT_DELETED", "ACCOUNT_BLOCKED",
            "REFRESH_REPLAY"}

(* A password is its version: bcrypt salts every hash, so a hash that was  *)
(* replaced never comes back.  Version 0 is an account with no password.   *)
UserDoc == [life   : {"absent", "live", "deleted"},
            pw     : Nat,
            status : Statuses,
            locked : BOOLEAN,      \* lockedUntil is in the future
            linked : BOOLEAN]      \* it has a Google oauth_identities document

SessionRecord ==
  [st      : {"absent", "stored", "purged"},
   owner   : Users \cup {NoUser},
   cred    : Nat,      \* ghost: the password version it was issued under
   version : Nat,      \* tokenVersion, with its refreshTokenHash
   expired : BOOLEAN,  \* expiresAt has passed
   reason  : Reasons \cup {"none"}]  \* "none" is revokedAt = null

SessionDoc == {d \in SessionRecord : d.st = "stored" => d.owner \in Users}

RefreshPcs == {"matched", "replay", "gone", "blocked", "rotate"}

RequestRecord ==
  [op      : AllOps \cup {"none"},
   pc      : {"idle", "badpw", "verified", "snapshot", "claimed", "authed"}
               \cup RefreshPcs,
   u       : Users \cup {NoUser},
   s       : Sids \cup {NoSid},
   seen    : Nat,         \* password or token version that was read
   targets : SUBSET Sids, \* sessions of u with revokedAt = null in the snapshot
   stale   : BOOLEAN]     \* a document it is to write has changed since

Request == {r \in RequestRecord :
              /\ r.pc # "idle" => r.u \in Users
              /\ r.pc \in RefreshPcs \cup {"authed"} => r.s \in Sids}

NoSession == [st |-> "absent", owner |-> NoUser, cred |-> 0, version |-> 0,
              expired |-> FALSE, reason |-> "none"]

Idle == [op |-> "none", pc |-> "idle", u |-> NoUser, s |-> NoSid, seen |-> 0,
         targets |-> {}, stale |-> FALSE]

TypeOK ==
  /\ user \in [Users -> UserDoc]
  /\ session \in [Sids -> SessionDoc]
  /\ audited \in [Sids -> Nat]
  /\ rotations \in [Sids -> Nat]
  /\ replaySeen \in [Sids -> BOOLEAN]
  /\ req \in [Procs -> Request]

-----------------------------------------------------------------------------
(* Documents and write conflicts                                           *)

Live(s) == session[s].st = "stored" /\ session[s].reason = "none"

LiveOf(u) == {s \in Sids : Live(s) /\ session[s].owner = u}

Usable(u) == user[u].life = "live" /\ user[u].status = "active"

(* A transaction has written the user document and not committed.          *)
Held(u) == \E p \in Procs : req[p].pc = "claimed" /\ req[p].u = u

(* Process p goes on as r, having written the user documents us and the    *)
(* session documents ss: a transaction that has still to write one of them *)
(* holds a stale snapshot from here on.                                    *)
Write(p, r, us, ss) ==
  req' = [q \in Procs |->
            IF q = p THEN r
            ELSE IF \/ req[q].pc = "snapshot" /\ req[q].u \in us
                    \/ req[q].targets \cap ss # {}
                 THEN [req[q] EXCEPT !.stale = TRUE]
                 ELSE req[q]]

(* The same for a write by something that is no request.                   *)
ExternalWrite(us, ss) ==
  req' = [q \in Procs |->
            IF \/ req[q].pc = "snapshot" /\ req[q].u \in us
               \/ req[q].targets \cap ss # {}
            THEN [req[q] EXCEPT !.stale = TRUE]
            ELSE req[q]]

Goto(p, pc) == req' = [req EXCEPT ![p].pc = pc]

(* updateOne / updateMany with revokedAt: null in the filter.              *)
Revoked(ss, why) ==
  [s \in Sids |-> IF s \in ss THEN [session[s] EXCEPT !.reason = why]
                              ELSE session[s]]

Count(ss) == [s \in Sids |-> IF s \in ss THEN audited[s] + 1 ELSE audited[s]]

(* createSession: a new document, tokenVersion 0, revokedAt null.          *)
Created(s, u, cred) ==
  [session EXCEPT ![s] = [NoSession EXCEPT !.st = "stored", !.owner = u,
                                           !.cred = cred]]

-----------------------------------------------------------------------------
(* Reading the account and verifying the credential                        *)

(* Process p has read the account, checked the password, the Google        *)
(* identity or the one-time code, and has still to open its transaction.   *)
Verified(p, op, u) ==
  /\ op \in Ops
  /\ req[p].pc = "idle"
  /\ req' = [req EXCEPT ![p] = [Idle EXCEPT !.op = op, !.pc = "verified",
                                            !.u = u, !.seen = user[u].pw]]
  /\ UNCHANGED <<user, session, audited, rotations, replaySeen>>

LoginReadable(u) ==
  user[u].life = "live" /\ user[u].pw # 0 /\ ~user[u].locked

LoginRead(p, u) ==
  /\ LoginReadable(u)
  /\ user[u].status # "banned"
  /\ Verified(p, "login", u)

LoginWrongPassword(p, u) ==
  /\ "wrongPassword" \in Ops
  /\ req[p].pc = "idle"
  /\ LoginReadable(u)
  /\ req' = [req EXCEPT ![p] = [Idle EXCEPT !.op = "login", !.pc = "badpw",
                                            !.u = u]]
  /\ UNCHANGED <<user, session, audited, rotations, replaySeen>>

GoogleResolve(p, u) ==
  Usable(u) /\ ~user[u].locked /\ user[u].linked /\ Verified(p, "google", u)

ChangeRead(p, u) == Usable(u) /\ user[u].pw # 0 /\ Verified(p, "change", u)

ResetRead(p, u) == Usable(u) /\ Verified(p, "reset", u)

DeleteRead(p, u) == Usable(u) /\ user[u].pw # 0 /\ Verified(p, "delete", u)

UnlinkRead(p, u) ==
  /\ Usable(u) /\ ~user[u].locked /\ user[u].pw # 0
  /\ Verified(p, "unlink", u)

(* The link request carries a continuation grant issued to its account.    *)
LinkRead(p, u) == Usable(u) /\ Verified(p, "link", u)

(* A wrong password is counted in a transaction of its own on the user     *)
(* document.  The counter is abstracted: any wrong password may be the one *)
(* that locks the account.                                                 *)
RecordFailedLogin(p) ==
  LET u == req[p].u IN
  /\ req[p].pc = "badpw"
  /\ user[u].life = "live" /\ user[u].status # "banned" /\ ~user[u].locked
  /\ ~Held(u)
  /\ \E lock \in BOOLEAN : user' = [user EXCEPT ![u].locked = lock]
  /\ Write(p, Idle, {u}, {})
  /\ UNCHANGED <<session, audited, rotations, replaySeen>>

-----------------------------------------------------------------------------
(* The transactions on an account                                          *)

ReadsFirst == {"delete", "google", "link"}
Revokers   == {"change", "reset", "delete"}
Issuers    == {"login", "google"}

(* Faulty variant: the password verified before the await is not compared. *)
ClaimFilterAnyPassword(p) ==
  LET x == user[req[p].u] IN
  /\ x.life = "live"
  /\ x.status = "active"
  /\ req[p].op \in {"login", "google", "link", "unlink"} => ~x.locked

(* Faulty variant: the lock read before the await is trusted.              *)
ClaimFilterAnyLock(p) ==
  LET x == user[req[p].u] IN
  /\ x.life = "live"
  /\ x.status = "active"
  /\ req[p].op \in {"login", "change", "reset", "unlink"} => x.pw = req[p].seen

(* The filter of the statement that claims the user document.              *)
ClaimFilter(p) ==
  LET x == user[req[p].u] IN
  /\ x.life = "live"
  /\ x.status = "active"
  /\ req[p].op \in {"login", "google", "link", "unlink"} => ~x.locked
  /\ req[p].op \in {"login", "change", "reset", "unlink"} => x.pw = req[p].seen

(* Faulty variant: the identity resolved before the transaction is trusted. *)
SnapshotAnyIdentity(p) ==
  LET u == req[p].u IN
  /\ req[p].pc = "verified"
  /\ req[p].op \in ReadsFirst
  /\ req' = [req EXCEPT ![p].pc = "snapshot",
                        ![p].targets = IF req[p].op = "delete" THEN LiveOf(u)
                                                               ELSE {}]
  /\ UNCHANGED <<user, session, audited, rotations, replaySeen>>

(* First statement of a transaction that reads before it claims: the posts *)
(* of a deleted account, the identity of a Google sign-in, the grant of a  *)
(* link.  A sign-in whose identity is gone ends here.                      *)
Snapshot(p) ==
  LET u == req[p].u IN
  /\ req[p].pc = "verified"
  /\ req[p].op \in ReadsFirst
  /\ req[p].op = "google" => user[u].linked
  /\ req' = [req EXCEPT ![p].pc = "snapshot",
                        ![p].targets = IF req[p].op = "delete" THEN LiveOf(u)
                                                               ELSE {}]
  /\ UNCHANGED <<user, session, audited, rotations, replaySeen>>

(* The claim as the first statement: the snapshot is the present state.    *)
ClaimFirst(p) ==
  LET u == req[p].u IN
  /\ req[p].pc = "verified"
  /\ req[p].op \notin ReadsFirst
  /\ ~Held(u)
  /\ ClaimFilter(p)
  /\ req' = [req EXCEPT ![p].pc = "claimed",
                        ![p].targets = IF req[p].op \in Revokers THEN LiveOf(u)
                                                                 ELSE {}]
  /\ UNCHANGED <<user, session, audited, rotations, replaySeen>>

(* The claim of a transaction that has read: it conflicts if the account   *)
(* was written since its snapshot.                                         *)
ClaimLater(p) ==
  /\ req[p].pc = "snapshot"
  /\ ~req[p].stale
  /\ ~Held(req[p].u)
  /\ ClaimFilter(p)
  /\ req' = [req EXCEPT ![p].pc = "claimed",
                        ![p].seen = user[req[p].u].pw]
  /\ UNCHANGED <<user, session, audited, rotations, replaySeen>>

(* The claim matches no document, or the snapshot of a Google sign-in has  *)
(* no identity: the request is refused.                                    *)
ClaimMiss(p) ==
  /\ \/ req[p].pc \in {"verified", "snapshot"} /\ ~ClaimFilter(p)
     \/ req[p].pc = "verified" /\ req[p].op = "google" /\ ~user[req[p].u].linked
  /\ req' = [req EXCEPT ![p] = Idle]
  /\ UNCHANGED <<user, session, audited, rotations, replaySeen>>

(* Write conflict: the transaction aborts and its callback runs again.     *)
Conflict(p) ==
  /\ req[p].pc \in {"snapshot", "claimed"}
  /\ req[p].stale
  /\ req' = [req EXCEPT ![p].pc = "verified", ![p].targets = {},
                        ![p].stale = FALSE]
  /\ UNCHANGED <<user, session, audited, rotations, replaySeen>>

(* A sign-in commits: the failed-login fields are reset and the session is *)
(* inserted with the user document.                                        *)
IssueCommit(p) ==
  LET u == req[p].u IN
  /\ req[p].pc = "claimed"
  /\ req[p].op \in Issuers
  /\ \E s \in Sids :
       /\ session[s].st = "absent"
       /\ session' = Created(s, u, req[p].seen)
       /\ Write(p, Idle, {u}, {s})
  /\ user' = [user EXCEPT ![u].locked = FALSE]
  /\ UNCHANGED <<audited, rotations, replaySeen>>

(* revokeAllSessions, its audit event and the commit.  The update reaches  *)
(* the sessions of the snapshot and conflicts if one of them was written.  *)
RevokeAll(p, why) ==
  /\ ~req[p].stale
  /\ session' = Revoked(req[p].targets, why)
  /\ audited' = Count(req[p].targets)
  /\ Write(p, Idle, {req[p].u}, req[p].targets)
  /\ UNCHANGED <<rotations, replaySeen>>

ChangeCommit(p) ==
  /\ req[p].pc = "claimed" /\ req[p].op = "change"
  /\ user[req[p].u].pw < MaxPw
  /\ user' = [user EXCEPT ![req[p].u].pw = @ + 1]
  /\ RevokeAll(p, "PASSWORD_CHANGED")

ResetCommit(p) ==
  /\ req[p].pc = "claimed" /\ req[p].op = "reset"
  /\ user[req[p].u].pw < MaxPw
  /\ user' = [user EXCEPT ![req[p].u].pw = @ + 1,
                          ![req[p].u].locked = FALSE]
  /\ RevokeAll(p, "PASSWORD_RESET")

DeleteCommit(p) ==
  /\ req[p].pc = "claimed" /\ req[p].op = "delete"
  /\ user' = [user EXCEPT ![req[p].u].life = "deleted",
                          ![req[p].u].locked = FALSE]
  /\ RevokeAll(p, "ACCOUNT_DELETED")

LinkCommit(p) ==
  LET u == req[p].u IN
  /\ req[p].pc = "claimed" /\ req[p].op = "link"
  /\ ~user[u].linked
  /\ user' = [user EXCEPT ![u].linked = TRUE]
  /\ Write(p, Idle, {u}, {})
  /\ UNCHANGED <<session, audited, rotations, replaySeen>>

UnlinkCommit(p) ==
  LET u == req[p].u IN
  /\ req[p].pc = "claimed" /\ req[p].op = "unlink"
  /\ user[u].linked
  /\ user' = [user EXCEPT ![u].linked = FALSE]
  /\ Write(p, Idle, {u}, {})
  /\ UNCHANGED <<session, audited, rotations, replaySeen>>

-----------------------------------------------------------------------------
(* Registration                                                            *)

Register(u) ==
  /\ "register" \in Ops
  /\ user[u].life = "absent"
  /\ user' = [user EXCEPT ![u].life = "live", ![u].pw = 1]
  /\ UNCHANGED <<session, audited, rotations, replaySeen, req>>

(* Registration through Google creates the account, its identity and its   *)
(* first session in one transaction; the account has no password.          *)
GoogleRegister(u, s) ==
  /\ "googleRegister" \in Ops
  /\ user[u].life = "absent"
  /\ session[s].st = "absent"
  /\ user' = [user EXCEPT ![u].life = "live", ![u].pw = 0, ![u].linked = TRUE]
  /\ session' = Created(s, u, 0)
  /\ UNCHANGED <<audited, rotations, replaySeen, req>>

-----------------------------------------------------------------------------
(* Refresh: read the session, read the user, compare-and-set               *)

(* The token presented is any one that was issued for the session.         *)
RefreshRead(p, s, v) ==
  /\ "refresh" \in Ops
  /\ req[p].pc = "idle"
  /\ Live(s) /\ ~session[s].expired
  /\ v \in 0..session[s].version
  /\ LET same == v = session[s].version
     IN  /\ req' = [req EXCEPT ![p] =
                      [Idle EXCEPT !.op = "refresh", !.s = s, !.seen = v,
                                   !.u = session[s].owner,
                                   !.pc = IF same THEN "matched" ELSE "replay"]]
         /\ replaySeen' = [replaySeen EXCEPT ![s] = @ \/ ~same]
  /\ UNCHANGED <<user, session, audited, rotations>>

RefreshReadUser(p) ==
  LET x == user[req[p].u] IN
  /\ req[p].pc = "matched"
  /\ Goto(p, CASE x.life # "live"       -> "gone"
               [] x.life = "live" /\ x.status # "active" -> "blocked"
               [] OTHER                 -> "rotate")
  /\ UNCHANGED <<user, session, audited, rotations, replaySeen>>

(* Faulty variant: the next version is computed downwards.                 *)
RotateDown(p) ==
  LET s == req[p].s IN
  /\ req[p].pc = "rotate"
  /\ Live(s) /\ session[s].version = req[p].seen
  /\ session' = [session EXCEPT ![s].version = req[p].seen - 1]
  /\ rotations' = [rotations EXCEPT ![s] = @ + 1]
  /\ Write(p, Idle, {}, {s})
  /\ UNCHANGED <<user, audited, replaySeen>>

(* Faulty variant: the compare-and-set leaves out tokenVersion.            *)
RotateAnyVersion(p) ==
  LET s == req[p].s IN
  /\ req[p].pc = "rotate"
  /\ Live(s)
  /\ req[p].seen < MaxVersion
  /\ session' = [session EXCEPT ![s].version = req[p].seen + 1,
                                ![s].expired = FALSE]
  /\ rotations' = [rotations EXCEPT ![s] = @ + 1]
  /\ Write(p, Idle, {}, {s})
  /\ UNCHANGED <<user, audited, replaySeen>>

(* findOneAndUpdate on the version and hash that were read.  The filter's  *)
(* expiresAt > now uses the time of the read, so it holds of the document  *)
(* read then, and a session that ran out since gets a new expiry.          *)
Rotate(p) ==
  LET s == req[p].s IN
  /\ req[p].pc = "rotate"
  /\ Live(s) /\ session[s].version = req[p].seen
  /\ req[p].seen < MaxVersion
  /\ session' = [session EXCEPT ![s].version = req[p].seen + 1,
                                ![s].expired = FALSE]
  /\ rotations' = [rotations EXCEPT ![s] = @ + 1]
  /\ Write(p, Idle, {}, {s})
  /\ UNCHANGED <<user, audited, replaySeen>>

(* Faulty variant: losing the compare-and-set counts as a replay.          *)
RotateLoseRevokes(p) ==
  LET ss == {s \in {req[p].s} : Live(s)} IN
  /\ req[p].pc = "rotate"
  /\ session[req[p].s].version # req[p].seen
  /\ session' = Revoked(ss, "REFRESH_REPLAY")
  /\ audited' = Count(ss)
  /\ Write(p, Idle, {}, ss)
  /\ UNCHANGED <<user, rotations, replaySeen>>

(* Another request won the compare-and-set: 401 and nothing is revoked.    *)
RotateLose(p) ==
  LET s == req[p].s IN
  /\ req[p].pc = "rotate"
  /\ ~(Live(s) /\ session[s].version = req[p].seen)
  /\ req' = [req EXCEPT ![p] = Idle]
  /\ UNCHANGED <<user, session, audited, rotations, replaySeen>>

(* Faulty variant: the event is recorded whatever the update modified.     *)
RevokeReplayedAlwaysAudits(p) ==
  LET ss == {s \in {req[p].s} : Live(s)} IN
  /\ req[p].pc = "replay"
  /\ session' = Revoked(ss, "REFRESH_REPLAY")
  /\ audited' = Count({req[p].s})
  /\ Write(p, Idle, {}, ss)
  /\ UNCHANGED <<user, rotations, replaySeen>>

(* A superseded token: revoke the session with its audit event, unless it  *)
(* is revoked or gone by then.                                             *)
RevokeReplayed(p) ==
  LET ss == {s \in {req[p].s} : Live(s)} IN
  /\ req[p].pc = "replay"
  /\ session' = Revoked(ss, "REFRESH_REPLAY")
  /\ audited' = Count(ss)
  /\ Write(p, Idle, {}, ss)
  /\ UNCHANGED <<user, rotations, replaySeen>>

(* Faulty variant: revokedAt: null is left out of the filter.              *)
RevokeUnusableAgain(p) ==
  LET ss == {s \in {req[p].s} : session[s].st = "stored"} IN
  /\ req[p].pc \in {"gone", "blocked"}
  /\ session' = Revoked(ss, IF req[p].pc = "gone" THEN "ACCOUNT_DELETED"
                                                  ELSE "ACCOUNT_BLOCKED")
  /\ Write(p, Idle, {}, ss)
  /\ UNCHANGED <<user, audited, rotations, replaySeen>>

(* The account was found deleted or not active: revoke, with no event.     *)
RevokeUnusable(p) ==
  LET ss == {s \in {req[p].s} : Live(s)} IN
  /\ req[p].pc \in {"gone", "blocked"}
  /\ session' = Revoked(ss, IF req[p].pc = "gone" THEN "ACCOUNT_DELETED"
                                                  ELSE "ACCOUNT_BLOCKED")
  /\ Write(p, Idle, {}, ss)
  /\ UNCHANGED <<user, audited, rotations, replaySeen>>

-----------------------------------------------------------------------------
(* Requests made from a session                                            *)

(* JwtStrategy.validate reads the account and the session in parallel.  A  *)
(* session is never restored and was issued to a usable account, so what   *)
(* the two reads let pass, one read of both let pass at some moment.       *)
Authenticate(p, s, op) ==
  /\ op \in Ops \cap {"logout", "revokeOther", "logoutAll"}
  /\ req[p].pc = "idle"
  /\ Live(s) /\ ~session[s].expired
  /\ Usable(session[s].owner)
  /\ req' = [req EXCEPT ![p] = [Idle EXCEPT !.op = op, !.pc = "authed",
                                            !.s = s, !.u = session[s].owner]]
  /\ UNCHANGED <<user, session, audited, rotations, replaySeen>>

Logout(p) ==
  LET ss == {s \in {req[p].s} : Live(s)} IN
  /\ req[p].pc = "authed" /\ req[p].op = "logout"
  /\ session' = Revoked(ss, "LOGOUT")
  /\ Write(p, Idle, {}, ss)
  /\ UNCHANGED <<user, audited, rotations, replaySeen>>

RevokeOther(p, t) ==
  /\ req[p].pc = "authed" /\ req[p].op = "revokeOther"
  /\ t # req[p].s
  /\ t \in LiveOf(req[p].u) /\ ~session[t].expired
  /\ session' = Revoked({t}, "SESSION_REVOKED")
  /\ audited' = Count({t})
  /\ Write(p, Idle, {}, {t})
  /\ UNCHANGED <<user, rotations, replaySeen>>

LogoutAll(p) ==
  LET ss == {s \in LiveOf(req[p].u) : ~session[s].expired} IN
  /\ req[p].pc = "authed" /\ req[p].op = "logoutAll"
  /\ session' = Revoked(ss, "LOGOUT_ALL")
  /\ audited' = Count(ss)
  /\ Write(p, Idle, {}, ss)
  /\ UNCHANGED <<user, rotations, replaySeen>>

-----------------------------------------------------------------------------
(* Failure, time and the operator                                          *)

(* The request dies: an infrastructure error, a crash, an exhausted retry, *)
(* or a document it needs is not there.  Its transaction is rolled back.   *)
Fail(p) ==
  /\ req[p].pc # "idle"
  /\ req' = [req EXCEPT ![p] = Idle]
  /\ UNCHANGED <<user, session, audited, rotations, replaySeen>>

Expire(s) ==
  /\ session[s].st = "stored" /\ ~session[s].expired
  /\ session' = [session EXCEPT ![s].expired = TRUE]
  /\ UNCHANGED <<user, audited, rotations, replaySeen, req>>

(* The TTL index on expiresAt deletes the document, some time later.       *)
Purge(s) ==
  /\ session[s].st = "stored" /\ session[s].expired
  /\ session' = [session EXCEPT ![s] = [NoSession EXCEPT !.st = "purged"]]
  /\ ExternalWrite({}, {s})
  /\ UNCHANGED <<user, audited, rotations, replaySeen>>

LockExpires(u) ==
  /\ user[u].locked
  /\ user' = [user EXCEPT ![u].locked = FALSE]
  /\ UNCHANGED <<session, audited, rotations, replaySeen, req>>

(* Nothing under src/ writes status: an operator does, in the database.    *)
SetStatus(u, st) ==
  /\ "status" \in Ops
  /\ user[u].life = "live" /\ st # user[u].status
  /\ ~Held(u)
  /\ user' = [user EXCEPT ![u].status = st]
  /\ ExternalWrite({u}, {})
  /\ UNCHANGED <<session, audited, rotations, replaySeen>>

-----------------------------------------------------------------------------
Init ==
  /\ user = [u \in Users |-> [life |-> "absent", pw |-> 0, status |-> "active",
                              locked |-> FALSE, linked |-> FALSE]]
  /\ session = [s \in Sids |-> NoSession]
  /\ audited = [s \in Sids |-> 0]
  /\ rotations = [s \in Sids |-> 0]
  /\ replaySeen = [s \in Sids |-> FALSE]
  /\ req = [p \in Procs |-> Idle]

ReadStep(p) ==
  \/ \E u \in Users :
       \/ LoginRead(p, u) \/ LoginWrongPassword(p, u) \/ GoogleResolve(p, u)
       \/ ChangeRead(p, u) \/ ResetRead(p, u) \/ DeleteRead(p, u)
       \/ UnlinkRead(p, u) \/ LinkRead(p, u)
  \/ \E s \in Sids :
       \/ \E v \in 0..MaxVersion : RefreshRead(p, s, v)
       \/ \E op \in AllOps : Authenticate(p, s, op)

TxnStep(p) ==
  \/ RecordFailedLogin(p)
  \/ Snapshot(p) \/ ClaimFirst(p) \/ ClaimLater(p) \/ ClaimMiss(p)
  \/ Conflict(p)
  \/ IssueCommit(p) \/ ChangeCommit(p) \/ ResetCommit(p) \/ DeleteCommit(p)
  \/ LinkCommit(p) \/ UnlinkCommit(p)

SessionStep(p) ==
  \/ RefreshReadUser(p) \/ Rotate(p) \/ RotateLose(p)
  \/ RevokeReplayed(p) \/ RevokeUnusable(p)
  \/ Logout(p) \/ LogoutAll(p)
  \/ \E t \in Sids : RevokeOther(p, t)

Environment ==
  \/ \E u \in Users :
       \/ Register(u) \/ LockExpires(u)
       \/ \E s \in Sids : GoogleRegister(u, s)
       \/ \E st \in Statuses : SetStatus(u, st)
  \/ \E s \in Sids : Expire(s) \/ Purge(s)

Next ==
  \/ \E p \in Procs : ReadStep(p) \/ TxnStep(p) \/ SessionStep(p) \/ Fail(p)
  \/ Environment

Spec == Init /\ [][Next]_vars

-----------------------------------------------------------------------------
(* Properties                                                              *)

(* A session that can still be refreshed was issued under the password its *)
(* account has now, and its account is not deleted: a login that verified  *)
(* the old password cannot leave a session behind a change, a reset or a   *)
(* deletion, however its steps interleave with theirs (the comment at      *)
(* auth.service.ts:553).                                                   *)
CredentialBinding ==
  \A s \in Sids :
    Live(s) => LET x == user[session[s].owner]
               IN  x.life = "live" /\ x.pw = session[s].cred

(* Each refresh token of a session is traded for a new pair at most once,  *)
(* however many requests present it together: the tokens handed out are as *)
(* many as the versions the session went through.                          *)
RotatedOncePerToken ==
  \A s \in Sids :
    session[s].st = "stored" => session[s].version = rotations[s]

(* The audit log and the sessions agree: a session revoked for a security  *)
(* reason is counted by exactly one event, and any other by none, through  *)
(* conflicts, retries, failures and refreshes that find the account        *)
(* deleted.                                                                *)
AuditedReasons ==
  {"LOGOUT_ALL", "SESSION_REVOKED", "PASSWORD_CHANGED", "PASSWORD_RESET",
   "ACCOUNT_DELETED", "REFRESH_REPLAY"}

AuditedExactlyOnce ==
  \A s \in Sids :
    session[s].st = "stored" =>
      audited[s] = IF session[s].reason \in AuditedReasons THEN 1 ELSE 0

(* A session is revoked as replayed only after a superseded token was read *)
(* for it: two refreshes that race with the current token never cost the   *)
(* winner its session (the comment at auth-session.service.ts:285).        *)
ReplayOnlyIfSuperseded ==
  \A s \in Sids : session[s].reason = "REFRESH_REPLAY" => replaySeen[s]

(* Why they hold.  A refresh past its read is about a session that was     *)
(* stored, of the account it read; one that found that account deleted     *)
(* finds the session dead.                                                 *)
RequestInv ==
  \A p \in Procs :
    LET r == req[p] IN
    /\ r.pc # "idle" => user[r.u].life # "absent"
    /\ r.pc \notin {"snapshot", "claimed"} => r.targets = {}
    /\ r.pc = "snapshot" => r.op \in ReadsFirst
    /\ r.pc \in RefreshPcs => /\ session[r.s].st # "absent"
                              /\ session[r.s].st = "stored" =>
                                   session[r.s].owner = r.u
    /\ r.pc = "gone" => user[r.u].life = "deleted"
    /\ r.pc = "replay" => replaySeen[r.s]

(* One transaction at a time holds a user document, and while it does the  *)
(* account stays as the claim found it.                                    *)
HolderInv ==
  \A p \in Procs :
    LET r == req[p] IN
    r.pc = "claimed" =>
      /\ \A q \in Procs : req[q].pc = "claimed" /\ req[q].u = r.u => q = p
      /\ Usable(r.u)
      /\ r.op \in Issuers => ~user[r.u].locked /\ user[r.u].pw = r.seen
      /\ r.op = "google" => user[r.u].linked

(* What a snapshot has read is still so unless it is stale: the identity   *)
(* of a sign-in, and for a revoker that every session it will revoke is    *)
(* live.  A revoker's snapshot has all the sessions of its account: to add *)
(* one, a sign-in writes the user document.                                *)
SnapshotInv ==
  \A p \in Procs :
    LET r == req[p] IN
    /\ r.pc = "snapshot" /\ r.op = "google" /\ ~r.stale => user[r.u].linked
    /\ ~r.stale => \A s \in r.targets : Live(s)
    /\ \/ r.pc = "claimed" /\ r.op \in Revokers
       \/ r.pc = "snapshot" /\ r.op = "delete" /\ ~r.stale
       => LiveOf(r.u) \subseteq r.targets

UnusedInv ==
  \A s \in Sids :
    session[s].st = "absent" => /\ session[s] = NoSession
                               /\ audited[s] = 0 /\ rotations[s] = 0

SessionInv ==
  /\ RequestInv /\ HolderInv /\ SnapshotInv /\ UnusedInv
  /\ CredentialBinding /\ RotatedOncePerToken
  /\ AuditedExactlyOnce /\ ReplayOnlyIfSuperseded

(* Revocation is final: a revoked session is never revoked again under     *)
(* another reason, rotated or restored; it only runs out and is purged.    *)
RevocationIsFinal ==
  [][\A s \in Sids :
       session[s].st = "stored" /\ session[s].reason # "none" =>
         session'[s] \in {session[s], [session[s] EXCEPT !.expired = TRUE],
                         [NoSession EXCEPT !.st = "purged"]}]_vars

Issues(p) ==
  /\ req[p].pc = "claimed" /\ req[p].op \in Issuers
  /\ req'[p].pc = "idle" /\ session' # session

(* A sign-in commits a session only for an account that is, at the commit, *)
(* active and not locked out, although both were read before bcrypt, and a *)
(* Google sign-in only while the Google account is linked: an unlink that  *)
(* commits first wins (google-oauth-account-unlink.service.ts:157).        *)
IssuedToEligible ==
  [][\A p \in Procs :
       Issues(p) =>
         /\ Usable(req[p].u) /\ ~user[req[p].u].locked
         /\ req[p].op = "google" => user[req[p].u].linked]_vars
=============================================================================
