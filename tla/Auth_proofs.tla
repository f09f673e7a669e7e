---------------------------- MODULE Auth_proofs ----------------------------
(***************************************************************************)
(* Proofs about the two specifications of the module auth of the server:   *)
(* AuthSessions, for any accounts, sessions, requests, bounds and          *)
(* operations, and below it PasswordRecovery, for any requests and         *)
(* policies.  They share no variable.                                      *)
(***************************************************************************)
EXTENDS AuthSessions, PasswordRecovery, FiniteSetTheorems, TLAPS

-----------------------------------------------------------------------------
(* Types                                                                   *)

(* An idle process is a request.                                           *)
LEMMA IdleType == Idle \in Request
  BY DEF Idle, Request, RequestRecord, RefreshPcs

(* Marking a snapshot stale keeps the request well typed.                  *)
LEMMA StaleType ==
  ASSUME NEW r \in Request
  PROVE  [r EXCEPT !.stale = TRUE] \in Request
  BY DEF Request, RequestRecord

(* Marking snapshots stale keeps every request well typed.                 *)
LEMMA WriteType ==
  ASSUME TypeOK, NEW p, NEW r \in Request, NEW us, NEW ss, Write(p, r, us, ss)
  PROVE  req' \in [Procs -> Request]
  BY StaleType DEF TypeOK, Write

(* So does a write by something that is no request.                        *)
LEMMA ExternalWriteType ==
  ASSUME TypeOK, NEW us, NEW ss, ExternalWrite(us, ss)
  PROVE  req' \in [Procs -> Request]
  BY StaleType DEF TypeOK, ExternalWrite

(* A request that is not idle is about an account; a refresh or a request  *)
(* from a session is about a session.                                      *)
LEMMA RequestFields ==
  ASSUME TypeOK, NEW p \in Procs
  PROVE  /\ req[p] \in RequestRecord
         /\ req[p].pc # "idle" => req[p].u \in Users
         /\ req[p].pc \in RefreshPcs \cup {"authed"} => req[p].s \in Sids
         /\ req[p].seen \in Nat
         /\ req[p].targets \subseteq Sids
  BY DEF TypeOK, Request, RequestRecord

(* A request in flight moves through its transaction.                      *)
LEMMA MoveType ==
  ASSUME NEW r \in Request, r.pc # "idle",
         NEW pc \in {"snapshot", "claimed"}, NEW ss \in SUBSET Sids
  PROVE  [r EXCEPT !.pc = pc, !.targets = ss] \in Request
<1>1. [r EXCEPT !.pc = pc, !.targets = ss] \in RequestRecord
  BY DEF Request, RequestRecord
<1> QED
  BY <1>1 DEF Request, RequestRecord, RefreshPcs

(* A transaction that conflicts goes back to where its callback starts.    *)
LEMMA RetryType ==
  ASSUME NEW r \in Request, r.pc # "idle"
  PROVE  [r EXCEPT !.pc = "verified", !.targets = {}, !.stale = FALSE] \in Request
<1>1. [r EXCEPT !.pc = "verified", !.targets = {}, !.stale = FALSE]
        \in RequestRecord
  BY DEF Request, RequestRecord
<1> QED
  BY <1>1 DEF Request, RequestRecord, RefreshPcs

(* The claim of a transaction that read first notes the password it finds. *)
LEMMA ReseenType ==
  ASSUME NEW r \in Request, r.pc # "idle", NEW seen \in Nat
  PROVE  [r EXCEPT !.pc = "claimed", !.seen = seen] \in Request
<1>1. [r EXCEPT !.pc = "claimed", !.seen = seen] \in RequestRecord
  BY DEF Request, RequestRecord
<1> QED
  BY <1>1 DEF Request, RequestRecord, RefreshPcs

(* Revoking sessions keeps the collection well typed,                      *)
LEMMA RevokedType ==
  ASSUME TypeOK, NEW ss, NEW why \in Reasons
  PROVE  Revoked(ss, why) \in [Sids -> SessionDoc]
  BY DEF TypeOK, Revoked, SessionDoc, SessionRecord

(* so does counting an audit event,                                        *)
LEMMA CountType ==
  ASSUME TypeOK, NEW ss
  PROVE  Count(ss) \in [Sids -> Nat]
  BY DEF TypeOK, Count

(* inserting a session,                                                    *)
LEMMA CreatedType ==
  ASSUME TypeOK, NEW s, NEW u \in Users, NEW cred \in Nat
  PROVE  Created(s, u, cred) \in [Sids -> SessionDoc]
  BY DEF TypeOK, Created, NoSession, SessionDoc, SessionRecord

(* rotating one,                                                           *)
LEMMA RotatedType ==
  ASSUME NEW d \in SessionDoc, NEW version \in Nat
  PROVE  [d EXCEPT !.version = version, !.expired = FALSE] \in SessionDoc
  BY DEF SessionDoc, SessionRecord

(* and purging one.                                                        *)
LEMMA PurgedType ==
  [NoSession EXCEPT !.st = "purged"] \in SessionDoc
  BY DEF NoSession, SessionDoc, SessionRecord

(* A stored session belongs to an account.                                 *)
LEMMA OwnerType ==
  ASSUME TypeOK, NEW s \in Sids, session[s].st = "stored"
  PROVE  session[s].owner \in Users
  BY DEF TypeOK, SessionDoc, SessionRecord

(* The live sessions of an account are sessions.                           *)
LEMMA LiveOfType == ASSUME NEW u PROVE LiveOf(u) \subseteq Sids
  BY DEF LiveOf

(* A read puts one request in flight and writes nothing.                   *)
LEMMA VerifiedType ==
  ASSUME TypeOK, NEW p \in Procs, NEW u \in Users, NEW op \in AllOps,
         Verified(p, op, u)
  PROVE  TypeOK'
<1>1. user[u].pw \in Nat
  BY DEF TypeOK, UserDoc
<1>2. [Idle EXCEPT !.op = op, !.pc = "verified", !.u = u, !.seen = user[u].pw]
        \in Request
  BY <1>1 DEF Idle, Request, RequestRecord, RefreshPcs
<1> QED
  BY <1>2 DEF Verified, TypeOK

(* Every step keeps every variable in its type.                            *)
LEMMA TypeStep == TypeOK /\ [Next]_vars => TypeOK'
<1> SUFFICES ASSUME TypeOK, [Next]_vars PROVE TypeOK'
  OBVIOUS
<1>1. CASE UNCHANGED vars
  BY <1>1 DEF vars, TypeOK
<1>2. ASSUME NEW p \in Procs, ReadStep(p) PROVE TypeOK'
  <2>1. ASSUME NEW u \in Users, LoginRead(p, u) PROVE TypeOK'
    BY <2>1, VerifiedType DEF LoginRead, AllOps
  <2>2. ASSUME NEW u \in Users, LoginWrongPassword(p, u) PROVE TypeOK'
    <3>1. [Idle EXCEPT !.op = "login", !.pc = "badpw", !.u = u] \in Request
      BY DEF Idle, Request, RequestRecord, RefreshPcs, AllOps
    <3> QED
      BY <2>2, <3>1 DEF LoginWrongPassword, TypeOK
  <2>3. ASSUME NEW u \in Users, GoogleResolve(p, u) PROVE TypeOK'
    BY <2>3, VerifiedType DEF GoogleResolve, AllOps
  <2>4. ASSUME NEW u \in Users, ChangeRead(p, u) PROVE TypeOK'
    BY <2>4, VerifiedType DEF ChangeRead, AllOps
  <2>5. ASSUME NEW u \in Users, ResetRead(p, u) PROVE TypeOK'
    BY <2>5, VerifiedType DEF ResetRead, AllOps
  <2>6. ASSUME NEW u \in Users, DeleteRead(p, u) PROVE TypeOK'
    BY <2>6, VerifiedType DEF DeleteRead, AllOps
  <2>7. ASSUME NEW u \in Users, UnlinkRead(p, u) PROVE TypeOK'
    BY <2>7, VerifiedType DEF UnlinkRead, AllOps
  <2>8. ASSUME NEW u \in Users, LinkRead(p, u) PROVE TypeOK'
    BY <2>8, VerifiedType DEF LinkRead, AllOps
  <2>9. ASSUME NEW s \in Sids, NEW v \in 0..MaxVersion, RefreshRead(p, s, v)
        PROVE TypeOK'
    <3>1. session[s].owner \in Users
      BY <2>9, OwnerType DEF RefreshRead, Live
    <3>2. ASSUME NEW pc \in {"matched", "replay"}
          PROVE [Idle EXCEPT !.op = "refresh", !.s = s, !.seen = v,
                             !.u = session[s].owner, !.pc = pc] \in Request
      <4>1. v \in Nat
        BY ConstantsAssumption
      <4> QED
        BY <3>1, <4>1 DEF Idle, Request, RequestRecord, RefreshPcs, AllOps
    <3> QED
      BY <2>9, <3>2 DEF RefreshRead, TypeOK
  <2>10. ASSUME NEW s \in Sids, NEW op \in AllOps, Authenticate(p, s, op)
         PROVE TypeOK'
    <3>1. session[s].owner \in Users
      BY <2>10, OwnerType DEF Authenticate, Live
    <3>2. [Idle EXCEPT !.op = op, !.pc = "authed", !.s = s,
                       !.u = session[s].owner] \in Request
      BY <3>1 DEF Idle, Request, RequestRecord, RefreshPcs
    <3> QED
      BY <2>10, <3>2 DEF Authenticate, TypeOK
  <2> QED
    BY <1>2, <2>1, <2>2, <2>3, <2>4, <2>5, <2>6, <2>7, <2>8, <2>9, <2>10 DEF ReadStep
<1>3. ASSUME NEW p \in Procs, TxnStep(p) PROVE TypeOK'
  <2>1. CASE RecordFailedLogin(p)
    <3>1. user' \in [Users -> UserDoc]
      BY <2>1, RequestFields DEF RecordFailedLogin, TypeOK, UserDoc
    <3> QED
      BY <2>1, <3>1, IdleType, WriteType DEF RecordFailedLogin, TypeOK
  <2>2. CASE Snapshot(p)
    <3>1. [req[p] EXCEPT !.pc = "snapshot",
                         !.targets = IF req[p].op = "delete"
                                     THEN LiveOf(req[p].u) ELSE {}] \in Request
      BY <2>2, LiveOfType, MoveType DEF Snapshot, TypeOK
    <3> QED
      BY <2>2, <3>1 DEF Snapshot, TypeOK
  <2>3. CASE ClaimFirst(p)
    <3>1. [req[p] EXCEPT !.pc = "claimed",
                         !.targets = IF req[p].op \in Revokers
                                     THEN LiveOf(req[p].u) ELSE {}] \in Request
      BY <2>3, LiveOfType, MoveType DEF ClaimFirst, TypeOK
    <3> QED
      BY <2>3, <3>1 DEF ClaimFirst, TypeOK
  <2>4. CASE ClaimLater(p)
    <3>1. user[req[p].u].pw \in Nat
      BY <2>4, RequestFields DEF ClaimLater, TypeOK, UserDoc
    <3> QED
      BY <2>4, <3>1, ReseenType DEF ClaimLater, TypeOK
  <2>5. CASE ClaimMiss(p)
    BY <2>5, IdleType DEF ClaimMiss, TypeOK
  <2>6. CASE Conflict(p)
    BY <2>6, RetryType DEF Conflict, TypeOK
  <2>7. CASE IssueCommit(p)
    <3>1. user' \in [Users -> UserDoc]
      BY <2>7, RequestFields DEF IssueCommit, TypeOK, UserDoc
    <3>2. session' \in [Sids -> SessionDoc]
      BY <2>7, RequestFields, CreatedType DEF IssueCommit
    <3> QED
      BY <2>7, <3>1, <3>2, IdleType, WriteType DEF IssueCommit, TypeOK
  <2>8. CASE ChangeCommit(p)
    <3>1. user' \in [Users -> UserDoc]
      BY <2>8, RequestFields DEF ChangeCommit, TypeOK, UserDoc
    <3> QED
      BY <2>8, <3>1, IdleType, WriteType, RevokedType, CountType
         DEF ChangeCommit, RevokeAll, TypeOK, Reasons
  <2>9. CASE ResetCommit(p)
    <3>1. user' \in [Users -> UserDoc]
      <4>1. PICK d \in UserDoc : d = user[req[p].u]
        BY <2>9, RequestFields DEF ResetCommit, TypeOK
      <4>2. [d EXCEPT !.pw = @ + 1, !.locked = FALSE] \in UserDoc
        <5>1. PICK n \in Nat : n = d.pw + 1
          BY DEF UserDoc
        <5> QED
          BY <5>1 DEF UserDoc
      <4> QED
        BY <2>9, <4>1, <4>2 DEF ResetCommit, TypeOK
    <3> QED
      BY <2>9, <3>1, IdleType, WriteType, RevokedType, CountType
         DEF ResetCommit, RevokeAll, TypeOK, Reasons
  <2>10. CASE DeleteCommit(p)
    <3>1. user' \in [Users -> UserDoc]
      BY <2>10, RequestFields DEF DeleteCommit, TypeOK, UserDoc
    <3> QED
      BY <2>10, <3>1, IdleType, WriteType, RevokedType, CountType
         DEF DeleteCommit, RevokeAll, TypeOK, Reasons
  <2>11. CASE LinkCommit(p)
    <3>1. user' \in [Users -> UserDoc]
      <4>1. req[p].u \in Users /\ user[req[p].u] \in UserDoc
        BY <2>11, RequestFields DEF LinkCommit, TypeOK
      <4>2. [user[req[p].u] EXCEPT !.linked = TRUE] \in UserDoc
        BY <4>1 DEF UserDoc
      <4> QED
        BY <2>11, <4>1, <4>2 DEF LinkCommit, TypeOK
    <3> QED
      BY <2>11, <3>1, IdleType, WriteType DEF LinkCommit, TypeOK
  <2>12. CASE UnlinkCommit(p)
    <3>1. user' \in [Users -> UserDoc]
      <4>1. req[p].u \in Users /\ user[req[p].u] \in UserDoc
        BY <2>12, RequestFields DEF UnlinkCommit, TypeOK
      <4>2. [user[req[p].u] EXCEPT !.linked = FALSE] \in UserDoc
        BY <4>1 DEF UserDoc
      <4> QED
        BY <2>12, <4>1, <4>2 DEF UnlinkCommit, TypeOK
    <3> QED
      BY <2>12, <3>1, IdleType, WriteType DEF UnlinkCommit, TypeOK
  <2> QED
    BY <1>3, <2>1, <2>2, <2>3, <2>4, <2>5, <2>6, <2>7, <2>8, <2>9, <2>10, <2>11, <2>12
       DEF TxnStep
<1>4. ASSUME NEW p \in Procs, SessionStep(p) PROVE TypeOK'
  <2>1. CASE RefreshReadUser(p)
    <3>1. ASSUME NEW pc \in {"gone", "blocked", "rotate"}
          PROVE [req[p] EXCEPT !.pc = pc] \in Request
      <4>1. [req[p] EXCEPT !.pc = pc] \in RequestRecord
        BY RequestFields DEF RequestRecord, RefreshPcs
      <4> QED
        BY <2>1, <4>1, RequestFields
           DEF RefreshReadUser, Request, RequestRecord, RefreshPcs
    <3> QED
      BY <2>1, <3>1 DEF RefreshReadUser, Goto, TypeOK
  <2>2. CASE Rotate(p)
    <3>1. req[p].s \in Sids /\ req[p].seen + 1 \in Nat
      BY <2>2, RequestFields DEF Rotate, RefreshPcs
    <3>2. session' \in [Sids -> SessionDoc]
      BY <2>2, <3>1, RotatedType DEF Rotate, TypeOK
    <3>3. rotations' \in [Sids -> Nat]
      BY <2>2, <3>1 DEF Rotate, TypeOK
    <3> QED
      BY <2>2, <3>2, <3>3, IdleType, WriteType DEF Rotate, TypeOK
  <2>3. CASE RotateLose(p)
    BY <2>3, IdleType DEF RotateLose, TypeOK
  <2>4. CASE RevokeReplayed(p)
    BY <2>4, IdleType, WriteType, RevokedType, CountType
       DEF RevokeReplayed, Reasons, TypeOK
  <2>5. CASE RevokeUnusable(p)
    BY <2>5, IdleType, WriteType, RevokedType
       DEF RevokeUnusable, Reasons, TypeOK
  <2>6. CASE Logout(p)
    BY <2>6, IdleType, WriteType, RevokedType DEF Logout, Reasons, TypeOK
  <2>7. CASE LogoutAll(p)
    BY <2>7, IdleType, WriteType, RevokedType, CountType
       DEF LogoutAll, Reasons, TypeOK
  <2>8. ASSUME NEW t \in Sids, RevokeOther(p, t) PROVE TypeOK'
    BY <2>8, IdleType, WriteType, RevokedType, CountType
       DEF RevokeOther, Reasons, TypeOK
  <2> QED
    BY <1>4, <2>1, <2>2, <2>3, <2>4, <2>5, <2>6, <2>7, <2>8 DEF SessionStep
<1>5. ASSUME NEW p \in Procs, Fail(p) PROVE TypeOK'
  BY <1>5, IdleType DEF Fail, TypeOK
<1>6. CASE Environment
  <2>1. ASSUME NEW u \in Users, Register(u) PROVE TypeOK'
    <3>1. user' \in [Users -> UserDoc]
      <4>1. [user[u] EXCEPT !.life = "live", !.pw = 1] \in UserDoc
        BY DEF TypeOK, UserDoc
      <4> QED
        BY <2>1, <4>1 DEF Register, TypeOK
    <3> QED
      BY <2>1, <3>1 DEF Register, TypeOK
  <2>2. ASSUME NEW u \in Users, LockExpires(u) PROVE TypeOK'
    BY <2>2 DEF LockExpires, TypeOK, UserDoc
  <2>3. ASSUME NEW u \in Users, NEW s \in Sids, GoogleRegister(u, s)
        PROVE  TypeOK'
    <3>1. [user[u] EXCEPT !.life = "live", !.pw = 0, !.linked = TRUE] \in UserDoc
      BY DEF TypeOK, UserDoc
    <3>2. user' \in [Users -> UserDoc]
      BY <2>3, <3>1 DEF GoogleRegister, TypeOK
    <3> QED
      BY <2>3, <3>2, CreatedType DEF GoogleRegister, TypeOK
  <2>4. ASSUME NEW u \in Users, NEW st \in Statuses, SetStatus(u, st)
        PROVE  TypeOK'
    BY <2>4, ExternalWriteType DEF SetStatus, TypeOK, UserDoc
  <2>5. ASSUME NEW s \in Sids, Expire(s) PROVE TypeOK'
    <3>1. session' \in [Sids -> SessionDoc]
      <4>1. PICK d \in SessionRecord : d = session[s]
        BY DEF TypeOK, SessionDoc
      <4>2. [d EXCEPT !.expired = TRUE] \in SessionRecord
        BY DEF SessionRecord
      <4>3. [d EXCEPT !.expired = TRUE] \in SessionDoc
        BY <4>1, <4>2 DEF TypeOK, SessionDoc, SessionRecord
      <4> QED
        BY <2>5, <4>1, <4>3 DEF Expire, TypeOK
    <3> QED
      BY <2>5, <3>1 DEF Expire, TypeOK
  <2>6. ASSUME NEW s \in Sids, Purge(s) PROVE TypeOK'
    BY <2>6, ExternalWriteType, PurgedType DEF Purge, TypeOK
  <2> QED
    BY <1>6, <2>1, <2>2, <2>3, <2>4, <2>5, <2>6 DEF Environment
<1> QED
  BY <1>1, <1>2, <1>3, <1>4, <1>5, <1>6 DEF Next

(* The initial states are well typed.                                      *)
LEMMA TypeInit == Init => TypeOK
<1> SUFFICES ASSUME Init PROVE TypeOK
  OBVIOUS
<1>1. user \in [Users -> UserDoc]
  BY DEF Init, UserDoc, Statuses
<1>2. session \in [Sids -> SessionDoc]
  BY DEF Init, NoSession, SessionDoc, SessionRecord
<1> QED
  BY <1>1, <1>2, IdleType DEF Init, TypeOK

(* Every reachable state is well typed.                                    *)
THEOREM TypeCorrect == Spec => []TypeOK
<1> QED
  BY TypeInit, TypeStep, PTL DEF Spec

-----------------------------------------------------------------------------
(* The session invariant is inductive                                      *)

(* Process p goes on as r; another request keeps everything but its flag,  *)
(* and is still fresh only if it was and nothing it is to write changed.   *)
LEMMA WriteEffect ==
  ASSUME TypeOK, NEW p \in Procs, NEW r, NEW us, NEW ss, Write(p, r, us, ss)
  PROVE  /\ req'[p] = r
         /\ \A q \in Procs : q # p =>
              /\ req'[q].pc = req[q].pc /\ req'[q].op = req[q].op
              /\ req'[q].u = req[q].u /\ req'[q].s = req[q].s
              /\ req'[q].seen = req[q].seen
              /\ req'[q].targets = req[q].targets
              /\ ~req'[q].stale => /\ ~req[q].stale
                                   /\ req[q].pc = "snapshot" => req[q].u \notin us
                                   /\ req[q].targets \cap ss = {}
  BY DEF TypeOK, Write, Request, RequestRecord

(* The same for a write by something that is no request.                   *)
LEMMA ExternalWriteEffect ==
  ASSUME TypeOK, NEW us, NEW ss, ExternalWrite(us, ss)
  PROVE  \A q \in Procs :
           /\ req'[q].pc = req[q].pc /\ req'[q].op = req[q].op
           /\ req'[q].u = req[q].u /\ req'[q].s = req[q].s
           /\ req'[q].seen = req[q].seen
           /\ req'[q].targets = req[q].targets
           /\ ~req'[q].stale => /\ ~req[q].stale
                                /\ req[q].pc = "snapshot" => req[q].u \notin us
                                /\ req[q].targets \cap ss = {}
  BY DEF TypeOK, ExternalWrite, Request, RequestRecord

(* A step that only puts request p in a state outside a transaction.       *)
LEMMA SettleStep ==
  ASSUME TypeOK, SessionInv, NEW p \in Procs, NEW r \in Request,
         req' = [req EXCEPT ![p] = r],
         UNCHANGED <<user, session, audited, rotations>>,
         r.pc \notin {"snapshot", "claimed"}, r.targets = {},
         r.pc \in RefreshPcs =>
           /\ session[r.s].st = "stored" => session[r.s].owner = r.u
           /\ session[r.s].st # "absent",
         r.pc # "idle" => user[r.u].life # "absent",
         r.pc = "gone" => user[r.u].life = "deleted",
         r.pc = "replay" => replaySeen'[r.s],
         \A s \in Sids : replaySeen[s] => replaySeen'[s]
  PROVE  SessionInv'
<1>1. \A q \in Procs : req'[q] = IF q = p THEN r ELSE req[q]
  BY DEF TypeOK
<1>2. \A s \in Sids : Live(s)' = Live(s)
  BY DEF Live
<1>3. \A u : LiveOf(u)' = LiveOf(u) /\ Usable(u)' = Usable(u)
  BY DEF LiveOf, Live, Usable
<1>a. RequestInv'
  BY <1>1, RequestFields DEF SessionInv, RequestInv, RefreshPcs
<1>b. HolderInv'
  BY <1>1, <1>3 DEF SessionInv, HolderInv
<1>c. SnapshotInv'
  BY <1>1, <1>2, <1>3, RequestFields DEF SessionInv, SnapshotInv
<1>d. UnusedInv' /\ CredentialBinding' /\ RotatedOncePerToken' /\ AuditedExactlyOnce'
  BY <1>2
     DEF SessionInv, UnusedInv, CredentialBinding, RotatedOncePerToken,
     AuditedExactlyOnce
<1>e. ReplayOnlyIfSuperseded'
  BY DEF SessionInv, ReplayOnlyIfSuperseded
<1> QED
  BY <1>a, <1>b, <1>c, <1>d, <1>e DEF SessionInv

(* The snapshot is of the present state: what it has read is so.           *)
LEMMA SnapshotStep ==
  ASSUME TypeOK, SessionInv, NEW p \in Procs, Snapshot(p)
  PROVE  SessionInv'
<1>1. \A q \in Procs : q # p => req'[q] = req[q]
  BY DEF Snapshot, TypeOK
<1>2. /\ req'[p].pc = "snapshot" /\ req'[p].op = req[p].op
      /\ req'[p].u = req[p].u /\ req[p].op \in ReadsFirst
      /\ req[p].pc = "verified"
      /\ req'[p].targets = IF req[p].op = "delete" THEN LiveOf(req[p].u) ELSE {}
      /\ req[p].op = "google" => user[req[p].u].linked
  BY RequestFields DEF Snapshot, TypeOK, RequestRecord
<1>0. UNCHANGED <<user, session, audited, rotations, replaySeen>>
  BY DEF Snapshot
<1>3. \A s : Live(s)' = Live(s)
  BY <1>0 DEF Live
<1>4. \A u : LiveOf(u)' = LiveOf(u) /\ Usable(u)' = Usable(u)
  BY <1>0 DEF LiveOf, Live, Usable
<1>a. RequestInv'
  BY <1>0, <1>1, <1>2, RequestFields DEF SessionInv, RequestInv, RefreshPcs
<1>b. HolderInv'
  BY <1>0, <1>1, <1>2, <1>4 DEF SessionInv, HolderInv
<1>c. SnapshotInv'
  BY <1>0, <1>1, <1>2, <1>3, <1>4, RequestFields
     DEF SessionInv, SnapshotInv, LiveOf, ReadsFirst, Revokers
<1>d. /\ UnusedInv' /\ CredentialBinding' /\ RotatedOncePerToken'
      /\ AuditedExactlyOnce' /\ ReplayOnlyIfSuperseded'
  BY <1>0, <1>3
     DEF SessionInv, UnusedInv, CredentialBinding, RotatedOncePerToken,
              AuditedExactlyOnce, ReplayOnlyIfSuperseded
<1> QED
  BY <1>a, <1>b, <1>c, <1>d DEF SessionInv

(* The claim: no other transaction holds the account, its filter has just  *)
(* compared lock, status and password, and the targets are all its sessions.*)
LEMMA ClaimStep ==
  ASSUME TypeOK, SessionInv, NEW p \in Procs, ClaimFirst(p) \/ ClaimLater(p)
  PROVE  SessionInv'
<1>0. UNCHANGED <<user, session, audited, rotations, replaySeen>>
  BY DEF ClaimFirst, ClaimLater
<1>1. \A q \in Procs : q # p => req'[q] = req[q]
  BY DEF ClaimFirst, ClaimLater, TypeOK
<1>2. /\ req'[p].pc = "claimed" /\ req'[p].op = req[p].op
      /\ req'[p].u = req[p].u /\ req[p].pc \in {"verified", "snapshot"}
      /\ req'[p].stale = req[p].stale
  BY RequestFields DEF ClaimFirst, ClaimLater, TypeOK, RequestRecord
<1>2a. /\ Usable(req[p].u)
       /\ \A q \in Procs : req[q].pc = "claimed" => req[q].u # req[p].u
       /\ req[p].op \in Issuers => /\ ~user[req[p].u].locked
                                   /\ user[req[p].u].pw = req'[p].seen
  BY RequestFields
     DEF ClaimFirst, ClaimLater, TypeOK, RequestRecord, ClaimFilter, Usable,
     ReadsFirst, Issuers, Held
<1>2b. req[p].op = "google" => user[req[p].u].linked
  BY DEF ClaimFirst, ClaimLater, SessionInv, SnapshotInv, ReadsFirst
<1>3. \A s : Live(s)' = Live(s)
  BY <1>0 DEF Live
<1>4. \A u : LiveOf(u)' = LiveOf(u) /\ Usable(u)' = Usable(u)
  BY <1>0 DEF LiveOf, Live, Usable
<1>5. /\ req[p].op \in Revokers => LiveOf(req[p].u) \subseteq req'[p].targets
      /\ ~req[p].stale => \A s \in req'[p].targets : Live(s)
  <2>1. CASE ClaimFirst(p)
    BY <2>1, RequestFields DEF ClaimFirst, TypeOK, RequestRecord, LiveOf
  <2>2. CASE ClaimLater(p)
    <3>1. req'[p].targets = req[p].targets
      BY <2>2, RequestFields DEF ClaimLater, TypeOK, RequestRecord
    <3>2. req[p].op \in Revokers => req[p].op = "delete"
      BY <2>2 DEF SessionInv, RequestInv, ClaimLater, ReadsFirst, Revokers
    <3> QED
      BY <2>2, <3>1, <3>2 DEF ClaimLater, SessionInv, SnapshotInv
  <2> QED
    BY <2>1, <2>2
<1>a. RequestInv'
  BY <1>0, <1>1, <1>2, RequestFields DEF SessionInv, RequestInv, RefreshPcs
<1>b. HolderInv'
  BY <1>0, <1>1, <1>2, <1>2a, <1>2b, <1>4 DEF SessionInv, HolderInv
<1>c. SnapshotInv'
  BY <1>0, <1>1, <1>2, <1>3, <1>4, <1>5, RequestFields
     DEF SessionInv, SnapshotInv
<1>d. /\ UnusedInv' /\ CredentialBinding' /\ RotatedOncePerToken'
      /\ AuditedExactlyOnce' /\ ReplayOnlyIfSuperseded'
  BY <1>0, <1>3
     DEF SessionInv, UnusedInv, CredentialBinding, RotatedOncePerToken,
              AuditedExactlyOnce, ReplayOnlyIfSuperseded
<1> QED
  BY <1>a, <1>b, <1>c, <1>d DEF SessionInv

(* Revoking live sessions outside an account transaction, with an event for*)
(* each if the reason is an audited one.                                   *)
LEMMA RevocationStep ==
  ASSUME TypeOK, SessionInv, NEW p \in Procs,
         NEW ss \in SUBSET Sids, \A s \in ss : Live(s), NEW why \in Reasons,
         session' = Revoked(ss, why), Write(p, Idle, {}, ss),
         why = "REFRESH_REPLAY" => \A s \in ss : replaySeen[s],
         audited' = IF why \in AuditedReasons THEN Count(ss) ELSE audited,
         UNCHANGED <<user, rotations, replaySeen>>
  PROVE  SessionInv'
<1>1. /\ req'[p] = Idle
      /\ \A q \in Procs : q # p =>
           /\ req'[q].pc = req[q].pc /\ req'[q].op = req[q].op
           /\ req'[q].u = req[q].u /\ req'[q].s = req[q].s
           /\ req'[q].seen = req[q].seen
           /\ req'[q].targets = req[q].targets
           /\ ~req'[q].stale => ~req[q].stale /\ req[q].targets \cap ss = {}
  BY WriteEffect
<1>2. Idle.pc = "idle" /\ Idle.targets = {}
  BY DEF Idle
<1>3. \A s \in Sids :
        /\ session'[s].st = session[s].st
        /\ session'[s].owner = session[s].owner
        /\ session'[s].cred = session[s].cred
        /\ session'[s].version = session[s].version
        /\ s \in ss => /\ session'[s].reason = why
                       /\ session[s].st = "stored" /\ session[s].reason = "none"
        /\ s \notin ss => session'[s] = session[s]
  BY DEF Revoked, TypeOK, SessionDoc, SessionRecord, Live
<1>4. why # "none"
  BY DEF Reasons
<1>5. \A s \in Sids : Live(s)' => Live(s) /\ s \notin ss
  BY <1>3, <1>4 DEF Live
<1>6. \A s \in Sids : s \notin ss => Live(s)' = Live(s)
  BY <1>3 DEF Live
<1>7. \A u : LiveOf(u)' \subseteq LiveOf(u) /\ Usable(u)' = Usable(u)
  BY <1>3, <1>5 DEF LiveOf, Usable
<1>a. RequestInv'
  BY <1>1, <1>2, <1>3, RequestFields DEF SessionInv, RequestInv, RefreshPcs
<1>b. HolderInv'
  BY <1>1, <1>2, <1>7 DEF SessionInv, HolderInv
<1>c. SnapshotInv'
  BY <1>1, <1>2, <1>6, <1>7, RequestFields DEF SessionInv, SnapshotInv
<1>d. UnusedInv'
  BY <1>3 DEF SessionInv, UnusedInv, Count
<1>e. CredentialBinding' /\ RotatedOncePerToken'
  BY <1>3, <1>5 DEF SessionInv, CredentialBinding, RotatedOncePerToken
<1>f. AuditedExactlyOnce'
  BY <1>3 DEF SessionInv, AuditedExactlyOnce, Count, AuditedReasons
<1>g. ReplayOnlyIfSuperseded'
  BY <1>3 DEF SessionInv, ReplayOnlyIfSuperseded
<1> QED
  BY <1>a, <1>b, <1>c, <1>d, <1>e, <1>f, <1>g DEF SessionInv

(* Change, reset and delete: no live session of the account is left behind.*)
LEMMA RevokeAllStep ==
  ASSUME TypeOK, SessionInv, NEW p \in Procs,
         ChangeCommit(p) \/ ResetCommit(p) \/ DeleteCommit(p)
  PROVE  SessionInv'
<1> DEFINE u  == req[p].u
           ss == req[p].targets
<1>0. PICK why \in {"PASSWORD_CHANGED", "PASSWORD_RESET", "ACCOUNT_DELETED"} :
        RevokeAll(p, why)
  BY DEF ChangeCommit, ResetCommit, DeleteCommit
<1>1. /\ req'[p] = Idle
      /\ \A q \in Procs : q # p =>
           /\ req'[q].pc = req[q].pc /\ req'[q].op = req[q].op
           /\ req'[q].u = req[q].u /\ req'[q].s = req[q].s
           /\ req'[q].seen = req[q].seen
           /\ req'[q].targets = req[q].targets
           /\ ~req'[q].stale => /\ ~req[q].stale
                                /\ req[q].pc = "snapshot" => req[q].u # u
                                /\ req[q].targets \cap ss = {}
  BY <1>0, WriteEffect DEF RevokeAll
<1>2. Idle.pc = "idle" /\ Idle.targets = {}
  BY DEF Idle
<1>3. /\ u \in Users /\ ss \subseteq Sids /\ \A s \in ss : Live(s)
      /\ LiveOf(u) \subseteq ss
      /\ user[u].life = "live"
      /\ \A q \in Procs : q # p /\ req[q].pc = "claimed" => req[q].u # u
  BY <1>0, RequestFields
     DEF ChangeCommit, ResetCommit, DeleteCommit, RevokeAll,
        SessionInv, SnapshotInv, HolderInv, Revokers, Usable
<1>4. /\ \A v \in Users : v # u => user'[v] = user[v]
      /\ user'[u].life \in {"live", "deleted"}
      /\ user'[u].linked = user[u].linked
  BY <1>3 DEF ChangeCommit, ResetCommit, DeleteCommit, TypeOK, UserDoc
<1>5. \A s \in Sids :
        /\ session'[s].st = session[s].st
        /\ session'[s].owner = session[s].owner
        /\ session'[s].cred = session[s].cred
        /\ session'[s].version = session[s].version
        /\ s \in ss => /\ session'[s].reason = why
                       /\ session[s].st = "stored" /\ session[s].reason = "none"
        /\ s \notin ss => session'[s] = session[s]
  BY <1>0, <1>3 DEF RevokeAll, Revoked, TypeOK, SessionDoc, SessionRecord, Live
<1>6. /\ \A s \in Sids : Live(s)' => Live(s) /\ s \notin ss
      /\ \A s \in Sids : s \notin ss => Live(s)' = Live(s)
  BY <1>5 DEF Live
<1>7. /\ \A v : LiveOf(v)' \subseteq LiveOf(v)
      /\ \A v \in Users : v # u => Usable(v)' = Usable(v)
  BY <1>4, <1>5, <1>6 DEF LiveOf, Usable
<1>8. UNCHANGED <<rotations, replaySeen>> /\ audited' = Count(ss)
  BY <1>0 DEF RevokeAll
<1>a. RequestInv'
  BY <1>1, <1>2, <1>3, <1>4, <1>5, <1>8, RequestFields
     DEF SessionInv, RequestInv, RefreshPcs
<1>b. HolderInv'
  BY <1>1, <1>2, <1>3, <1>4, <1>7, RequestFields DEF SessionInv, HolderInv
<1>c. SnapshotInv'
  BY <1>1, <1>2, <1>3, <1>4, <1>6, <1>7, RequestFields
     DEF SessionInv, SnapshotInv
<1>d. UnusedInv'
  BY <1>5, <1>8 DEF SessionInv, UnusedInv, Count
<1>e. CredentialBinding'
  BY <1>3, <1>4, <1>5, <1>6, OwnerType
     DEF SessionInv, CredentialBinding, LiveOf, Live
<1>f. RotatedOncePerToken'
  BY <1>5, <1>8 DEF SessionInv, RotatedOncePerToken
<1>g. AuditedExactlyOnce'
  BY <1>5, <1>8 DEF SessionInv, AuditedExactlyOnce, Count, AuditedReasons
<1>h. ReplayOnlyIfSuperseded'
  BY <1>5, <1>8 DEF SessionInv, ReplayOnlyIfSuperseded
<1> QED
  BY <1>a, <1>b, <1>c, <1>d, <1>e, <1>f, <1>g, <1>h DEF SessionInv

(* A sign-in commits a session under the password the account has.         *)
LEMMA IssueStep ==
  ASSUME TypeOK, SessionInv, NEW p \in Procs, IssueCommit(p)
  PROVE  SessionInv'
<1> DEFINE u  == req[p].u
<1>0. PICK n \in Sids : /\ session[n].st = "absent"
                        /\ session' = Created(n, u, req[p].seen)
                        /\ Write(p, Idle, {u}, {n})
  BY DEF IssueCommit
<1>1. /\ req'[p] = Idle
      /\ \A q \in Procs : q # p =>
           /\ req'[q].pc = req[q].pc /\ req'[q].op = req[q].op
           /\ req'[q].u = req[q].u /\ req'[q].s = req[q].s
           /\ req'[q].seen = req[q].seen
           /\ req'[q].targets = req[q].targets
           /\ ~req'[q].stale => /\ ~req[q].stale
                                /\ req[q].pc = "snapshot" => req[q].u # u
                                /\ n \notin req[q].targets
  BY <1>0, WriteEffect
<1>2. Idle.pc = "idle" /\ Idle.targets = {}
  BY DEF Idle
<1>3. /\ u \in Users /\ Usable(u) /\ user[u].pw = req[p].seen
      /\ \A q \in Procs : q # p /\ req[q].pc = "claimed" => req[q].u # u
  BY RequestFields DEF IssueCommit, SessionInv, HolderInv
<1>4. /\ \A v \in Users : v # u => user'[v] = user[v]
      /\ \A v \in Users : /\ user'[v].life = user[v].life
                          /\ user'[v].pw = user[v].pw
                          /\ user'[v].status = user[v].status
                          /\ user'[v].linked = user[v].linked
  BY <1>3 DEF IssueCommit, TypeOK, UserDoc
<1>5. /\ session'[n].st = "stored" /\ session'[n].owner = u
      /\ session'[n].cred = req[p].seen /\ session'[n].version = 0
      /\ session'[n].reason = "none"
      /\ \A s \in Sids : s # n => session'[s] = session[s]
      /\ rotations[n] = 0 /\ audited[n] = 0
  BY <1>0 DEF Created, TypeOK, SessionInv, UnusedInv, NoSession
<1>6. /\ Live(n)' /\ ~Live(n)
      /\ \A s \in Sids : s # n => Live(s)' = Live(s)
  BY <1>0, <1>5 DEF Live
<1>7. /\ \A v : v # u => LiveOf(v)' \subseteq LiveOf(v)
      /\ \A v \in Users : Usable(v)' = Usable(v)
  BY <1>4, <1>5, <1>6 DEF LiveOf, Usable
<1>8. UNCHANGED <<audited, rotations, replaySeen>>
  BY DEF IssueCommit
<1>a. RequestInv'
  BY SMTT(30), <1>0, <1>1, <1>2, <1>3, <1>4, <1>5, <1>8, RequestFields
     DEF SessionInv, RequestInv, RefreshPcs
<1>b. HolderInv'
  BY <1>1, <1>2, <1>3, <1>4, <1>7, RequestFields DEF SessionInv, HolderInv
<1>c. SnapshotInv'
  BY <1>1, <1>2, <1>3, <1>4, <1>6, <1>7, RequestFields
     DEF SessionInv, SnapshotInv, ReadsFirst
<1>d. UnusedInv'
  BY <1>5, <1>8 DEF SessionInv, UnusedInv
<1>e. CredentialBinding'
  BY <1>3, <1>4, <1>5, <1>6, OwnerType
     DEF SessionInv, CredentialBinding, Live, Usable
<1>f. RotatedOncePerToken' /\ AuditedExactlyOnce' /\ ReplayOnlyIfSuperseded'
  BY <1>5, <1>8
     DEF SessionInv, RotatedOncePerToken, AuditedExactlyOnce,
     ReplayOnlyIfSuperseded, AuditedReasons
<1> QED
  BY <1>a, <1>b, <1>c, <1>d, <1>e, <1>f DEF SessionInv

(* A write to an account no transaction holds, which leaves its password and*)
(* its life alone.                                                         *)
LEMMA AccountStep ==
  ASSUME TypeOK, SessionInv, NEW u \in Users,
         \A v \in Users : v # u => user'[v] = user[v],
         user'[u].life = user[u].life, user'[u].pw = user[u].pw,
         \A q \in Procs :
           \/ req'[q] = Idle
           \/ /\ req'[q].pc = req[q].pc /\ req'[q].op = req[q].op
              /\ req'[q].u = req[q].u /\ req'[q].s = req[q].s
              /\ req'[q].seen = req[q].seen
              /\ req'[q].targets = req[q].targets
              /\ ~req'[q].stale => /\ ~req[q].stale
                                   /\ req[q].pc = "snapshot" => req[q].u # u
              /\ req[q].pc = "claimed" => req[q].u # u,
         UNCHANGED <<session, audited, rotations, replaySeen>>
  PROVE  SessionInv'
<1>2. Idle.pc = "idle" /\ Idle.targets = {}
  BY DEF Idle
<1>3. \A s : Live(s)' = Live(s)
  BY DEF Live
<1>4. /\ \A v : LiveOf(v)' = LiveOf(v)
      /\ \A v \in Users : v # u => Usable(v)' = Usable(v)
  BY <1>3 DEF LiveOf, Usable
<1>5. \A v \in Users : user'[v].life = user[v].life /\ user'[v].pw = user[v].pw
  OBVIOUS
<1>a. RequestInv'
  BY <1>2, <1>5, RequestFields DEF SessionInv, RequestInv, RefreshPcs
<1>b. HolderInv'
  BY <1>2, <1>4, RequestFields DEF SessionInv, HolderInv
<1>c. SnapshotInv'
  BY <1>2, <1>3, <1>4, RequestFields DEF SessionInv, SnapshotInv
<1>d. CredentialBinding'
  BY <1>3, <1>5, OwnerType DEF SessionInv, CredentialBinding, Live
<1>e. /\ UnusedInv' /\ RotatedOncePerToken'
      /\ AuditedExactlyOnce' /\ ReplayOnlyIfSuperseded'
  BY DEF SessionInv, UnusedInv, RotatedOncePerToken, AuditedExactlyOnce,
     ReplayOnlyIfSuperseded
<1> QED
  BY <1>a, <1>b, <1>c, <1>d, <1>e DEF SessionInv

(* The failed-login counter, the link and the unlink are such writes.      *)
LEMMA AccountRequestStep ==
  ASSUME TypeOK, SessionInv, NEW p \in Procs,
         RecordFailedLogin(p) \/ LinkCommit(p) \/ UnlinkCommit(p)
  PROVE  SessionInv'
<1> DEFINE u == req[p].u
<1>1. u \in Users /\ Write(p, Idle, {u}, {})
  BY RequestFields DEF RecordFailedLogin, LinkCommit, UnlinkCommit
<1>2. \A q \in Procs : q # p /\ req[q].pc = "claimed" => req[q].u # u
  BY DEF RecordFailedLogin, LinkCommit, UnlinkCommit, Held, SessionInv,
     HolderInv
<1>3. /\ \A v \in Users : v # u => user'[v] = user[v]
      /\ user'[u].life = user[u].life /\ user'[u].pw = user[u].pw
  <2>0. user \in [Users -> UserDoc]
    BY DEF TypeOK
  <2>1. CASE RecordFailedLogin(p)
    BY <1>1, <2>0, <2>1 DEF RecordFailedLogin, UserDoc
  <2>2. CASE LinkCommit(p)
    BY <1>1, <2>0, <2>2 DEF LinkCommit, UserDoc
  <2>3. CASE UnlinkCommit(p)
    BY <1>1, <2>0, <2>3 DEF UnlinkCommit, UserDoc
  <2> QED
    BY <2>1, <2>2, <2>3
<1>4. UNCHANGED <<session, audited, rotations, replaySeen>>
  BY DEF RecordFailedLogin, LinkCommit, UnlinkCommit
<1> QED
  BY <1>1, <1>2, <1>3, <1>4, WriteEffect, AccountStep

(* So is the status an operator sets.                                      *)
LEMMA StatusStep ==
  ASSUME TypeOK, SessionInv, NEW u \in Users, NEW st \in Statuses,
  SetStatus(u, st)
  PROVE  SessionInv'
<1>1. \A q \in Procs : req[q].pc = "claimed" => req[q].u # u
  BY DEF SetStatus, Held
<1>2. /\ \A v \in Users : v # u => user'[v] = user[v]
      /\ user'[u].life = user[u].life /\ user'[u].pw = user[u].pw
  BY DEF SetStatus, TypeOK, UserDoc
<1>3. ExternalWrite({u}, {}) /\ UNCHANGED <<session, audited, rotations, replaySeen>>
  BY DEF SetStatus
<1> QED
  BY <1>1, <1>2, <1>3, ExternalWriteEffect, AccountStep

(* A lock that runs out only makes an account more usable.                 *)
LEMMA LockExpiryStep ==
  ASSUME TypeOK, SessionInv, NEW u \in Users, LockExpires(u)
  PROVE  SessionInv'
<1>1. \A v \in Users : /\ user'[v].life = user[v].life /\ user'[v].pw = user[v].pw
                       /\ user'[v].status = user[v].status
                       /\ user'[v].linked = user[v].linked
                       /\ ~user[v].locked => ~user'[v].locked
  BY DEF LockExpires, TypeOK, UserDoc
<1>0. UNCHANGED <<session, audited, rotations, replaySeen, req>>
  BY DEF LockExpires
<1>3. \A s : Live(s)' = Live(s)
  BY <1>0 DEF Live
<1>4. /\ \A v : LiveOf(v)' = LiveOf(v)
      /\ \A v \in Users : Usable(v)' = Usable(v)
  BY <1>0, <1>1, <1>3 DEF LiveOf, Usable
<1>a. RequestInv'
  BY <1>0, <1>1, RequestFields DEF SessionInv, RequestInv, RefreshPcs
<1>b. HolderInv'
  BY <1>0, <1>1, <1>4, RequestFields DEF SessionInv, HolderInv
<1>c. SnapshotInv'
  BY <1>0, <1>1, <1>3, <1>4, RequestFields DEF SessionInv, SnapshotInv
<1>d. CredentialBinding'
  BY <1>0, <1>1, <1>3, OwnerType DEF SessionInv, CredentialBinding, Live
<1>e. /\ UnusedInv' /\ RotatedOncePerToken'
      /\ AuditedExactlyOnce' /\ ReplayOnlyIfSuperseded'
  BY <1>0
     DEF SessionInv, UnusedInv, RotatedOncePerToken, AuditedExactlyOnce,
     ReplayOnlyIfSuperseded
<1> QED
  BY <1>a, <1>b, <1>c, <1>d, <1>e DEF SessionInv

(* A rotation moves version and rotations together.                        *)
LEMMA RotateStep ==
  ASSUME TypeOK, SessionInv, NEW p \in Procs, Rotate(p)
  PROVE  SessionInv'
<1> DEFINE n == req[p].s
<1>1. /\ req'[p] = Idle
      /\ \A q \in Procs : q # p =>
           /\ req'[q].pc = req[q].pc /\ req'[q].op = req[q].op
           /\ req'[q].u = req[q].u /\ req'[q].s = req[q].s
           /\ req'[q].seen = req[q].seen
           /\ req'[q].targets = req[q].targets
           /\ ~req'[q].stale => ~req[q].stale
  BY WriteEffect DEF Rotate
<1>2. Idle.pc = "idle" /\ Idle.targets = {}
  BY DEF Idle
<1>3. n \in Sids /\ Live(n) /\ session[n].version = req[p].seen
  BY RequestFields DEF Rotate, RefreshPcs
<1>4. /\ \A s \in Sids : s # n => /\ session'[s] = session[s]
                                   /\ rotations'[s] = rotations[s]
      /\ session'[n].st = session[n].st /\ session'[n].owner = session[n].owner
      /\ session'[n].cred = session[n].cred
      /\ session'[n].reason = session[n].reason
      /\ session'[n].version = session[n].version + 1
      /\ rotations'[n] = rotations[n] + 1
  BY <1>3 DEF Rotate, TypeOK, SessionDoc, SessionRecord
<1>5. UNCHANGED <<user, audited, replaySeen>>
  BY DEF Rotate
<1>6. \A s \in Sids : Live(s)' = Live(s)
  BY <1>4 DEF Live
<1>7. \A u : LiveOf(u)' = LiveOf(u) /\ Usable(u)' = Usable(u)
  BY <1>4, <1>5, <1>6 DEF LiveOf, Usable
<1>a. RequestInv'
  BY <1>1, <1>2, <1>4, <1>5, RequestFields
     DEF SessionInv, RequestInv, RefreshPcs
<1>b. HolderInv'
  BY <1>1, <1>2, <1>5, <1>7, RequestFields DEF SessionInv, HolderInv
<1>c. SnapshotInv'
  BY <1>1, <1>2, <1>5, <1>6, <1>7, RequestFields DEF SessionInv, SnapshotInv
<1>d. UnusedInv'
  BY <1>3, <1>4, <1>5 DEF SessionInv, UnusedInv, Live
<1>e. CredentialBinding'
  BY <1>4, <1>5, <1>6 DEF SessionInv, CredentialBinding
<1>f. RotatedOncePerToken'
  BY <1>3, <1>4 DEF SessionInv, RotatedOncePerToken, Live
<1>g. AuditedExactlyOnce' /\ ReplayOnlyIfSuperseded'
  BY <1>4, <1>5 DEF SessionInv, AuditedExactlyOnce, ReplayOnlyIfSuperseded
<1> QED
  BY <1>a, <1>b, <1>c, <1>d, <1>e, <1>f, <1>g DEF SessionInv

(* Running out changes nothing the invariant reads.                        *)
LEMMA ExpireStep ==
  ASSUME TypeOK, SessionInv, NEW n \in Sids, Expire(n)
  PROVE  SessionInv'
<1>0. UNCHANGED <<user, audited, rotations, replaySeen, req>>
  BY DEF Expire
<1>1. /\ session[n].st = "stored"
      /\ session'[n].st = session[n].st /\ session'[n].owner = session[n].owner
      /\ session'[n].cred = session[n].cred
      /\ session'[n].version = session[n].version
      /\ session'[n].reason = session[n].reason
      /\ \A s \in Sids : s # n => session'[s] = session[s]
  BY DEF Expire, TypeOK, SessionDoc, SessionRecord
<1>2. \A s \in Sids : Live(s)' = Live(s)
  BY <1>1 DEF Live
<1>3. \A u : LiveOf(u)' = LiveOf(u) /\ Usable(u)' = Usable(u)
  BY <1>0, <1>1, <1>2 DEF LiveOf, Usable
<1>a. RequestInv'
  BY <1>0, <1>1, RequestFields DEF SessionInv, RequestInv, RefreshPcs
<1>b. HolderInv'
  BY <1>0, <1>3 DEF SessionInv, HolderInv
<1>c. SnapshotInv'
  BY <1>0, <1>2, <1>3, RequestFields DEF SessionInv, SnapshotInv
<1>d. UnusedInv' /\ CredentialBinding'
  BY <1>0, <1>1, <1>2 DEF SessionInv, UnusedInv, CredentialBinding
<1>e. RotatedOncePerToken' /\ AuditedExactlyOnce' /\ ReplayOnlyIfSuperseded'
  BY <1>0, <1>1
     DEF SessionInv, RotatedOncePerToken, AuditedExactlyOnce,
     ReplayOnlyIfSuperseded
<1> QED
  BY <1>a, <1>b, <1>c, <1>d, <1>e DEF SessionInv

(* A purged session is no longer live, and snapshots that had it are stale.*)
LEMMA PurgeStep ==
  ASSUME TypeOK, SessionInv, NEW n \in Sids, Purge(n)
  PROVE  SessionInv'
<1>1. \A q \in Procs :
           /\ req'[q].pc = req[q].pc /\ req'[q].op = req[q].op
           /\ req'[q].u = req[q].u /\ req'[q].s = req[q].s
           /\ req'[q].seen = req[q].seen
           /\ req'[q].targets = req[q].targets
           /\ ~req'[q].stale => ~req[q].stale /\ n \notin req[q].targets
  BY ExternalWriteEffect DEF Purge
<1>2. /\ session'[n].st = "purged" /\ session'[n].reason = "none"
      /\ \A s \in Sids : s # n => session'[s] = session[s]
  BY DEF Purge, TypeOK, NoSession
<1>3. UNCHANGED <<user, audited, rotations, replaySeen>>
  BY DEF Purge
<1>4. /\ ~Live(n)'
      /\ \A s \in Sids : s # n => Live(s)' = Live(s)
  BY <1>2 DEF Live
<1>5. \A u : LiveOf(u)' \subseteq LiveOf(u) /\ Usable(u)' = Usable(u)
  BY <1>2, <1>3, <1>4 DEF LiveOf, Usable
<1>a. RequestInv'
  BY <1>1, <1>2, <1>3, RequestFields DEF SessionInv, RequestInv, RefreshPcs
<1>b. HolderInv'
  BY <1>1, <1>3, <1>5, RequestFields DEF SessionInv, HolderInv
<1>c. SnapshotInv'
  BY <1>1, <1>3, <1>4, <1>5, RequestFields DEF SessionInv, SnapshotInv
<1>d. /\ UnusedInv' /\ CredentialBinding' /\ RotatedOncePerToken'
      /\ AuditedExactlyOnce' /\ ReplayOnlyIfSuperseded'
  BY <1>2, <1>3, <1>4
     DEF SessionInv, UnusedInv, CredentialBinding, RotatedOncePerToken,
     AuditedExactlyOnce, ReplayOnlyIfSuperseded
<1> QED
  BY <1>a, <1>b, <1>c, <1>d DEF SessionInv

(* A new account: no request and no live session can be about it.          *)
LEMMA RegisterStep ==
  ASSUME TypeOK, SessionInv, NEW n \in Users,
         Register(n) \/ \E s \in Sids : GoogleRegister(n, s)
  PROVE  SessionInv'
<1>0. user[n].life = "absent" /\ UNCHANGED <<audited, rotations, replaySeen, req>>
  BY DEF Register, GoogleRegister
<1>1. \A p \in Procs : req[p].pc # "idle" => req[p].u # n
  BY <1>0 DEF SessionInv, RequestInv
<1>2. /\ \A v \in Users : v # n => user'[v] = user[v]
      /\ user'[n].life = "live"
  BY DEF Register, GoogleRegister, TypeOK, UserDoc
<1>3. \A s \in Sids : Live(s) => session[s].owner # n
  BY <1>0 DEF SessionInv, CredentialBinding
<1> DEFINE Added(s) == /\ session[s].st = "absent" /\ session'[s].st = "stored"
                       /\ session'[s].reason = "none" /\ session'[s].owner = n
                       /\ session'[s].version = 0
                       /\ session'[s].cred = user'[n].pw
<1>4. \A s \in Sids : session'[s] = session[s] \/ Added(s)
  <2>1. CASE Register(n)
    BY <2>1 DEF Register
  <2>2. ASSUME NEW t \in Sids, GoogleRegister(n, t)
        PROVE  \A s \in Sids : session'[s] = session[s] \/ Added(s)
    <3>1. user'[n].pw = 0
      BY <2>2 DEF GoogleRegister, TypeOK, UserDoc
    <3>2. \A s \in Sids : s # t => session'[s] = session[s]
      BY <2>2 DEF GoogleRegister, Created, TypeOK
    <3>3. /\ session[t].st = "absent" /\ session'[t].st = "stored"
          /\ session'[t].reason = "none" /\ session'[t].owner = n
          /\ session'[t].version = 0 /\ session'[t].cred = 0
      BY <2>2 DEF GoogleRegister, Created, NoSession, TypeOK
    <3> QED
      BY <3>1, <3>2, <3>3
  <2> QED
    BY <2>1, <2>2
<1>5. \A s \in Sids : Live(s)' => Live(s) \/ Added(s)
  BY <1>4 DEF Live
<1>6. \A s \in Sids : Live(s) => Live(s)' /\ session'[s] = session[s]
  BY <1>4 DEF Live
<1>7. \A v : v # n => LiveOf(v)' \subseteq LiveOf(v)
  BY <1>4, <1>5 DEF LiveOf
<1>8. \A v \in Users : v # n => Usable(v)' = Usable(v)
  BY <1>2 DEF Usable
<1> HIDE DEF New
<1>a. RequestInv'
  BY <1>0, <1>1, <1>2, <1>4, RequestFields
     DEF SessionInv, RequestInv, RefreshPcs, New
<1>b. HolderInv'
  BY <1>0, <1>1, <1>2, <1>8, RequestFields DEF SessionInv, HolderInv
<1>c. SnapshotInv'
  BY <1>0, <1>1, <1>2, <1>6, <1>7, RequestFields DEF SessionInv, SnapshotInv
<1>d. UnusedInv'
  BY <1>0, <1>4 DEF SessionInv, UnusedInv, New
<1>e. CredentialBinding'
  BY <1>2, <1>3, <1>4, <1>5, <1>6, OwnerType
     DEF SessionInv, CredentialBinding, Live, New
<1>f. RotatedOncePerToken' /\ AuditedExactlyOnce' /\ ReplayOnlyIfSuperseded'
  BY <1>0, <1>4
     DEF SessionInv, UnusedInv, RotatedOncePerToken, AuditedExactlyOnce,
     AuditedReasons, ReplayOnlyIfSuperseded, New
<1> QED
  BY <1>a, <1>b, <1>c, <1>d, <1>e, <1>f DEF SessionInv

(* Nothing is stored and nothing is in flight at first.                    *)
LEMMA SessionInit == Init => SessionInv
<1> SUFFICES ASSUME Init PROVE SessionInv
  OBVIOUS
<1>1. /\ \A p \in Procs : /\ req[p].pc = "idle" /\ req[p].targets = {}
      /\ \A s \in Sids : /\ session[s] = NoSession /\ audited[s] = 0
                          /\ rotations[s] = 0
      /\ NoSession.st = "absent" /\ NoSession.reason = "none"
  BY DEF Init, Idle, NoSession
<1> QED
  BY <1>1 DEF SessionInv, RequestInv, HolderInv, SnapshotInv, UnusedInv,
     CredentialBinding, RotatedOncePerToken, AuditedExactlyOnce,
     ReplayOnlyIfSuperseded, RefreshPcs, Live

(* A read that verified a credential of a live account.                    *)
LEMMA ReadRequest ==
  ASSUME TypeOK, NEW p \in Procs, NEW u \in Users, NEW op \in AllOps,
         Verified(p, op, u), user[u].life # "absent", SessionInv
  PROVE  SessionInv'
<1> DEFINE r == [Idle EXCEPT !.op = op, !.pc = "verified", !.u = u,
                             !.seen = user[u].pw]
<1>1. user[u].pw \in Nat
  BY DEF TypeOK, UserDoc
<1>2. r \in Request
  BY <1>1 DEF Idle, Request, RequestRecord, RefreshPcs
<1>3. r.pc = "verified" /\ r.targets = {} /\ r.u = u
  BY DEF Idle
<1>4. /\ req' = [req EXCEPT ![p] = r]
      /\ UNCHANGED <<user, session, audited, rotations, replaySeen>>
  BY DEF Verified
<1> HIDE DEF r
<1> QED
  BY <1>2, <1>3, <1>4, SettleStep DEF RefreshPcs

(* Every read that starts a request.                                       *)
LEMMA ReadStepInv ==
  ASSUME TypeOK, SessionInv, NEW p \in Procs, ReadStep(p)
  PROVE  SessionInv'
<1>1. ASSUME NEW u \in Users,
             \/ LoginRead(p, u) \/ GoogleResolve(p, u) \/ ChangeRead(p, u)
             \/ ResetRead(p, u) \/ DeleteRead(p, u) \/ UnlinkRead(p, u)
             \/ LinkRead(p, u)
      PROVE  SessionInv'
  <2>1. user[u].life = "live"
    BY <1>1 DEF LoginRead, LoginReadable, GoogleResolve, ChangeRead, ResetRead,
       DeleteRead, UnlinkRead, LinkRead, Usable
  <2>2. PICK op \in AllOps : Verified(p, op, u)
    BY <1>1 DEF LoginRead, GoogleResolve, ChangeRead, ResetRead, DeleteRead,
       UnlinkRead, LinkRead, AllOps
  <2> QED
    BY <2>1, <2>2, ReadRequest
<1>2. ASSUME NEW u \in Users, LoginWrongPassword(p, u) PROVE SessionInv'
  <2> DEFINE r == [Idle EXCEPT !.op = "login", !.pc = "badpw", !.u = u]
  <2>1. r \in Request
    BY DEF Idle, Request, RequestRecord, RefreshPcs, AllOps
  <2>2. r.pc = "badpw" /\ r.targets = {} /\ r.u = u
    BY DEF Idle
  <2>3. /\ req' = [req EXCEPT ![p] = r] /\ user[u].life = "live"
        /\ UNCHANGED <<user, session, audited, rotations, replaySeen>>
    BY <1>2 DEF LoginWrongPassword, LoginReadable
  <2> HIDE DEF r
  <2> QED
    BY <2>1, <2>2, <2>3, SettleStep DEF RefreshPcs
<1>3. ASSUME NEW s \in Sids, NEW v \in 0..MaxVersion, RefreshRead(p, s, v)
      PROVE SessionInv'
  <2> DEFINE pc == IF v = session[s].version THEN "matched" ELSE "replay"
             r  == [Idle EXCEPT !.op = "refresh", !.s = s, !.seen = v,
                                !.u = session[s].owner, !.pc = pc]
  <2>1. /\ req' = [req EXCEPT ![p] = r]
        /\ UNCHANGED <<user, session, audited, rotations>>
        /\ replaySeen' = [replaySeen EXCEPT ![s] = @ \/ v # session[s].version]
        /\ Live(s)
    BY <1>3 DEF RefreshRead
  <2>2. session[s].owner \in Users /\ session[s].st = "stored"
    BY <2>1, OwnerType DEF Live
  <2>3. user[session[s].owner].life = "live"
    BY <2>1 DEF SessionInv, CredentialBinding
  <2>4. r \in Request
    <3>1. v \in Nat
      BY ConstantsAssumption
    <3> QED
      BY <2>2, <3>1 DEF Idle, Request, RequestRecord, RefreshPcs, AllOps
  <2>5. /\ r.pc = pc /\ r.targets = {} /\ r.u = session[s].owner /\ r.s = s
    BY DEF Idle
  <2>6. /\ pc \in {"matched", "replay"}
        /\ \A t \in Sids : replaySeen[t] => replaySeen'[t]
    BY <2>1 DEF TypeOK
  <2>7. pc = "replay" => replaySeen'[s]
    <3>1. pc = "replay" => v # session[s].version
      OBVIOUS
    <3> QED
      BY <2>1, <3>1 DEF TypeOK
  <2> HIDE DEF r, pc
  <2> QED
    BY <2>1, <2>2, <2>3, <2>4, <2>5, <2>6, <2>7, SettleStep
<1>4. ASSUME NEW s \in Sids, NEW op \in AllOps, Authenticate(p, s, op)
      PROVE SessionInv'
  <2> DEFINE r == [Idle EXCEPT !.op = op, !.pc = "authed", !.s = s,
                               !.u = session[s].owner]
  <2>1. /\ req' = [req EXCEPT ![p] = r]
        /\ UNCHANGED <<user, session, audited, rotations, replaySeen>>
        /\ Live(s) /\ user[session[s].owner].life = "live"
    BY <1>4 DEF Authenticate, Usable
  <2>2. session[s].owner \in Users
    BY <2>1, OwnerType DEF Live
  <2>3. r \in Request
    BY <2>2 DEF Idle, Request, RequestRecord, RefreshPcs
  <2>4. r.pc = "authed" /\ r.targets = {} /\ r.u = session[s].owner
    BY DEF Idle
  <2> HIDE DEF r
  <2> QED
    BY <2>1, <2>3, <2>4, SettleStep DEF RefreshPcs
<1> QED
  BY <1>1, <1>2, <1>3, <1>4 DEF ReadStep

(* A request ends without writing.                                         *)
LEMMA IdleStep ==
  ASSUME TypeOK, SessionInv, NEW p \in Procs, req' = [req EXCEPT ![p] = Idle],
         UNCHANGED <<user, session, audited, rotations, replaySeen>>
  PROVE  SessionInv'
<1>1. Idle.pc = "idle" /\ Idle.targets = {}
  BY DEF Idle
<1> QED
  BY <1>1, IdleType, SettleStep DEF RefreshPcs

(* A retried transaction starts over with no snapshot.                     *)
LEMMA ConflictStep ==
  ASSUME TypeOK, SessionInv, NEW p \in Procs, Conflict(p)
  PROVE  SessionInv'
<1> DEFINE r == [req[p] EXCEPT !.pc = "verified", !.targets = {},
                   !.stale = FALSE]
<1>1. r \in Request
  BY RetryType DEF Conflict, TypeOK
<1>2. r.pc = "verified" /\ r.targets = {} /\ r.u = req[p].u
  BY RequestFields DEF RequestRecord
<1>3. user[req[p].u].life # "absent"
  BY DEF Conflict, SessionInv, RequestInv
<1>4. /\ req' = [req EXCEPT ![p] = r]
      /\ UNCHANGED <<user, session, audited, rotations, replaySeen>>
  BY RequestFields DEF Conflict, TypeOK, RequestRecord
<1> HIDE DEF r
<1> QED
  BY <1>1, <1>2, <1>3, <1>4, SettleStep DEF RefreshPcs

(* The second read of a refresh.                                           *)
LEMMA RefreshReadUserStep ==
  ASSUME TypeOK, SessionInv, NEW p \in Procs, RefreshReadUser(p)
  PROVE  SessionInv'
<1>1. PICK pc \in {"gone", "blocked", "rotate"} :
        /\ req' = [req EXCEPT ![p] = [req[p] EXCEPT !.pc = pc]]
        /\ pc = "gone" => user[req[p].u].life # "live"
  BY DEF RefreshReadUser, Goto
<1> DEFINE r == [req[p] EXCEPT !.pc = pc]
<1>2. req[p].pc = "matched" /\ UNCHANGED <<user, session, audited, rotations, replaySeen>>
  BY DEF RefreshReadUser
<1>3. r \in Request
  <2>1. r \in RequestRecord
    BY RequestFields DEF RequestRecord, RefreshPcs
  <2> QED
    BY <1>2, <2>1, RequestFields DEF Request, RequestRecord, RefreshPcs
<1>4. /\ r.pc = pc /\ r.targets = req[p].targets /\ r.u = req[p].u /\ r.s = req[p].s
  BY RequestFields DEF RequestRecord
<1>5. /\ req[p].targets = {} /\ user[req[p].u].life # "absent"
      /\ session[req[p].s].st # "absent"
      /\ session[req[p].s].st = "stored" => session[req[p].s].owner = req[p].u
  BY <1>2 DEF SessionInv, RequestInv, RefreshPcs
<1>7. req' = [req EXCEPT ![p] = r]
  BY <1>1
<1>6. pc = "gone" => user[req[p].u].life = "deleted"
  BY <1>1, <1>2, <1>5, RequestFields DEF TypeOK, UserDoc
<1> HIDE DEF r
<1> QED
  BY <1>2, <1>3, <1>4, <1>5, <1>6, <1>7, SettleStep

(* Every step of an account transaction.                                   *)
LEMMA TxnStepInv ==
  ASSUME TypeOK, SessionInv, NEW p \in Procs, TxnStep(p)
  PROVE  SessionInv'
  BY SnapshotStep, ClaimStep, IdleStep, ConflictStep, IssueStep, RevokeAllStep,
     AccountRequestStep DEF TxnStep, ClaimMiss

(* Every step of a refresh, a logout or a revocation.  A refresh that found*)
(* the account deleted finds the session dead, so it revokes nothing.      *)
LEMMA SessionStepInv ==
  ASSUME TypeOK, SessionInv, NEW p \in Procs, SessionStep(p)
  PROVE  SessionInv'
<1>1. CASE RevokeReplayed(p)
  <2> DEFINE ss == {s \in {req[p].s} : Live(s)}
  <2>1. /\ req[p].s \in Sids /\ replaySeen[req[p].s]
    BY <1>1, RequestFields
       DEF RevokeReplayed, RefreshPcs, SessionInv, RequestInv
  <2>2. ss \in SUBSET Sids /\ \A s \in ss : Live(s) /\ replaySeen[s]
    BY <2>1
  <2>3. /\ session' = Revoked(ss, "REFRESH_REPLAY") /\ audited' = Count(ss)
        /\ Write(p, Idle, {}, ss) /\ UNCHANGED <<user, rotations, replaySeen>>
    BY <1>1 DEF RevokeReplayed
  <2> HIDE DEF ss
  <2> QED
    BY <2>2, <2>3, RevocationStep DEF Reasons, AuditedReasons
<1>2. CASE Logout(p)
  <2> DEFINE ss == {s \in {req[p].s} : Live(s)}
  <2>1. ss \in SUBSET Sids /\ \A s \in ss : Live(s)
    BY <1>2, RequestFields DEF Logout
  <2>2. /\ session' = Revoked(ss, "LOGOUT")
        /\ Write(p, Idle, {}, ss) /\ UNCHANGED <<user, audited, rotations, replaySeen>>
    BY <1>2 DEF Logout
  <2> HIDE DEF ss
  <2> QED
    BY <2>1, <2>2, RevocationStep DEF Reasons, AuditedReasons
<1>3. CASE LogoutAll(p)
  <2> DEFINE ss == {s \in LiveOf(req[p].u) : ~session[s].expired}
  <2>1. ss \in SUBSET Sids /\ \A s \in ss : Live(s)
    BY DEF LiveOf
  <2>2. /\ session' = Revoked(ss, "LOGOUT_ALL") /\ audited' = Count(ss)
        /\ Write(p, Idle, {}, ss) /\ UNCHANGED <<user, rotations, replaySeen>>
    BY <1>3 DEF LogoutAll
  <2> HIDE DEF ss
  <2> QED
    BY <2>1, <2>2, RevocationStep DEF Reasons, AuditedReasons
<1>4. ASSUME NEW t \in Sids, RevokeOther(p, t) PROVE SessionInv'
  <2>1. {t} \in SUBSET Sids /\ \A s \in {t} : Live(s)
    BY <1>4 DEF RevokeOther, LiveOf
  <2>2. /\ session' = Revoked({t}, "SESSION_REVOKED") /\ audited' = Count({t})
        /\ Write(p, Idle, {}, {t}) /\ UNCHANGED <<user, rotations, replaySeen>>
    BY <1>4 DEF RevokeOther
  <2> QED
    BY <2>1, <2>2, RevocationStep DEF Reasons, AuditedReasons
<1>5. CASE RevokeUnusable(p)
  <2> DEFINE ss == {s \in {req[p].s} : Live(s)}
  <2>1. ss \in SUBSET Sids /\ \A s \in ss : Live(s)
    BY <1>5, RequestFields DEF RevokeUnusable, RefreshPcs
  <2>2. CASE req[p].pc = "gone"
    <3>1. /\ req[p].s \in Sids /\ ~Live(req[p].s)
      BY <2>2, RequestFields
         DEF RefreshPcs, SessionInv, RequestInv, CredentialBinding, Live
    <3>2. /\ session' = Revoked({}, "LOGOUT")
          /\ Write(p, Idle, {}, {})
          /\ UNCHANGED <<user, audited, rotations, replaySeen>>
      BY <1>5, <3>1 DEF RevokeUnusable, Revoked, Write
    <3> QED
      BY <3>2, RevocationStep DEF Reasons, AuditedReasons
  <2>3. CASE req[p].pc = "blocked"
    <3>1. /\ session' = Revoked(ss, "ACCOUNT_BLOCKED")
          /\ Write(p, Idle, {}, ss)
          /\ UNCHANGED <<user, audited, rotations, replaySeen>>
      BY <1>5, <2>3 DEF RevokeUnusable
    <3> HIDE DEF ss
    <3> QED
      BY <2>1, <3>1, RevocationStep DEF Reasons, AuditedReasons
  <2> QED
    BY <1>5, <2>2, <2>3 DEF RevokeUnusable
<1> QED
  BY <1>1, <1>2, <1>3, <1>4, <1>5, RefreshReadUserStep, RotateStep, IdleStep
     DEF SessionStep, RotateLose

(* Registration, time and the operator.                                    *)
LEMMA EnvironmentStep ==
  ASSUME TypeOK, SessionInv, Environment
  PROVE  SessionInv'
  BY RegisterStep, LockExpiryStep, StatusStep, ExpireStep, PurgeStep
     DEF Environment

(* The invariant is inductive.                                             *)
LEMMA SessionInvStep == TypeOK /\ SessionInv /\ [Next]_vars => SessionInv'
<1> SUFFICES ASSUME TypeOK, SessionInv, [Next]_vars PROVE SessionInv'
  OBVIOUS
<1>1. CASE UNCHANGED vars
  BY <1>1 DEF vars, SessionInv, RequestInv, HolderInv, SnapshotInv, UnusedInv,
     CredentialBinding, RotatedOncePerToken, AuditedExactlyOnce,
     ReplayOnlyIfSuperseded, Live, LiveOf, Usable
<1>2. CASE Next
  BY <1>2, ReadStepInv, TxnStepInv, SessionStepInv, IdleStep, EnvironmentStep
     DEF Next, Fail
<1> QED
  BY <1>1, <1>2

-----------------------------------------------------------------------------
(* The theorems                                                            *)

(* The strengthening holds of every reachable state: one transaction at a  *)
(* time holds an account, fresh snapshots are true, and the four invariants*)
(* below hold (auth.service.ts and auth-session.service.ts).               *)
THEOREM SessionsCorrect == Spec => []SessionInv
<1> QED
  BY TypeInit, TypeStep, SessionInit, SessionInvStep, PTL DEF Spec

(* No session survives a change of the password it was issued under, or the*)
(* deletion of its account.                                                *)
THEOREM CredentialBindingCorrect == Spec => []CredentialBinding
<1>1. SessionInv => CredentialBinding
  BY DEF SessionInv
<1> QED
  BY <1>1, SessionsCorrect, PTL

(* No refresh token is traded twice (auth-session.service.ts:257).         *)
THEOREM RotatedOncePerTokenCorrect == Spec => []RotatedOncePerToken
<1>1. SessionInv => RotatedOncePerToken
  BY DEF SessionInv
<1> QED
  BY <1>1, SessionsCorrect, PTL

(* A security revocation is audited exactly once.                          *)
THEOREM AuditedExactlyOnceCorrect == Spec => []AuditedExactlyOnce
<1>1. SessionInv => AuditedExactlyOnce
  BY DEF SessionInv
<1> QED
  BY <1>1, SessionsCorrect, PTL

(* A lost race between two refreshes is no replay                          *)
(* (auth-session.service.ts:285).                                          *)
THEOREM ReplayOnlyIfSupersededCorrect == Spec => []ReplayOnlyIfSuperseded
<1>1. SessionInv => ReplayOnlyIfSuperseded
  BY DEF SessionInv
<1> QED
  BY <1>1, SessionsCorrect, PTL

(* What a step may do to a revoked session, as in RevocationIsFinal.       *)
Final(s) ==
  session[s].st = "stored" /\ session[s].reason # "none" =>
     session'[s] \in {session[s], [session[s] EXCEPT !.expired = TRUE],
                     [NoSession EXCEPT !.st = "purged"]}

(* Revoking live sessions leaves the revoked ones alone.                   *)
LEMMA OnlyLiveRevoked ==
  ASSUME TypeOK, NEW ss, NEW why, session' = Revoked(ss, why),
         \A s \in ss : Live(s)
  PROVE  \A s \in Sids : Final(s)
  BY DEF Revoked, Live, Final

(* No step changes a revoked session, but to let it run out or purge it.   *)
LEMMA FinalStep ==
  ASSUME TypeOK, SessionInv, [Next]_vars, NEW s \in Sids
  PROVE  Final(s)
<1>1. CASE UNCHANGED session
  BY <1>1 DEF Final
<1>2. ASSUME NEW n \in Sids, Expire(n) PROVE Final(s)
  BY <1>2 DEF Expire, TypeOK, Final
<1>3. ASSUME NEW n \in Sids, Purge(n) PROVE Final(s)
  BY <1>3 DEF Purge, TypeOK, Final
<1>4. ASSUME NEW n \in Sids, session[n].st = "absent",
             session'[s] = session[s] \/ s = n
      PROVE  Final(s)
  BY <1>4 DEF Final
<1>5. ASSUME NEW p \in Procs, IssueCommit(p) PROVE Final(s)
  BY <1>4, <1>5 DEF IssueCommit, Created, TypeOK
<1>6. ASSUME NEW u \in Users, NEW n \in Sids, GoogleRegister(u, n)
      PROVE  Final(s)
  BY <1>4, <1>6 DEF GoogleRegister, Created, TypeOK
<1>7. ASSUME NEW p \in Procs, Rotate(p) PROVE Final(s)
  BY <1>7 DEF Rotate, Live, TypeOK, Final
<1>8. ASSUME NEW p \in Procs,
             ChangeCommit(p) \/ ResetCommit(p) \/ DeleteCommit(p)
      PROVE Final(s)
  <2>1. PICK why : RevokeAll(p, why)
    BY <1>8 DEF ChangeCommit, ResetCommit, DeleteCommit
  <2>2. \A t \in req[p].targets : Live(t)
    BY <2>1 DEF RevokeAll, SessionInv, SnapshotInv
  <2> QED
    BY <2>1, <2>2, OnlyLiveRevoked DEF RevokeAll
<1>9. ASSUME NEW p \in Procs,
             RevokeReplayed(p) \/ RevokeUnusable(p) \/ Logout(p)
      PROVE Final(s)
  <2>1. PICK why : session' = Revoked({t \in {req[p].s} : Live(t)}, why)
    BY <1>9 DEF RevokeReplayed, RevokeUnusable, Logout
  <2> QED
    BY <2>1, OnlyLiveRevoked
<1>9a. ASSUME NEW p \in Procs, LogoutAll(p) PROVE Final(s)
  BY <1>9a, OnlyLiveRevoked DEF LogoutAll, LiveOf
<1>9b. ASSUME NEW p \in Procs, NEW t \in Sids, RevokeOther(p, t) PROVE Final(s)
  BY <1>9b, OnlyLiveRevoked DEF RevokeOther, LiveOf
<1>10. ASSUME NEW p \in Procs, ReadStep(p) PROVE UNCHANGED session
  BY <1>10
     DEF ReadStep, LoginRead, LoginWrongPassword, GoogleResolve, ChangeRead,
     ResetRead, DeleteRead, UnlinkRead, LinkRead, RefreshRead, Authenticate,
     Verified
<1>11. ASSUME NEW p \in Procs, TxnStep(p)
       PROVE UNCHANGED session \/ IssueCommit(p) \/ ChangeCommit(p)
               \/ ResetCommit(p) \/ DeleteCommit(p)
  BY <1>11
     DEF TxnStep, RecordFailedLogin, Snapshot, ClaimFirst, ClaimLater,
     ClaimMiss, Conflict, LinkCommit, UnlinkCommit
<1>12. ASSUME NEW p \in Procs, SessionStep(p) PROVE Final(s)
  BY <1>1, <1>7, <1>9, <1>9a, <1>9b, <1>12
     DEF SessionStep, RefreshReadUser, RotateLose
<1>13. CASE Environment
  BY <1>1, <1>2, <1>3, <1>6, <1>13
     DEF Environment, Register, LockExpires, SetStatus
<1> QED
  BY <1>1, <1>5, <1>8, <1>10, <1>11, <1>12, <1>13 DEF Next, Fail, vars

(* A session that was revoked is never revoked again, rotated or restored. *)
THEOREM RevocationIsFinalCorrect == Spec => RevocationIsFinal
<1>1. TypeOK /\ SessionInv /\ [Next]_vars
        => [\A s \in Sids :
       session[s].st = "stored" /\ session[s].reason # "none" =>
         session'[s] \in {session[s], [session[s] EXCEPT !.expired = TRUE],
                         [NoSession EXCEPT !.st = "purged"]}]_vars
  BY FinalStep DEF Final
<1> QED
  BY <1>1, TypeCorrect, SessionsCorrect, PTL DEF Spec, RevocationIsFinal

(* Sign-ins commit only for active accounts that are not locked, Google    *)
(* sign-ins only for linked ones                                           *)
(* (google-oauth-account-unlink.service.ts:157).                           *)
THEOREM IssuedToEligibleCorrect == Spec => IssuedToEligible
<1>1. SessionInv => \A p \in Procs :
        Issues(p) => /\ Usable(req[p].u) /\ ~user[req[p].u].locked
                     /\ req[p].op = "google" => user[req[p].u].linked
  BY DEF SessionInv, HolderInv, Issues
<1>2. SessionInv => [\A p \in Procs :
        Issues(p) => /\ Usable(req[p].u) /\ ~user[req[p].u].locked
                     /\ req[p].op = "google" => user[req[p].u].linked]_vars
  BY <1>1
<1> QED
  BY <1>2, SessionsCorrect, PTL DEF Spec, IssuedToEligible

(***************************************************************************)
(* PasswordRecovery                                                        *)
(***************************************************************************)
-----------------------------------------------------------------------------
(* The policies and their windows                                          *)

(* What is assumed of the policies, part by part.                          *)
LEMMA PolicyTypes ==
  /\ \A a \in Actions : Limit[a] \in Nat /\ Limit[a] > 0
  /\ MaxAttempts \in Nat /\ MaxAttempts > 0 /\ MaxFailed \in Nat /\ MaxFailed > 0
  /\ OtpLife \in Nat /\ FailureWindow \in Nat /\ FailureWindow > 0
  /\ LockDuration \in Nat /\ Window \in Nat /\ Window > 0 /\ MaxTime \in Nat
  /\ NoCode \notin Calls /\ NoTime \notin Nat
  BY PolicyAssumption

(* The window a moment is in.                                              *)
LEMMA WindowOf ==
  ASSUME NEW t \in Nat
  PROVE  /\ t \div Window \in Nat
         /\ Window * (t \div Window) <= t
         /\ t < Window * (t \div Window) + Window
         /\ t = Window * (t \div Window) + (t % Window)
         /\ t % Window \in 0..(Window - 1)
  BY PolicyTypes

LEMMA TimesMonotone ==
  ASSUME NEW m \in Nat, NEW n \in Nat, m <= n PROVE Window * m <= Window * n
  BY PolicyTypes

(* A window that is over is before this one.                               *)
LEMMA WindowsOrdered ==
  ASSUME NEW s \in Nat, NEW t \in Nat, s <= t
  PROVE  s \div Window <= t \div Window
<1>1. PICK m \in Nat, n \in Nat : m = s \div Window /\ n = t \div Window
  BY WindowOf
<1>2. Window * m <= s /\ t < Window * n + Window
  BY <1>1, WindowOf
<1>3. CASE m >= n + 1
  <2>1. Window * (n + 1) <= Window * m
    BY <1>3, TimesMonotone
  <2>2. Window * (n + 1) = Window * n + Window
    BY PolicyTypes
  <2> QED
    BY <1>2, <2>1, <2>2, PolicyTypes
<1> QED
  BY <1>1, <1>3

LEMMA WindowOver ==
  ASSUME NEW t \in Nat, NEW b \in Nat, (b + 1) * Window <= t
  PROVE  b < t \div Window
<1>1. PICK n \in Nat : n = t \div Window
  BY WindowOf
<1>2. t < Window * n + Window
  BY <1>1, WindowOf
<1>3. CASE b >= n
  <2>1. Window * (n + 1) <= Window * (b + 1)
    BY <1>3, TimesMonotone
  <2>2. Window * (n + 1) = Window * n + Window /\ (b + 1) * Window = Window * (b + 1)
    BY PolicyTypes
  <2> QED
    BY <1>2, <2>1, <2>2, PolicyTypes
<1> QED
  BY <1>1, <1>3

(* The next moment is in the same window, or is the first of a later one.  *)
LEMMA NextWindow ==
  ASSUME NEW t \in Nat
  PROVE  IF (t + 1) % Window = 0 THEN (t + 1) \div Window > t \div Window
         ELSE (t + 1) \div Window = t \div Window
<1>1. PICK m \in Nat, n \in Nat : m = t \div Window /\ n = (t + 1) \div Window
  BY WindowOf
<1>2. /\ Window * m <= t /\ t < Window * m + Window
      /\ t + 1 = Window * n + ((t + 1) % Window)
      /\ (t + 1) % Window \in Nat /\ (t + 1) % Window < Window
  <2>1. PICK v \in Nat : v = t + 1
    OBVIOUS
  <2>2. /\ v = Window * (v \div Window) + (v % Window)
        /\ v % Window \in 0..(Window - 1)
    BY WindowOf
  <2>3. Window * m <= t /\ t < Window * m + Window
    BY <1>1, WindowOf
  <2>4. v % Window \in Nat /\ v % Window < Window
    BY <2>2, PolicyTypes
  <2> QED
    BY <1>1, <2>1, <2>2, <2>3, <2>4
<1>3. m <= n
  BY <1>1, WindowsOrdered
<1>4. CASE (t + 1) % Window = 0
  <2>1. m # n
    <3>1. PICK w \in Int : w = Window * m
      BY PolicyTypes
    <3> QED
      BY <1>2, <1>4, <3>1
  <2> QED
    BY <1>1, <1>3, <1>4, <2>1
<1>5. CASE (t + 1) % Window # 0
  <2>1. CASE n >= m + 1
    <3>1. Window * (m + 1) <= Window * n
      BY <2>1, TimesMonotone
    <3>2. Window * (m + 1) = Window * m + Window
      BY PolicyTypes
    <3>3. Window * n \in Nat /\ Window * m \in Nat
      BY PolicyTypes
    <3> QED
      BY <1>2, <1>5, <3>1, <3>2, <3>3, PolicyTypes
  <2> QED
    BY <1>1, <1>3, <1>5, <2>1
<1> QED
  BY <1>4, <1>5

-----------------------------------------------------------------------------
(* What a step does to the requests                                        *)

(* Request d is as it was, but that it may have become stale.              *)
StaysAs(d) ==
  /\ call'[d].pc = call[d].pc /\ call'[d].bucket = call[d].bucket
  /\ call'[d].at = call[d].at /\ call'[d].otp = call[d].otp
  /\ call'[d].attempts = call[d].attempts
  /\ call[d].stale => call'[d].stale

LEMMA OneMoves ==
  ASSUME RecoveryTypeOK, NEW c \in Calls, NEW r \in Call,
         call' = [call EXCEPT ![c] = r]
  PROVE  /\ call' \in [Calls -> Call] /\ call'[c] = r
         /\ \A d \in Calls \ {c} : StaysAs(d)
  BY DEF RecoveryTypeOK, StaysAs

LEMMA OneTouches ==
  ASSUME RecoveryTypeOK, NEW c \in Calls, NEW r \in Call,
         call' = [Touched(c) EXCEPT ![c] = r]
  PROVE  /\ call' \in [Calls -> Call] /\ call'[c] = r
         /\ \A d \in Calls \ {c} :
              StaysAs(d) /\ (call[d].pc = "wrong" => call'[d].stale)
<1>1. \A d \in Calls : call[d] \in Call /\ [call[d] EXCEPT !.stale = TRUE] \in Call
  BY DEF RecoveryTypeOK, Call
<1>2. Touched(c) \in [Calls -> Call]
  BY <1>1 DEF Touched
<1>3. ASSUME NEW d \in Calls, d # c
      PROVE  StaysAs(d) /\ (call[d].pc = "wrong" => call'[d].stale)
  <2>1. call'[d] = IF call[d].pc \in {"wrong", "exhausted"}
                   THEN [call[d] EXCEPT !.stale = TRUE] ELSE call[d]
    BY <1>2, <1>3 DEF Touched
  <2>2. PICK x \in Call : x = call[d]
    BY <1>1
  <2> QED
    BY <2>1, <2>2 DEF StaysAs, Call
<1> QED
  BY <1>2, <1>3

(* A request that is not over goes on.  The code it holds is one it held   *)
(* or the one there is; a wrong code has attempts left.                    *)
Moved(c) ==
  /\ call' \in [Calls -> Call]
  /\ call[c].pc # "over"
  /\ call'[c].bucket <= now \div Window /\ call'[c].at <= now
  /\ ToCount(c)' => ToCount(c)
  /\ ToSave(c)' => ToSave(c)
  /\ call'[c].otp \in {call[c].otp, account.otp, NoCode}
  /\ call'[c].pc = "commit" => call'[c].otp # NoCode
  /\ call'[c].pc = "wrong" =>
       /\ account.attempts < MaxAttempts
       /\ call'[c].attempts = account.attempts /\ call'[c].otp = account.otp
  /\ \A d \in Calls \ {c} : StaysAs(d)

LEMMA CallFields ==
  ASSUME RecoveryTypeOK, CounterInv, LockInv, NEW c \in Calls
  PROVE  /\ call[c] \in Call
         /\ call[c].bucket <= now \div Window /\ call[c].at <= now
         /\ now \in Nat /\ now \div Window \in Nat /\ now \div Window \in Buckets
<1>1. now \in Nat /\ now <= MaxTime
  BY PolicyTypes DEF RecoveryTypeOK, Times
<1>2. now \div Window \in Buckets
  BY <1>1, WindowOf, WindowsOrdered, PolicyTypes DEF Buckets
<1> QED
  BY <1>1, <1>2, WindowOf DEF RecoveryTypeOK, CounterInv, LockInv

(* The request is over.                                                    *)
LEMMA OverIsCall ==
  /\ Over \in Call /\ New \in Call
  /\ Over.pc = "over" /\ Over.bucket = 0 /\ Over.at = 0 /\ Over.otp = NoCode
  /\ New.pc = "new" /\ New.bucket = 0 /\ New.at = 0 /\ New.otp = NoCode
<1>1. 0 \in Buckets /\ 0 \in Times
  BY WindowOf, PolicyTypes DEF Buckets, Times
<1> QED
  BY <1>1 DEF Over, New, Call, Codes, Endpoints

LEMMA EndMoves ==
  ASSUME RecoveryTypeOK, CounterInv, LockInv, NEW c \in Calls,
         call[c].pc # "over", End(c) \/ EndTouching(c)
  PROVE  Moved(c) /\ call'[c] = Over
<1>1. call' \in [Calls -> Call] /\ call'[c] = Over /\ \A d \in Calls \ {c} : StaysAs(d)
  BY OverIsCall, OneMoves, OneTouches DEF End, EndTouching
<1>2. 0 <= now \div Window /\ 0 <= now
  BY CallFields
<1> QED
  BY <1>1, <1>2, OverIsCall DEF Moved, ToCount, ToSave

LEMMA ProceedMoves ==
  ASSUME RecoveryTypeOK, CounterInv, LockInv, NEW c \in Calls,
         NEW pc \in {"insert", "again", "start", "save", "mail"},
         pc \in {"insert", "again"} => ToCount(c),
         pc \in {"start", "save"} => ToSave(c),
         call[c].pc # "over", Proceed(c, pc)
  PROVE  Moved(c) /\ call'[c] = [call[c] EXCEPT !.pc = pc]
<1>1. PICK x \in Call : x = call[c]
  BY CallFields
<1>2. PICK r \in Call : r = [x EXCEPT !.pc = pc]
  BY DEF Call
<1>3. call' \in [Calls -> Call] /\ call'[c] = r /\ \A d \in Calls \ {c} : StaysAs(d)
  BY <1>1, <1>2, OneMoves DEF Proceed
<1>4. r.pc = pc /\ r.bucket = x.bucket /\ r.at = x.at /\ r.otp = x.otp
  BY <1>2 DEF Call
<1> QED
  BY <1>1, <1>2, <1>3, <1>4, CallFields DEF Moved, ToCount, ToSave

LEMMA ArriveMoves ==
  ASSUME RecoveryTypeOK, CounterInv, LockInv, NEW c \in Calls,
         NEW op \in Endpoints, Arrive(c, op)
  PROVE  Moved(c)
<1>1. PICK x \in Call : x = call[c]
  BY CallFields
<1>2. now \div Window \in Buckets /\ now \div Window \in Nat
  BY CallFields
<1>3. PICK r \in Call :
        r = [x EXCEPT !.pc = "count", !.op = op, !.bucket = now \div Window]
  BY <1>2 DEF Call
<1>4. r.pc = "count" /\ r.bucket = now \div Window /\ r.at = x.at /\ r.otp = x.otp
  BY <1>3 DEF Call
<1>5. call' \in [Calls -> Call] /\ call'[c] = r /\ \A d \in Calls \ {c} : StaysAs(d)
  <2>1. call' = [call EXCEPT ![c] = r]
    BY <1>1, <1>3 DEF Arrive, RecoveryTypeOK
  <2> QED
    BY <2>1, OneMoves
<1>6. call[c].pc = "new"
  BY DEF Arrive
<1> QED
  BY <1>1, <1>2, <1>4, <1>5, <1>6, CallFields DEF Moved, ToCount, ToSave

LEMMA FindLoginMoves ==
  ASSUME RecoveryTypeOK, CounterInv, LockInv, NEW c \in Calls, FindLogin(c)
  PROVE  Moved(c)
<1>1. PICK x \in Call : x = call[c]
  BY CallFields
<1>2. PICK pc \in {"fail", "signin"} :
        call' = [call EXCEPT ![c].pc = pc, ![c].at = now,
                             ![c].password = account.password]
  BY DEF FindLogin
<1>3. now \in Times /\ account.password \in Codes
  BY DEF RecoveryTypeOK, Account
<1>4. PICK r \in Call :
        r = [x EXCEPT !.pc = pc, !.at = now, !.password = account.password]
  BY <1>3 DEF Call
<1>5. r.pc = pc /\ r.bucket = x.bucket /\ r.at = now /\ r.otp = x.otp
  BY <1>4 DEF Call
<1>6. call' \in [Calls -> Call] /\ call'[c] = r /\ \A d \in Calls \ {c} : StaysAs(d)
  <2>1. call' = [call EXCEPT ![c] = r]
    BY <1>1, <1>2, <1>4 DEF RecoveryTypeOK
  <2> QED
    BY <2>1, OneMoves
<1>7. call[c].pc = "start"
  BY DEF FindLogin
<1> QED
  BY <1>1, <1>5, <1>6, <1>7, CallFields DEF Moved, ToCount, ToSave

LEMMA CompareMoves ==
  ASSUME RecoveryTypeOK, CounterInv, LockInv, NEW c \in Calls, Compare(c)
  PROVE  Moved(c)
<1>1. PICK x \in Call : x = call[c]
  BY CallFields
<1>2. PICK pc \in {"exhausted", "wrong", "commit"} :
        /\ pc = "exhausted" <=> account.attempts >= MaxAttempts
        /\ pc = "commit" => account.otp # NoCode
        /\ call' = [call EXCEPT ![c].pc = pc, ![c].password = account.password,
                     ![c].otp = account.otp, ![c].attempts = account.attempts,
                     ![c].missing = IF x.op = "reset" THEN account.missing ELSE {}]
  BY <1>1 DEF Compare
<1>3. account.otp \in Codes /\ account.password \in Codes /\ account.attempts \in Nat
  BY DEF RecoveryTypeOK, Account
<1>4. PICK lacks \in SUBSET LockPaths :
        lacks = IF x.op = "reset" THEN account.missing ELSE {}
  BY DEF RecoveryTypeOK, Account
<1>5. PICK r \in Call :
        r = [x EXCEPT !.pc = pc, !.password = account.password, !.otp = account.otp,
                      !.attempts = account.attempts, !.missing = lacks]
  BY <1>3 DEF Call
<1>6. /\ r.pc = pc /\ r.bucket = x.bucket /\ r.at = x.at
      /\ r.otp = account.otp /\ r.attempts = account.attempts
  BY <1>5 DEF Call
<1>7. call' \in [Calls -> Call] /\ call'[c] = r /\ \A d \in Calls \ {c} : StaysAs(d)
  <2>1. call' = [call EXCEPT ![c] = r]
    BY <1>1, <1>2, <1>5, <1>4 DEF RecoveryTypeOK
  <2> QED
    BY <2>1, OneMoves
<1>8. call[c].pc = "start"
  BY DEF Compare
<1>9. pc = "wrong" => account.attempts < MaxAttempts
  BY <1>2, <1>3, PolicyTypes
<1> QED
  BY <1>1, <1>2, <1>6, <1>7, <1>8, <1>9, CallFields DEF Moved, ToCount, ToSave

LEMMA SaveCodeMoves ==
  ASSUME RecoveryTypeOK, CounterInv, LockInv, NEW c \in Calls, SaveCode(c)
  PROVE  /\ Moved(c) /\ call'[c].pc = "mail" /\ call'[c].otp = call[c].otp
         /\ \A d \in Calls : call'[d].pc = "wrong" => call'[d].stale
<1>1. PICK x \in Call : x = call[c]
  BY CallFields
<1>2. PICK r \in Call : r = [x EXCEPT !.pc = "mail"]
  BY DEF Call
<1>3. r.pc = "mail" /\ r.bucket = x.bucket /\ r.at = x.at /\ r.otp = x.otp
  BY <1>2 DEF Call
<1>4. call' = [Touched(c) EXCEPT ![c] = r]
  <2>1. Touched(c)[c] = x
    BY <1>1 DEF Touched
  <2> QED
    BY <1>2, <2>1 DEF SaveCode, Touched
<1>5. /\ call' \in [Calls -> Call] /\ call'[c] = r
      /\ \A d \in Calls \ {c} :
           StaysAs(d) /\ (call[d].pc = "wrong" => call'[d].stale)
  BY <1>4, OneTouches
<1>6. call[c].pc = "save"
  BY DEF SaveCode
<1>7. \A d \in Calls : call'[d].pc = "wrong" => call'[d].stale
  BY <1>3, <1>5 DEF StaysAs
<1> QED
  BY <1>1, <1>3, <1>5, <1>6, <1>7, CallFields DEF Moved, ToCount, ToSave

LEMMA HitMoves ==
  ASSUME RecoveryTypeOK, CounterInv, LockInv, NEW c \in Calls, Hit(c)
  PROVE  Moved(c) /\ ToCount(c) /\ ~ToCount(c)'
<1>1. ToCount(c) /\ call[c].pc # "over"
  BY DEF Hit, Writes, ToCount
<1>2. CASE call' = [call EXCEPT ![c].pc = "start"]
  <2>1. Moved(c) /\ call'[c] = [call[c] EXCEPT !.pc = "start"]
    BY <1>1, <1>2, ProceedMoves DEF Proceed, ToSave
  <2>2. call'[c].pc = "start"
    BY <2>1, CallFields DEF Call
  <2> QED
    BY <1>1, <2>1, <2>2 DEF ToCount
<1>3. CASE End(c)
  BY <1>1, <1>3, EndMoves, OverIsCall DEF ToCount
<1> QED
  BY <1>2, <1>3 DEF Hit

(* The steps that read, wait for the counter or answer: the rest is as it  *)
(* was.                                                                    *)
Reads(c) ==
  \/ \E op \in Endpoints : Arrive(c, op)
  \/ MissCounter(c) \/ DuplicateCounter(c)
  \/ FindLogin(c) \/ FindForgot(c) \/ Compare(c) \/ Leave(c)

LEMMA ReadsMove ==
  ASSUME RecoveryTypeOK, CounterInv, LockInv, NEW c \in Calls, Reads(c)
  PROVE  Moved(c) /\ UNCHANGED <<now, account, count, audit>> /\ UNCHANGED ghosts
<1>1. ASSUME NEW op \in Endpoints, Arrive(c, op)
      PROVE  Moved(c) /\ UNCHANGED <<now, account, count, audit>> /\ UNCHANGED ghosts
  BY <1>1, ArriveMoves DEF Arrive
<1>2. CASE MissCounter(c) \/ DuplicateCounter(c) \/ FindForgot(c)
  <2>1. PICK pc \in {"insert", "again", "save"} :
          /\ Proceed(c, pc) /\ call[c].pc # "over" /\ ToSave(c)
          /\ pc \in {"insert", "again"} => ToCount(c)
    BY <1>2 DEF MissCounter, DuplicateCounter, FindForgot, ToCount, ToSave
  <2>2. Moved(c)
    BY <2>1, ProceedMoves
  <2> QED
    BY <1>2, <2>2 DEF MissCounter, DuplicateCounter, FindForgot
<1>3. CASE FindLogin(c)
  BY <1>3, FindLoginMoves DEF FindLogin
<1>4. CASE Compare(c)
  BY <1>4, CompareMoves DEF Compare
<1>5. CASE Leave(c)
  BY <1>5, EndMoves DEF Leave
<1> QED
  BY <1>1, <1>2, <1>3, <1>4, <1>5 DEF Reads

-----------------------------------------------------------------------------
(* Types                                                                   *)

LEMMA AccountFields ==
  ASSUME RecoveryTypeOK
  PROVE  /\ account \in Account
         /\ account.otp \in Codes /\ account.password \in Codes
         /\ account.attempts \in Nat /\ account.failed \in Nat
         /\ account.expiry \in Nat \cup {NoTime}
         /\ account.windowStart \in Nat \cup {NoTime}
         /\ account.lockedUntil \in Nat \cup {NoTime}
         /\ account.missing \subseteq LockPaths
         /\ now \in Nat /\ now \in Times
  BY PolicyTypes DEF RecoveryTypeOK, Account, Times

LEMMA FreshIsAccount ==
  /\ Fresh \in Account /\ Fresh.otp = NoCode /\ Fresh.expiry = NoTime
  /\ Fresh.attempts = 0 /\ Fresh.failed = 0 /\ Fresh.windowStart = NoTime
  /\ Fresh.lockedUntil = NoTime /\ Fresh.password = NoCode
  BY DEF Fresh, Account, Codes

(* What each of the writes makes of the account.                           *)
LEMMA FailedIsAccount ==
  ASSUME RecoveryTypeOK, NEW t \in Nat
  PROVE  /\ Failed(t) \in Account
         /\ Failed(t).otp = account.otp /\ Failed(t).expiry = account.expiry
         /\ Failed(t).attempts = account.attempts
         /\ Failed(t).password = account.password
         /\ Failed(t).failed = IF StartsWindow(t) THEN 1 ELSE account.failed + 1
         /\ Failed(t).windowStart = IF StartsWindow(t) THEN t ELSE account.windowStart
         /\ Failed(t).lockedUntil = IF Failed(t).failed >= MaxFailed
                                    THEN t + LockDuration ELSE NoTime
<1>1. PICK x \in Account : x = account
  BY DEF RecoveryTypeOK
<1>2. PICK n \in Nat : n = IF StartsWindow(t) THEN 1 ELSE x.failed + 1
  BY DEF Account
<1>3. PICK w \in Nat \cup {NoTime} :
        w = IF StartsWindow(t) THEN t ELSE x.windowStart
  BY DEF Account
<1>4. PICK k \in Nat \cup {NoTime} :
        k = IF n >= MaxFailed THEN t + LockDuration ELSE NoTime
  <2>1. t + LockDuration \in Nat
    BY PolicyTypes
  <2> QED
    BY <2>1
<1>5. PICK m \in SUBSET LockPaths :
        m = IF n >= MaxFailed THEN {} ELSE {"lockedUntil"}
  BY DEF LockPaths
<1>6. PICK y \in Account :
        y = [x EXCEPT !.failed = n, !.windowStart = w, !.lockedUntil = k, !.missing = m]
  BY DEF Account
<1>7. Failed(t) = y
  BY <1>1, <1>2, <1>3, <1>4, <1>5, <1>6 DEF Failed
<1>8. /\ y.otp = x.otp /\ y.expiry = x.expiry /\ y.attempts = x.attempts
      /\ y.password = x.password
      /\ y.failed = n /\ y.windowStart = w /\ y.lockedUntil = k
  BY <1>6 DEF Account
<1> QED
  BY <1>1, <1>2, <1>3, <1>4, <1>7, <1>8

LEMMA SignedInIsAccount ==
  ASSUME RecoveryTypeOK, NEW y,
         y = [account EXCEPT !.failed = 0, !.windowStart = NoTime,
                             !.lockedUntil = NoTime, !.missing = LockPaths]
  PROVE  /\ y \in Account /\ y.otp = account.otp /\ y.expiry = account.expiry
         /\ y.attempts = account.attempts /\ y.password = account.password
         /\ y.failed = 0 /\ y.windowStart = NoTime /\ y.lockedUntil = NoTime
         /\ y.active = account.active
  BY DEF RecoveryTypeOK, Account

LEMMA ResetIsAccount ==
  ASSUME NEW c \in Calls, NEW y,
         y = [Fresh EXCEPT !.password = c, !.missing = LockPaths]
  PROVE  /\ y \in Account /\ y.otp = NoCode /\ y.expiry = NoTime
         /\ y.attempts = 0 /\ y.failed = 0 /\ y.windowStart = NoTime
         /\ y.lockedUntil = NoTime /\ y.password = c
  BY DEF Fresh, Account, Codes

LEMMA DeletedIsAccount ==
  ASSUME NEW y, y = [Fresh EXCEPT !.active = FALSE, !.missing = LockPaths]
  PROVE  /\ y \in Account /\ y.otp = NoCode /\ y.expiry = NoTime
         /\ y.attempts = 0 /\ y.failed = 0 /\ y.windowStart = NoTime
         /\ y.lockedUntil = NoTime /\ y.password = NoCode /\ ~y.active
  BY DEF Fresh, Account, Codes

(* The default a save writes is null, in paths the request found missing.  *)
LEMMA DefaultedIsAccount ==
  ASSUME RecoveryTypeOK, NEW c \in Calls, NEW y, y = Defaulted(call[c])
  PROVE  /\ y \in Account /\ y.otp = account.otp /\ y.expiry = account.expiry
         /\ y.attempts = account.attempts /\ y.password = account.password
         /\ y.failed = account.failed /\ y.active = account.active
         /\ y.windowStart \in {account.windowStart, NoTime}
         /\ y.lockedUntil \in {account.lockedUntil, NoTime}
         /\ y.lockedUntil # account.lockedUntil => "lockedUntil" \in call[c].missing
<1>1. PICK x \in Account : x = account
  BY AccountFields
<1>2. PICK w \in {x.windowStart, NoTime} :
        w = IF "windowStart" \in call[c].missing THEN NoTime ELSE x.windowStart
  OBVIOUS
<1>3. PICK k \in {x.lockedUntil, NoTime} :
        /\ k = IF "lockedUntil" \in call[c].missing THEN NoTime ELSE x.lockedUntil
        /\ k # x.lockedUntil => "lockedUntil" \in call[c].missing
  OBVIOUS
<1>4. PICK m \in SUBSET LockPaths : m = x.missing \ call[c].missing
  BY DEF Account
<1>5. y = [x EXCEPT !.windowStart = w, !.lockedUntil = k, !.missing = m]
  BY <1>1, <1>2, <1>3, <1>4 DEF Defaulted
<1>6. w \in Nat \cup {NoTime} /\ k \in Nat \cup {NoTime}
  BY <1>2, <1>3 DEF Account
<1> QED
  BY <1>1, <1>2, <1>3, <1>5, <1>6 DEF Account

(* The step of c leaves the lock and its window, or removes what it found  *)
(* missing.                                                                *)
LockSpared(c) ==
  /\ account'.failed = account.failed
  /\ account'.windowStart \in {account.windowStart, NoTime}
  /\ account'.lockedUntil \in {account.lockedUntil, NoTime}
  /\ account'.lockedUntil # account.lockedUntil => SavesNoLock(c)

(* The account and the code after each write, in these terms.              *)
LEMMA RecordFailureEffect ==
  ASSUME RecoveryTypeOK, CounterInv, LockInv, NEW c \in Calls, RecordFailure(c)
  PROVE  /\ Moved(c) /\ call[c].pc = "fail" /\ call'[c].pc = "over"
         /\ account' = Failed(call[c].at) /\ account.active /\ ~LockedAt(call[c].at)
         /\ call[c].at \in Nat /\ call[c].at \in Times /\ call[c].at <= now
         /\ failures' = failures \cup
              {[call |-> c, at |-> call[c].at, recorded |-> now]}
         /\ UNCHANGED <<now, count, passed, refused, guesses, resets, latest>>
<1>1. call[c].at \in Nat /\ call[c].at \in Times /\ call[c].at <= now
  BY CallFields, PolicyTypes DEF Call, Times
<1>2. call[c].pc = "fail" /\ End(c)
  BY DEF RecordFailure
<1>3. Moved(c) /\ call'[c].pc = "over"
  BY <1>2, EndMoves, OverIsCall
<1> QED
  BY <1>1, <1>2, <1>3 DEF RecordFailure

LEMMA SignInEffect ==
  ASSUME RecoveryTypeOK, CounterInv, LockInv, NEW c \in Calls, SignIn(c)
  PROVE  /\ Moved(c) /\ call[c].pc = "signin" /\ call'[c].pc = "over"
         /\ account' \in Account /\ ~LockedAt(call[c].at)
         /\ call[c].at \in Nat /\ call[c].at <= now
         /\ account'.otp = account.otp /\ account'.expiry = account.expiry
         /\ account'.attempts = account.attempts
         /\ account'.password = account.password
         /\ account'.failed = 0 /\ account'.windowStart = NoTime
         /\ account'.lockedUntil = NoTime
         /\ failures' = {}
         /\ UNCHANGED <<now, count, audit, passed, refused, guesses, resets, latest>>
<1>1. call[c].at \in Nat /\ call[c].at <= now
  BY CallFields, PolicyTypes DEF Call, Times
<1>2. call[c].pc = "signin" /\ End(c)
  BY DEF SignIn
<1>3. Moved(c) /\ call'[c].pc = "over"
  BY <1>2, EndMoves, OverIsCall
<1> QED
  BY <1>1, <1>2, <1>3, SignedInIsAccount DEF SignIn

LEMMA SaveCodeEffect ==
  ASSUME RecoveryTypeOK, CounterInv, LockInv, NEW c \in Calls, SaveCode(c)
  PROVE  /\ Moved(c) /\ call[c].pc = "save" /\ call'[c].pc = "mail"
         /\ call'[c].otp = call[c].otp
         /\ \A d \in Calls : call'[d].pc = "wrong" => call'[d].stale
         /\ account' \in Account /\ account'.otp = c
         /\ account'.expiry # NoTime /\ account'.attempts = 0
         /\ account'.failed = account.failed
         /\ account'.windowStart = account.windowStart
         /\ account'.lockedUntil = account.lockedUntil
         /\ account'.password = account.password
         /\ latest' = c
         /\ UNCHANGED <<now, count, audit, passed, refused, failures, guesses, resets>>
<1>1. now + OtpLife \in Nat /\ c \in Codes /\ NoTime \notin Nat
  BY AccountFields, PolicyTypes DEF Codes
<1>2. /\ account' \in Account /\ account'.otp = c
      /\ account'.expiry = now + OtpLife /\ account'.attempts = 0
      /\ account'.failed = account.failed
      /\ account'.windowStart = account.windowStart
      /\ account'.lockedUntil = account.lockedUntil
      /\ account'.password = account.password
  <2>1. PICK e \in Nat : e = now + OtpLife
    BY <1>1
  <2>2. PICK y : y = [account EXCEPT !.otp = c, !.expiry = e, !.attempts = 0]
    OBVIOUS
  <2>3. account' = y
    BY <2>1, <2>2 DEF SaveCode
  <2>4. /\ y \in Account /\ y.otp = c /\ y.expiry = e /\ y.attempts = 0
        /\ y.failed = account.failed /\ y.windowStart = account.windowStart
        /\ y.lockedUntil = account.lockedUntil /\ y.password = account.password
    BY <1>1, <2>1, <2>2, AccountFields DEF Account
  <2> QED
    BY <2>1, <2>3, <2>4
<1> QED
  BY <1>1, <1>2, SaveCodeMoves DEF SaveCode

(* Withdraw and SaveExhausted take the code away.                          *)
LEMMA CodeGoesEffect ==
  ASSUME RecoveryTypeOK, CounterInv, LockInv, NEW c \in Calls,
         Withdraw(c) \/ SaveExhausted(c)
  PROVE  /\ Moved(c) /\ call[c].pc \in {"mail", "exhausted"}
         /\ call'[c] = Over
         /\ account' \in Account /\ account'.otp = NoCode
         /\ account'.expiry = NoTime /\ account'.attempts \in {0, account.attempts}
         /\ LockSpared(c)
         /\ account'.password = account.password
         /\ UNCHANGED <<now, count, audit>> /\ UNCHANGED ghosts
<1>1. call[c].pc \in {"mail", "exhausted"} /\ (End(c) \/ EndTouching(c))
  BY DEF Withdraw, SaveExhausted
<1>2. Moved(c) /\ call'[c] = Over /\ call'[c].pc = "over"
  BY <1>1, EndMoves, OverIsCall
<1>3. ASSUME NEW y \in Account, NEW n \in Nat,
             account' = [y EXCEPT !.otp = NoCode, !.expiry = NoTime, !.attempts = n]
      PROVE  /\ account' \in Account /\ account'.otp = NoCode
             /\ account'.expiry = NoTime /\ account'.attempts = n
             /\ account'.failed = y.failed /\ account'.windowStart = y.windowStart
             /\ account'.lockedUntil = y.lockedUntil
             /\ account'.password = y.password
  <2>1. NoCode \in Codes
    BY DEF Codes
  <2>2. PICK z : z = [y EXCEPT !.otp = NoCode, !.expiry = NoTime, !.attempts = n]
    OBVIOUS
  <2>3. /\ z \in Account /\ z.otp = NoCode /\ z.expiry = NoTime /\ z.attempts = n
        /\ z.failed = y.failed /\ z.windowStart = y.windowStart
        /\ z.lockedUntil = y.lockedUntil /\ z.password = y.password
    BY <2>1, <2>2 DEF Account
  <2> QED
    BY <1>3, <2>2, <2>3
<1>4. CASE Withdraw(c)
  <2>1. PICK y \in Account : y = account
    BY AccountFields
  <2>2. PICK n \in Nat : n = y.attempts
    BY DEF Account
  <2>3. account' = [y EXCEPT !.otp = NoCode, !.expiry = NoTime, !.attempts = n]
    <3>1. [y EXCEPT !.otp = NoCode, !.expiry = NoTime]
            = [y EXCEPT !.otp = NoCode, !.expiry = NoTime, !.attempts = n]
      BY <2>2 DEF Account
    <3> QED
      BY <1>4, <2>1, <3>1 DEF Withdraw
  <2> QED
    BY <1>1, <1>2, <1>3, <1>4, <2>1, <2>2, <2>3 DEF Withdraw, LockSpared
<1>5. CASE SaveExhausted(c)
  <2>1. PICK y : y = Defaulted(call[c])
    OBVIOUS
  <2>2. account' = [y EXCEPT !.otp = NoCode, !.expiry = NoTime, !.attempts = 0]
    BY <1>5, <2>1 DEF SaveExhausted
  <2>3. y \in Account
    BY <2>1, DefaultedIsAccount
  <2>4. /\ account' \in Account /\ account'.otp = NoCode
        /\ account'.expiry = NoTime /\ account'.attempts = 0
        /\ account'.failed = y.failed /\ account'.windowStart = y.windowStart
        /\ account'.lockedUntil = y.lockedUntil
        /\ account'.password = y.password
    BY <1>3, <2>2, <2>3
  <2>5. call[c].pc = "exhausted"
    BY <1>5 DEF SaveExhausted
  <2>6. LockSpared(c)
    BY <1>2, <2>1, <2>4, <2>5, DefaultedIsAccount DEF LockSpared, SavesNoLock
  <2>7. account'.password = account.password
    BY <2>1, <2>4, DefaultedIsAccount
  <2> QED
    BY <1>1, <1>2, <1>5, <2>4, <2>6, <2>7 DEF SaveExhausted
<1> QED
  BY <1>4, <1>5

LEMMA SaveWrongEffect ==
  ASSUME RecoveryTypeOK, CounterInv, LockInv, NEW c \in Calls, SaveWrong(c)
  PROVE  /\ Moved(c) /\ call[c].pc = "wrong" /\ call'[c] = Over
         /\ \A d \in Calls : call'[d].pc = "wrong" => call'[d].stale
         /\ account' \in Account /\ account'.attempts = call[c].attempts + 1
         /\ account'.otp = account.otp /\ account'.expiry = account.expiry
         /\ LockSpared(c)
         /\ account'.password = account.password
         /\ guesses' = guesses \cup
              {[call |-> c, code |-> call[c].otp, stale |-> call[c].stale]}
         /\ call[c].attempts \in Nat /\ call[c].otp \in Codes /\ call[c].stale \in BOOLEAN
         /\ UNCHANGED <<now, count, audit, passed, refused, failures, resets, latest>>
<1>1. call[c].pc = "wrong" /\ EndTouching(c)
  BY DEF SaveWrong
<1>2. Moved(c) /\ call'[c] = Over /\ call'[c].pc = "over"
  BY <1>1, EndMoves, OverIsCall
<1>3. \A d \in Calls : call'[d].pc = "wrong" => call'[d].stale
  <2>1. \A d \in Calls \ {c} :
          StaysAs(d) /\ (call[d].pc = "wrong" => call'[d].stale)
    BY <1>1, OverIsCall, OneTouches DEF EndTouching
  <2> QED
    BY <1>2, <2>1, OverIsCall DEF StaysAs
<1>4. call[c].attempts \in Nat /\ call[c].otp \in Codes /\ call[c].stale \in BOOLEAN
  BY CallFields DEF Call
<1>5. /\ account' \in Account /\ account'.attempts = call[c].attempts + 1
      /\ account'.otp = account.otp /\ account'.expiry = account.expiry
      /\ LockSpared(c)
      /\ account'.password = account.password
  <2>1. PICK n \in Nat : n = call[c].attempts + 1
    BY <1>4
  <2>2. PICK y : y = Defaulted(call[c])
    OBVIOUS
  <2>3. y \in Account
    BY <2>2, DefaultedIsAccount
  <2>4. account' = [y EXCEPT !.attempts = n]
    BY <2>1, <2>2 DEF SaveWrong
  <2>5. /\ account' \in Account /\ account'.attempts = n
        /\ account'.otp = y.otp /\ account'.expiry = y.expiry
        /\ account'.failed = y.failed /\ account'.windowStart = y.windowStart
        /\ account'.lockedUntil = y.lockedUntil /\ account'.password = y.password
    <3>1. PICK z : z = [y EXCEPT !.attempts = n]
      OBVIOUS
    <3>2. /\ z \in Account /\ z.attempts = n
          /\ z.otp = y.otp /\ z.expiry = y.expiry
          /\ z.failed = y.failed /\ z.windowStart = y.windowStart
          /\ z.lockedUntil = y.lockedUntil /\ z.password = y.password
      BY <2>3, <3>1 DEF Account
    <3> QED
      BY <2>4, <3>1, <3>2
  <2>6. LockSpared(c)
    BY <1>1, <1>2, <2>2, <2>5, DefaultedIsAccount DEF LockSpared, SavesNoLock
  <2> QED
    BY <2>1, <2>2, <2>5, <2>6, DefaultedIsAccount
<1> QED
  BY <1>1, <1>2, <1>3, <1>4, <1>5 DEF SaveWrong

LEMMA CommitResetEffect ==
  ASSUME RecoveryTypeOK, CounterInv, LockInv, NEW c \in Calls, CommitReset(c)
  PROVE  /\ Moved(c) /\ call[c].pc = "commit" /\ call'[c] = Over
         /\ \A d \in Calls : call'[d].pc = "wrong" => call'[d].stale
         /\ account.otp = call[c].otp
         /\ account' \in Account /\ account'.otp = NoCode
         /\ account'.expiry = NoTime /\ account'.attempts = 0
         /\ account'.failed = 0 /\ account'.windowStart = NoTime
         /\ account'.lockedUntil = NoTime /\ account'.password = c
         /\ resets' = resets \cup
              {[call |-> c, code |-> call[c].otp, latest |-> latest]}
         /\ failures' = {}
         /\ UNCHANGED <<now, count, audit, passed, refused, guesses, latest>>
<1>1. call[c].pc = "commit" /\ EndTouching(c) /\ account.otp = call[c].otp
  BY DEF CommitReset, Takes
<1>2. Moved(c) /\ call'[c] = Over
  BY <1>1, EndMoves
<1>3. \A d \in Calls : call'[d].pc = "wrong" => call'[d].stale
  <2>1. \A d \in Calls \ {c} :
          StaysAs(d) /\ (call[d].pc = "wrong" => call'[d].stale)
    BY <1>1, OverIsCall, OneTouches DEF EndTouching
  <2> QED
    BY <1>2, <2>1, OverIsCall DEF StaysAs
<1> QED
  BY <1>1, <1>2, <1>3, ResetIsAccount DEF CommitReset

LEMMA DeleteEffect ==
  ASSUME DeleteAccount
  PROVE  /\ account' \in Account /\ account'.otp = NoCode
         /\ account'.expiry = NoTime /\ account'.attempts = 0
         /\ account'.failed = 0 /\ account'.windowStart = NoTime
         /\ account'.lockedUntil = NoTime /\ account'.password = NoCode
         /\ ~account'.active
         /\ UNCHANGED <<now, call, count, audit>> /\ UNCHANGED ghosts
  BY DeletedIsAccount DEF DeleteAccount

LEMMA CounterFields ==
  ASSUME RecoveryTypeOK, CounterInv, LockInv, NEW c \in Calls
  PROVE  /\ ActionOf[call[c].op] \in Actions
         /\ Counter(call[c]) \in Actions \X Buckets
         /\ count[Counter(call[c])] \in Nat
         /\ Counter(call[c]) = <<ActionOf[call[c].op], call[c].bucket>>
<1>1. call[c].op \in Endpoints /\ call[c].bucket \in Buckets
  BY CallFields DEF Call
<1>2. ActionOf[call[c].op] \in Actions
  BY <1>1 DEF Endpoints, ActionOf, Actions
<1> QED
  BY <1>1, <1>2 DEF Counter, RecoveryTypeOK

(* What a hit does to the counters and their ghosts.                       *)
HitIn(c, a, b) ==
  LET n == count[<<a, b>>] + 1
      noted(g) == [g EXCEPT ![a] = IF b # now \div Window THEN @ ELSE @ \cup {c}]
  IN
  /\ n \in Nat /\ b <= now \div Window
  /\ count' = [count EXCEPT ![<<a, b>>] = n]
  /\ \/ n <= Limit[a] /\ passed' = noted(passed) /\ refused' = refused
     \/ n > Limit[a] /\ refused' = noted(refused) /\ passed' = passed
  /\ UNCHANGED <<now, account, audit, failures, guesses, resets, latest>>

LEMMA HitEffect ==
  ASSUME RecoveryTypeOK, CounterInv, LockInv, NEW c \in Calls, Hit(c)
  PROVE  \E a \in Actions, b \in Buckets : HitIn(c, a, b)
<1>1. PICK a \in Actions, b \in Buckets :
        a = ActionOf[call[c].op] /\ b = call[c].bucket
  BY CallFields, CounterFields DEF Call
<1>2. Counter(call[c]) = <<a, b>> /\ count[<<a, b>>] \in Nat /\ b <= now \div Window
  BY <1>1, CallFields, CounterFields
<1>3. Counted(call[c]) = count[<<a, b>>] + 1 /\ Late(call[c]) = (b # now \div Window)
  BY <1>1, <1>2 DEF Counted, Late
<1>4. /\ Note(passed, c) = [passed EXCEPT ![a] = IF b # now \div Window THEN @ ELSE @ \cup {c}]
      /\ Note(refused, c) = [refused EXCEPT ![a] = IF b # now \div Window THEN @ ELSE @ \cup {c}]
  BY <1>1, <1>3 DEF Note
<1>5. /\ count' = [count EXCEPT ![<<a, b>>] = count[<<a, b>>] + 1]
      /\ UNCHANGED <<now, account, audit, failures, guesses, resets, latest>>
      /\ \/ /\ count[<<a, b>>] + 1 <= Limit[a]
            /\ passed' = Note(passed, c) /\ refused' = refused
         \/ /\ count[<<a, b>>] + 1 > Limit[a]
            /\ refused' = Note(refused, c) /\ passed' = passed
  BY <1>1, <1>2, <1>3 DEF Hit
<1>6. count[<<a, b>>] + 1 \in Nat
  BY <1>2
<1>7. HitIn(c, a, b)
  BY <1>2, <1>4, <1>5, <1>6 DEF HitIn
<1> QED
  BY <1>7

LEMMA RecoveryTypeStep ==
  ASSUME RecoveryTypeOK, CounterInv, LockInv, CodeInv, RecoveryNext
  PROVE  RecoveryTypeOK'
<1>1. ASSUME NEW c \in Calls, RecoveryStep(c) PROVE RecoveryTypeOK'
  <2>1. CASE Reads(c)
    <3>1. Moved(c) /\ UNCHANGED <<now, account, count, audit>> /\ UNCHANGED ghosts
      BY <2>1, ReadsMove
    <3> QED
      BY <3>1 DEF RecoveryTypeOK, Moved, ghosts
  <2>2. CASE Hit(c)
    <3>1. PICK a \in Actions, b \in Buckets : HitIn(c, a, b)
      BY <2>2, HitEffect
    <3>2. count' \in [Actions \X Buckets -> Nat]
      BY <3>1 DEF HitIn, RecoveryTypeOK
    <3>3. /\ passed' \in [Actions -> SUBSET Calls]
          /\ refused' \in [Actions -> SUBSET Calls]
      <4>1. \A g \in [Actions -> SUBSET Calls] :
              [g EXCEPT ![a] = IF b # now \div Window THEN @ ELSE @ \cup {c}]
                \in [Actions -> SUBSET Calls]
        OBVIOUS
      <4> QED
        BY <3>1, <4>1 DEF HitIn, RecoveryTypeOK
    <3>4. call' \in [Calls -> Call]
      BY <2>2, HitMoves DEF Moved
    <3> QED
      BY <3>1, <3>2, <3>3, <3>4 DEF HitIn, RecoveryTypeOK
  <2>3. CASE RecordFailure(c)
    <3>1. account' \in Account /\ call' \in [Calls -> Call]
      BY <2>3, RecordFailureEffect, FailedIsAccount DEF Moved
    <3>2. audit' \in Nat
      BY <2>3 DEF RecordFailure, RecoveryTypeOK
    <3>3. failures' \subseteq [call : Calls, at : Times, recorded : Times]
      BY <2>3, RecordFailureEffect DEF RecoveryTypeOK
    <3> QED
      BY <2>3, <3>1, <3>2, <3>3, RecordFailureEffect DEF RecoveryTypeOK
  <2>4. CASE SignIn(c)
    BY <2>4, SignInEffect DEF RecoveryTypeOK, Moved
  <2>5. CASE SaveCode(c)
    <3>1. latest' \in Codes
      BY <2>5, SaveCodeEffect DEF Codes
    <3> QED
      BY <2>5, <3>1, SaveCodeEffect DEF RecoveryTypeOK, Moved
  <2>6. CASE Withdraw(c) \/ SaveExhausted(c)
    BY <2>6, CodeGoesEffect DEF RecoveryTypeOK, Moved, ghosts
  <2>7. CASE SaveWrong(c)
    <3>1. guesses' \subseteq [call : Calls, code : Codes, stale : BOOLEAN]
      BY <2>7, SaveWrongEffect DEF RecoveryTypeOK
    <3> QED
      BY <2>7, <3>1, SaveWrongEffect DEF RecoveryTypeOK, Moved
  <2>8. CASE CommitReset(c)
    <3>1. call[c].otp \in Codes
      BY CallFields DEF Call
    <3>2. resets' \subseteq [call : Calls, code : Codes, latest : Codes]
      BY <2>8, <3>1, CommitResetEffect DEF RecoveryTypeOK
    <3> QED
      BY <2>8, <3>2, CommitResetEffect DEF RecoveryTypeOK, Moved
  <2> QED
    BY <1>1, <2>1, <2>2, <2>3, <2>4, <2>5, <2>6, <2>7, <2>8 DEF RecoveryStep, Reads
<1>2. ASSUME NEW a \in Actions, NEW b \in Buckets, PurgeCounter(a, b)
      PROVE  RecoveryTypeOK'
  BY <1>2 DEF PurgeCounter, RecoveryTypeOK, ghosts
<1>3. CASE DeleteAccount
  BY <1>3, DeleteEffect DEF RecoveryTypeOK, ghosts
<1>4. CASE Tick
  <2>1. now' \in Times
    BY <1>4, PolicyTypes DEF Tick, Times, RecoveryTypeOK
  <2>2. /\ passed' \in [Actions -> SUBSET Calls]
        /\ refused' \in [Actions -> SUBSET Calls]
    BY <1>4 DEF Tick, Nobody, RecoveryTypeOK
  <2> QED
    BY <1>4, <2>1, <2>2 DEF Tick, RecoveryTypeOK
<1> QED
  BY <1>1, <1>2, <1>3, <1>4 DEF RecoveryNext

-----------------------------------------------------------------------------
(* The counters                                                            *)

LEMMA LetThrough ==
  ASSUME RecoveryTypeOK, NEW a \in Actions
  PROVE  /\ IsFiniteSet(passed[a]) /\ Cardinality(passed[a]) \in Nat
         /\ IsFiniteSet(refused[a]) /\ Cardinality(refused[a]) \in Nat
         /\ passed[a] \subseteq Calls /\ refused[a] \subseteq Calls
<1>1. passed[a] \subseteq Calls /\ refused[a] \subseteq Calls /\ IsFiniteSet(Calls)
  BY PolicyAssumption DEF RecoveryTypeOK
<1> QED
  BY <1>1, FS_Subset, FS_CardinalityType

(* Other steps of a request leave what the counters have seen.             *)
LEMMA CounterKept ==
  ASSUME RecoveryTypeOK, CounterInv, NEW c \in Calls, Moved(c),
         UNCHANGED <<now, count, passed, refused>>
  PROVE  CounterInv'
<1>1. \A d \in Calls : call'[d].bucket <= now \div Window
  BY DEF CounterInv, Moved, StaysAs
<1>2. \A d \in Calls : ToCount(d)' => ToCount(d)
  BY DEF Moved, StaysAs, ToCount
<1>3. ASSUME NEW a \in Actions
      PROVE  \A d \in passed[a] \cup refused[a] : ~ToCount(d)'
  BY <1>2, LetThrough DEF CounterInv
<1>4. WindowExact'
  BY DEF CounterInv, WindowExact
<1> QED
  BY <1>1, <1>3, <1>4 DEF CounterInv

LEMMA HitKeepsCounters ==
  ASSUME RecoveryTypeOK, CounterInv, LockInv, NEW c \in Calls, Hit(c)
  PROVE  CounterInv'
<1>1. PICK a \in Actions, b \in Buckets : HitIn(c, a, b)
  BY HitEffect
<1>2. Moved(c) /\ ToCount(c) /\ ~ToCount(c)'
  BY HitMoves
<1> DEFINE w == now \div Window
<1>3. /\ w \in Nat /\ w \in Buckets /\ b \in Nat /\ b <= w /\ now' = now
      /\ count' = [count EXCEPT ![<<a, b>>] = count[<<a, b>>] + 1]
      /\ count \in [Actions \X Buckets -> Nat]
  <2>1. w \in Nat /\ w \in Buckets
    BY CallFields
  <2>2. b \in Nat
    BY DEF Buckets
  <2> QED
    BY <1>1, <2>1, <2>2 DEF HitIn, RecoveryTypeOK
<1>4. \A d \in Calls : call'[d].bucket <= w
  BY <1>2 DEF CounterInv, Moved, StaysAs
<1>5. \A d \in Calls : ToCount(d)' => ToCount(d)
  BY <1>2 DEF Moved, StaysAs, ToCount
<1>6. ASSUME NEW e \in Actions, NEW k \in Buckets, k > w
      PROVE  count'[<<e, k>>] = 0
  <2>1. count[<<e, k>>] = 0
    BY <1>6 DEF CounterInv
  <2>2. k \in Nat
    BY DEF Buckets
  <2>3. k # b
    BY <1>3, <1>6, <2>2
  <2>4. <<e, k>> # <<a, b>>
    BY <2>3
  <2> QED
    BY <1>3, <2>1, <2>4
<1>7. ASSUME NEW e \in Actions, \/ e # a
                                \/ b # w
      PROVE  /\ count'[<<e, w>>] = count[<<e, w>>]
             /\ passed'[e] = passed[e] /\ refused'[e] = refused[e]
  <2>1. <<e, w>> # <<a, b>>
    BY <1>7
  <2>2. count'[<<e, w>>] = count[<<e, w>>]
    BY <1>3, <2>1
  <2>3. passed'[e] = passed[e] /\ refused'[e] = refused[e]
    BY <1>1, <1>7 DEF HitIn, RecoveryTypeOK
  <2> QED
    BY <2>2, <2>3
<1>8. ASSUME NEW e \in Actions
      PROVE  /\ count'[<<e, w>>]
                  = Cardinality(passed'[e]) + Cardinality(refused'[e])
             /\ \A d \in passed'[e] \cup refused'[e] : ~ToCount(d)'
             /\ Cardinality(passed'[e]) <= Limit[e]
             /\ refused'[e] # {} => Cardinality(passed'[e]) = Limit[e]
  <2>0. /\ count[<<e, w>>] = Cardinality(passed[e]) + Cardinality(refused[e])
        /\ \A d \in passed[e] \cup refused[e] : ~ToCount(d)
        /\ Cardinality(passed[e]) <= Limit[e]
        /\ refused[e] # {} => Cardinality(passed[e]) = Limit[e]
    BY DEF CounterInv, WindowExact
  <2>1. CASE e # a \/ b # w
    <3>1. /\ count'[<<e, w>>] = count[<<e, w>>]
          /\ passed'[e] = passed[e] /\ refused'[e] = refused[e]
      BY <1>7, <2>1
    <3>2. \A d \in passed[e] \cup refused[e] : ~ToCount(d)'
      BY <1>5, <2>0, LetThrough
    <3> QED
      BY <2>0, <3>1, <3>2
  <2>2. CASE e = a /\ b = w
    <3>1. /\ IsFiniteSet(passed[a]) /\ Cardinality(passed[a]) \in Nat
          /\ IsFiniteSet(refused[a]) /\ Cardinality(refused[a]) \in Nat
          /\ passed[a] \subseteq Calls /\ refused[a] \subseteq Calls
          /\ Limit[a] \in Nat
      BY LetThrough, PolicyTypes
    <3>2. c \notin passed[a] \cup refused[a]
      BY <1>2, <2>0, <2>2
    <3>3. count'[<<a, w>>] = count[<<a, w>>] + 1
      BY <1>3, <2>2
    <3>4. CASE /\ count[<<a, w>>] + 1 <= Limit[a]
               /\ passed'[a] = passed[a] \cup {c} /\ refused'[a] = refused[a]
      <4>1. Cardinality(passed'[a]) = Cardinality(passed[a]) + 1
        BY <3>1, <3>2, <3>4, FS_AddElement
      <4>2. refused[a] = {}
        <5>1. SUFFICES ASSUME refused[a] # {} PROVE FALSE
          OBVIOUS
        <5> QED
          BY <2>0, <2>2, <3>1, <3>4, <5>1
      <4>3. \A d \in passed'[a] \cup refused'[a] : ~ToCount(d)'
        BY <1>2, <1>5, <2>0, <2>2, <3>1, <3>4
      <4>4. Cardinality(passed'[a]) <= Limit[a]
        BY <2>0, <2>2, <3>1, <3>4, <4>1
      <4>5. count'[<<a, w>>]
              = Cardinality(passed'[a]) + Cardinality(refused'[a])
        BY <2>0, <2>2, <3>1, <3>3, <3>4, <4>1
      <4> QED
        BY <2>2, <3>4, <4>2, <4>3, <4>4, <4>5
    <3>5. CASE /\ count[<<a, w>>] + 1 > Limit[a]
               /\ refused'[a] = refused[a] \cup {c} /\ passed'[a] = passed[a]
      <4>1. Cardinality(refused'[a]) = Cardinality(refused[a]) + 1
        BY <3>1, <3>2, <3>5, FS_AddElement
      <4>2. Cardinality(passed[a]) = Limit[a]
        <5>1. CASE refused[a] # {}
          BY <2>0, <2>2, <5>1
        <5>2. CASE refused[a] = {}
          <6>1. Cardinality(refused[a]) = 0
            BY <5>2, FS_EmptySet
          <6> QED
            BY <2>0, <2>2, <3>1, <3>5, <6>1
        <5> QED
          BY <5>1, <5>2
      <4>3. \A d \in passed'[a] \cup refused'[a] : ~ToCount(d)'
        BY <1>2, <1>5, <2>0, <2>2, <3>1, <3>5
      <4>4. count'[<<a, w>>]
              = Cardinality(passed'[a]) + Cardinality(refused'[a])
        BY <2>0, <2>2, <3>1, <3>3, <3>5, <4>1
      <4> QED
        BY <2>0, <2>2, <3>5, <4>2, <4>3, <4>4
    <3> QED
      BY <1>1, <2>2, <3>4, <3>5 DEF HitIn, RecoveryTypeOK
  <2> QED
    BY <2>1, <2>2
<1> QED
  BY <1>3, <1>4, <1>6, <1>8 DEF CounterInv, WindowExact

LEMMA PurgeKeepsCounters ==
  ASSUME RecoveryTypeOK, CounterInv, LockInv, NEW a \in Actions, NEW b \in Buckets,
         PurgeCounter(a, b)
  PROVE  CounterInv'
<1>1. now \in Nat /\ b \in Nat
  BY AccountFields DEF Buckets
<1>2. b < now \div Window /\ now \div Window \in Nat
  BY <1>1, WindowOver, WindowOf DEF PurgeCounter
<1>3. /\ \A e \in Actions : \A k \in Buckets :
           count'[<<e, k>>] = IF e = a /\ k = b THEN 0 ELSE count[<<e, k>>]
      /\ UNCHANGED <<now, call, passed, refused>>
  BY DEF PurgeCounter, ghosts, RecoveryTypeOK
<1>4. now \div Window \in Buckets
  BY <1>1, WindowOf, WindowsOrdered, PolicyTypes DEF Buckets, RecoveryTypeOK, Times
<1>5. \A e \in Actions :
        count'[<<e, now \div Window>>] = count[<<e, now \div Window>>]
  BY <1>2, <1>3, <1>4
<1>6. \A d \in Calls : ToCount(d)' = ToCount(d)
  BY <1>3 DEF ToCount
<1>7. WindowExact'
  BY <1>3 DEF CounterInv, WindowExact
<1>8. \A e \in Actions :
        /\ \A k \in Buckets : k > now \div Window => count'[<<e, k>>] = 0
        /\ \A d \in passed[e] \cup refused[e] : ~ToCount(d)'
  BY <1>3, <1>6, LetThrough DEF CounterInv
<1> QED
  BY <1>3, <1>5, <1>7, <1>8 DEF CounterInv

LEMMA TickKeepsCounters ==
  ASSUME RecoveryTypeOK, CounterInv, LockInv, Tick
  PROVE  CounterInv'
<1> DEFINE w == now \div Window
           v == (now + 1) \div Window
<1>1. /\ now \in Nat /\ w \in Nat /\ v \in Nat /\ now' = now + 1
      /\ UNCHANGED <<call, count>>
  BY AccountFields, WindowOf DEF Tick
<1>2. v \in Buckets
  <2>1. now + 1 <= MaxTime
    BY <1>1, PolicyTypes DEF Tick
  <2> QED
    BY <1>1, <2>1, WindowsOrdered, WindowOf, PolicyTypes DEF Buckets
<1>3. w <= v
  BY <1>1, WindowsOrdered
<1>4. \A d \in Calls : call[d].bucket <= v /\ call[d].bucket \in Nat
  BY <1>1, <1>3, CallFields DEF Call, Buckets
<1>5. \A d \in Calls : ToCount(d)' = ToCount(d)
  BY <1>1 DEF ToCount
<1>6. CASE (now + 1) % Window # 0
  <2>1. v = w /\ UNCHANGED <<passed, refused>>
    BY <1>1, <1>6, NextWindow DEF Tick
  <2>2. WindowExact'
    BY <2>1 DEF CounterInv, WindowExact
  <2>3. \A a \in Actions : \A d \in passed[a] \cup refused[a] : ~ToCount(d)'
    BY <1>5, LetThrough DEF CounterInv
  <2> QED
    BY <1>1, <1>4, <2>1, <2>2, <2>3 DEF CounterInv
<1>7. CASE (now + 1) % Window = 0
  <2>1. v > w /\ \A a \in Actions : passed'[a] = {} /\ refused'[a] = {}
    BY <1>1, <1>7, NextWindow DEF Tick, Nobody
  <2>2. \A a \in Actions :
          /\ count[<<a, v>>] = 0
          /\ \A b \in Buckets : b > v => count[<<a, b>>] = 0
    <3> TAKE a \in Actions
    <3>1. \A b \in Buckets : b > w => count[<<a, b>>] = 0
      BY DEF CounterInv
    <3>2. \A b \in Buckets : b \in Nat
      BY DEF Buckets
    <3> QED
      BY <1>1, <1>2, <2>1, <3>1, <3>2
  <2>3. \A a \in Actions : Cardinality(passed'[a]) = 0 /\ Cardinality(refused'[a]) = 0
    BY <2>1, FS_EmptySet
  <2>4. WindowExact'
    BY <2>1, <2>3, PolicyTypes DEF WindowExact
  <2> QED
    BY <1>1, <1>4, <2>1, <2>2, <2>3, <2>4 DEF CounterInv
<1> QED
  BY <1>6, <1>7

-----------------------------------------------------------------------------
(* Failures and the lock                                                   *)

(* Steps that record no failure, and leave or remove the lock and window.  *)
LEMMA LockKept ==
  ASSUME RecoveryTypeOK, LockInv, NEW c \in Calls, Moved(c),
         UNCHANGED <<now, failures>>, account'.failed = account.failed,
         account'.windowStart \in {account.windowStart, NoTime},
         account'.lockedUntil \in {account.lockedUntil, NoTime}
  PROVE  LockInv'
<1>1. \A f \in failures : call'[f.call].pc = "over"
  <2> TAKE f \in failures
  <2>1. f.call \in Calls /\ call[f.call].pc = "over"
    BY DEF RecoveryTypeOK, LockInv
  <2> QED
    BY <2>1 DEF Moved, StaysAs
<1>2. \A d \in Calls : call'[d].at <= now
  BY DEF LockInv, Moved, StaysAs
<1>3. \A t : UnderWay(t)' = UnderWay(t)
  BY DEF UnderWay
<1>4. account'.windowStart # NoTime =>
        /\ account'.windowStart <= now
        /\ account'.failed <= Cardinality(UnderWay(account'.windowStart))
  BY DEF LockInv
<1>5. LockMeansFailures'
  BY <1>3 DEF LockInv, LockMeansFailures
<1> QED
  BY <1>1, <1>2, <1>3, <1>4, <1>5 DEF LockInv

(* Steps that forget the failures, or leave no window to count them.       *)
LEMMA LockCleared ==
  ASSUME RecoveryTypeOK, LockInv, NEW c \in Calls, Moved(c), now' = now,
         failures' = {}, account'.windowStart = NoTime,
         account'.lockedUntil = NoTime
  PROVE  LockInv'
<1>1. \A d \in Calls : call'[d].at <= now
  BY DEF LockInv, Moved, StaysAs
<1>2. IsFiniteSet(failures')
  BY FS_EmptySet
<1> QED
  BY <1>1, <1>2 DEF LockInv, LockMeansFailures

LEMMA FailureKeepsLock ==
  ASSUME RecoveryTypeOK, CounterInv, LockInv, NEW c \in Calls, RecordFailure(c)
  PROVE  LockInv'
<1>1. PICK t \in Nat : t = call[c].at
  BY RecordFailureEffect
<1>2. PICK f : f = [call |-> c, at |-> t, recorded |-> now]
  OBVIOUS
<1>3. /\ Moved(c) /\ call[c].pc = "fail" /\ call'[c].pc = "over"
      /\ account' = Failed(t) /\ t <= now /\ now' = now
      /\ failures' = failures \cup {f} /\ now \in Nat
      /\ f.call = c /\ f.at = t /\ f.recorded = now
  BY <1>1, <1>2, RecordFailureEffect, AccountFields
<1>4. \A g \in failures' : call'[g.call].pc = "over"
  <2> TAKE g \in failures'
  <2>1. CASE g = f
    BY <1>3, <2>1
  <2>2. CASE g \in failures
    <3>1. g.call \in Calls /\ call[g.call].pc = "over"
      BY <2>2 DEF RecoveryTypeOK, LockInv
    <3> QED
      BY <1>3, <3>1 DEF Moved, StaysAs
  <2> QED
    BY <1>3, <2>1, <2>2
<1>5. f \notin failures
  BY <1>3 DEF LockInv
<1>6. IsFiniteSet(failures) /\ IsFiniteSet(failures')
  BY <1>3, FS_AddElement DEF LockInv
<1>7. \A d \in Calls : call'[d].at <= now
  BY <1>3 DEF LockInv, Moved, StaysAs
<1> DEFINE Under(k) == {g \in failures' : g.at < k + FailureWindow /\ g.recorded >= k}
<1>8. ASSUME NEW k \in Nat, k <= now, t < k + FailureWindow
      PROVE  /\ Cardinality(Under(k)) = Cardinality(UnderWay(k)) + 1
             /\ Cardinality(UnderWay(k)) \in Nat
  <2>1. Under(k) = UnderWay(k) \cup {f}
    BY <1>3, <1>8 DEF UnderWay
  <2>2. IsFiniteSet(UnderWay(k)) /\ f \notin UnderWay(k)
    BY <1>5, <1>6, FS_Subset DEF UnderWay
  <2> QED
    BY <2>1, <2>2, FS_AddElement, FS_CardinalityType
<1>9. /\ account'.failed = IF StartsWindow(t) THEN 1 ELSE account.failed + 1
      /\ account'.windowStart = IF StartsWindow(t) THEN t ELSE account.windowStart
      /\ account'.lockedUntil = IF account'.failed >= MaxFailed
                                THEN t + LockDuration ELSE NoTime
  BY <1>3, FailedIsAccount
<1>10. /\ account'.windowStart \in Nat /\ account'.windowStart <= now
       /\ account'.failed <= Cardinality(Under(account'.windowStart))
  <2>1. CASE StartsWindow(t)
    <3>1. t < t + FailureWindow
      BY PolicyTypes
    <3> QED
      BY <1>3, <1>8, <1>9, <2>1, <3>1
  <2>2. CASE ~StartsWindow(t)
    <3>1. PICK w \in Nat : w = account.windowStart
      BY <2>2, AccountFields DEF StartsWindow
    <3>2. w <= now /\ account.failed <= Cardinality(UnderWay(w))
      BY <3>1, PolicyTypes DEF LockInv
    <3>3. t < w + FailureWindow
      BY <2>2, <3>1, PolicyTypes DEF StartsWindow
    <3>4. /\ Cardinality(Under(w)) = Cardinality(UnderWay(w)) + 1
          /\ Cardinality(UnderWay(w)) \in Nat
      BY <1>8, <3>2, <3>3
    <3> QED
      BY <1>9, <2>2, <3>1, <3>2, <3>4, AccountFields
  <2> QED
    BY <2>1, <2>2
<1>11. account'.windowStart # NoTime
  BY <1>10, PolicyTypes
<1>12. \A k : UnderWay(k)' = Under(k)
  BY DEF UnderWay
<1>13. LockMeansFailures'
  <2> SUFFICES ASSUME account'.lockedUntil # NoTime
               PROVE  \E k \in Times : Cardinality(Under(k)) >= MaxFailed
    BY <1>12 DEF LockMeansFailures
  <2>1. PICK w \in Nat : w = account'.windowStart
    BY <1>10
  <2>2. IsFiniteSet(Under(w)) /\ Cardinality(Under(w)) \in Nat
    BY <1>6, FS_Subset, FS_CardinalityType
  <2>3. account'.failed >= MaxFailed /\ account'.failed \in Nat
    BY <1>9, AccountFields
  <2>4. w \in Times
    BY <1>10, <2>1, AccountFields, PolicyTypes DEF Times
  <2>5. Cardinality(Under(w)) >= MaxFailed
    BY <1>10, <2>1, <2>2, <2>3, PolicyTypes
  <2> QED
    BY <2>4, <2>5
<1> QED
  BY <1>3, <1>4, <1>6, <1>7, <1>10, <1>11, <1>12, <1>13 DEF LockInv

LEMMA LockStep ==
  ASSUME RecoveryTypeOK, CounterInv, LockInv, RecoveryNext
  PROVE  LockInv'
<1>1. ASSUME NEW c \in Calls, RecoveryStep(c) PROVE LockInv'
  <2>1. CASE Reads(c)
    BY <2>1, ReadsMove, LockKept DEF ghosts
  <2>2. CASE Hit(c)
    BY <2>2, HitMoves, LockKept DEF Hit
  <2>3. CASE RecordFailure(c)
    BY <2>3, FailureKeepsLock
  <2>4. CASE SignIn(c)
    BY <2>4, SignInEffect, LockCleared
  <2>5. CASE SaveCode(c)
    BY <2>5, SaveCodeEffect, LockKept
  <2>6. CASE Withdraw(c) \/ SaveExhausted(c)
    BY <2>6, CodeGoesEffect, LockKept DEF ghosts, LockSpared
  <2>7. CASE SaveWrong(c)
    BY <2>7, SaveWrongEffect, LockKept DEF LockSpared
  <2>8. CASE CommitReset(c)
    BY <2>8, CommitResetEffect, LockCleared
  <2> QED
    BY <1>1, <2>1, <2>2, <2>3, <2>4, <2>5, <2>6, <2>7, <2>8 DEF RecoveryStep, Reads
<1>2. ASSUME NEW a \in Actions, NEW b \in Buckets, PurgeCounter(a, b) PROVE LockInv'
  BY <1>2 DEF PurgeCounter, ghosts, LockInv, LockMeansFailures, UnderWay
<1>3. CASE DeleteAccount
  <2>1. /\ account'.windowStart = NoTime /\ account'.lockedUntil = NoTime
        /\ UNCHANGED <<now, call, failures>>
    BY <1>3, DeleteEffect DEF ghosts
  <2> QED
    BY <2>1 DEF LockInv, LockMeansFailures
<1>4. CASE Tick
  <2>1. now' = now + 1 /\ now \in Nat /\ UNCHANGED <<account, call, failures>>
    BY <1>4, AccountFields DEF Tick
  <2>2. \A d \in Calls : call[d].at <= now + 1
    <3> TAKE d \in Calls
    <3>1. call[d].at \in Nat /\ call[d].at <= now
      BY PolicyTypes DEF LockInv, RecoveryTypeOK, Call, Times
    <3> QED
      BY <2>1, <3>1
  <2>3. account.windowStart # NoTime => account.windowStart <= now + 1
    BY <2>1, AccountFields DEF LockInv
  <2>4. \A k : UnderWay(k)' = UnderWay(k)
    BY <2>1 DEF UnderWay
  <2> QED
    BY <2>1, <2>2, <2>3, <2>4 DEF LockInv, LockMeansFailures
<1> QED
  BY <1>1, <1>2, <1>3, <1>4 DEF RecoveryNext

-----------------------------------------------------------------------------
(* Codes                                                                   *)

(* Whoever set the password is over, also after a step.                    *)
LEMMA PasswordSetterOver ==
  ASSUME RecoveryTypeOK, CodeInv, NEW c \in Calls, Moved(c),
         account'.password = account.password
  PROVE  account'.password # NoCode => call'[account'.password].pc = "over"
<1> SUFFICES ASSUME account.password # NoCode
             PROVE  call'[account.password].pc = "over"
  OBVIOUS
<1>1. account.password \in Calls /\ call[account.password].pc = "over"
  BY AccountFields DEF CodeInv, Codes
<1> QED
  BY <1>1 DEF Moved, StaysAs

(* The conjuncts of CodeInv about the requests, after a step that stores   *)
(* no other code than k and takes none.                                    *)
Nowhere(k) ==
  /\ account.otp # k
  /\ \A d \in Calls : call[d].otp # k
  /\ \A r \in resets : r.code # k
  /\ Guesses(k) = {}

LEMMA NowhereStays ==
  ASSUME RecoveryTypeOK, CodeInv, NEW c \in Calls, Moved(c), NEW k \in Calls,
         ToSave(k)', account'.otp \in {account.otp, NoCode},
         resets' = resets, guesses' = guesses
  PROVE  ToSave(k) /\ Nowhere(k) /\ Nowhere(k)'
<1>1. ToSave(k)
  BY DEF Moved, StaysAs, ToSave, ToCount
<1>2. Nowhere(k)
  BY <1>1 DEF CodeInv, Nowhere
<1>3. k # NoCode
  BY PolicyTypes
<1>4. \A d \in Calls : call'[d].otp # k
  BY <1>2, <1>3 DEF Moved, StaysAs, Nowhere
<1>5. Guesses(k)' = Guesses(k)
  BY DEF Guesses
<1> QED
  BY <1>1, <1>2, <1>3, <1>4, <1>5 DEF Nowhere

LEMMA CommitsHoldCodes ==
  ASSUME RecoveryTypeOK, CodeInv, NEW c \in Calls, Moved(c)
  PROVE  \A d \in Calls : call'[d].pc = "commit" => call'[d].otp # NoCode
  BY DEF CodeInv, Moved, StaysAs

(* Steps that leave the code there is, or take it away with its time.      *)
LEMMA CodeKept ==
  ASSUME RecoveryTypeOK, CodeInv, NEW c \in Calls, Moved(c),
         UNCHANGED <<resets, guesses, latest>>,
         account'.password = account.password,
         \/ account'.otp = account.otp /\ account'.expiry = account.expiry
         \/ account'.otp = NoCode /\ account'.expiry = NoTime
  PROVE  CodeInv'
<1>1. /\ account'.otp # NoCode <=> account'.expiry # NoTime
      /\ account'.otp # NoCode => account'.otp = latest
      /\ account'.otp \in {account.otp, NoCode}
  BY DEF CodeInv
<1>2. account'.password # NoCode => call'[account'.password].pc = "over"
  BY PasswordSetterOver
<1>3. \A r \in resets : r.code \in Calls \ {account'.otp}
  BY <1>1, PolicyTypes DEF CodeInv
<1>4. \A k \in Calls : ToSave(k)' => Nowhere(k)'
  BY <1>1, NowhereStays
<1>5. OneResetPerCode'
  BY DEF CodeInv, OneResetPerCode
<1> QED
  BY <1>1, <1>2, <1>3, <1>4, <1>5, CommitsHoldCodes DEF CodeInv, Nowhere

LEMMA SaveCodeKeepsCodes ==
  ASSUME RecoveryTypeOK, CounterInv, LockInv, CodeInv, NEW c \in Calls, SaveCode(c)
  PROVE  CodeInv'
<1>1. /\ Moved(c) /\ call[c].pc = "save" /\ call'[c].pc = "mail"
      /\ call'[c].otp = call[c].otp
      /\ account'.otp = c /\ account'.expiry # NoTime
      /\ account'.password = account.password /\ latest' = c
      /\ resets' = resets /\ guesses' = guesses
  BY SaveCodeEffect
<1>2. Nowhere(c) /\ c # NoCode
  BY <1>1, PolicyTypes DEF CodeInv, Nowhere, ToSave
<1>3. account'.password # NoCode => call'[account'.password].pc = "over"
  BY <1>1, PasswordSetterOver
<1>4. \A r \in resets : r.code \in Calls \ {c}
  BY <1>2 DEF CodeInv, Nowhere
<1>5. ASSUME NEW k \in Calls, ToSave(k)' PROVE Nowhere(k)'
  <2>1. ToSave(k) /\ k # c
    BY <1>1, <1>5 DEF Moved, StaysAs, ToSave, ToCount
  <2>2. Nowhere(k)
    BY <2>1 DEF CodeInv, Nowhere
  <2>3. \A d \in Calls : call'[d].otp # k
    BY <1>1, <2>2 DEF Moved, StaysAs, Nowhere
  <2>4. Guesses(k)' = Guesses(k)
    BY <1>1 DEF Guesses
  <2> QED
    BY <1>1, <2>1, <2>2, <2>3, <2>4 DEF Nowhere
<1>6. OneResetPerCode'
  BY <1>1 DEF CodeInv, OneResetPerCode
<1> QED
  BY <1>1, <1>2, <1>3, <1>4, <1>5, <1>6, CommitsHoldCodes DEF CodeInv, Nowhere

LEMMA SaveWrongKeepsCodes ==
  ASSUME RecoveryTypeOK, CounterInv, LockInv, CodeInv, NEW c \in Calls, SaveWrong(c)
  PROVE  CodeInv'
<1>1. /\ Moved(c) /\ call[c].pc = "wrong"
      /\ account'.otp = account.otp /\ account'.expiry = account.expiry
      /\ account'.password = account.password
      /\ guesses' = guesses \cup
           {[call |-> c, code |-> call[c].otp, stale |-> call[c].stale]}
      /\ UNCHANGED <<resets, latest>>
  BY SaveWrongEffect
<1>2. account'.password # NoCode => call'[account'.password].pc = "over"
  BY <1>1, PasswordSetterOver
<1>3. ASSUME NEW k \in Calls, ToSave(k)' PROVE Nowhere(k)'
  <2>1. ToSave(k)
    BY <1>1, <1>3 DEF Moved, StaysAs, ToSave, ToCount
  <2>2. Nowhere(k) /\ k # NoCode
    BY <2>1, PolicyTypes DEF CodeInv, Nowhere
  <2>3. \A d \in Calls : call'[d].otp # k
    BY <1>1, <2>2 DEF Moved, StaysAs, Nowhere
  <2>4. Guesses(k)' = {}
    <3>1. \A g \in guesses : g.code # k
      BY <2>2 DEF Nowhere, Guesses
    <3>2. call[c].otp # k
      BY <2>2 DEF Nowhere
    <3> QED
      BY <1>1, <3>1, <3>2 DEF Guesses
  <2> QED
    BY <1>1, <2>2, <2>3, <2>4 DEF Nowhere
<1>4. OneResetPerCode'
  BY <1>1 DEF CodeInv, OneResetPerCode
<1> QED
  BY <1>1, <1>2, <1>3, <1>4, CommitsHoldCodes DEF CodeInv, Nowhere

LEMMA ResetKeepsCodes ==
  ASSUME RecoveryTypeOK, CounterInv, LockInv, CodeInv, NEW c \in Calls, CommitReset(c)
  PROVE  CodeInv'
<1>1. PICK k \in Codes : k = call[c].otp
  BY CallFields DEF Call
<1>2. PICK s : s = [call |-> c, code |-> k, latest |-> latest]
  OBVIOUS
<1>3. /\ Moved(c) /\ call[c].pc = "commit" /\ call'[c] = Over /\ account.otp = k
      /\ account'.otp = NoCode /\ account'.expiry = NoTime
      /\ account'.password = c /\ resets' = resets \cup {s}
      /\ UNCHANGED <<guesses, latest>>
  BY <1>1, <1>2, CommitResetEffect
<1>4. k # NoCode /\ k \in Calls /\ k = latest
  BY <1>1, <1>3 DEF CodeInv, Codes
<1>5. \A r \in resets : r.code \in Calls /\ r.code # k
  BY <1>3 DEF CodeInv
<1>6. \A r \in resets' : r.code \in Calls \ {NoCode}
  BY <1>2, <1>3, <1>4, <1>5, PolicyTypes
<1>7. ASSUME NEW j \in Calls, ToSave(j)' PROVE Nowhere(j)'
  <2>1. ToSave(j)
    BY <1>3, <1>7 DEF Moved, StaysAs, ToSave, ToCount
  <2>2. Nowhere(j) /\ j # NoCode
    BY <2>1, PolicyTypes DEF CodeInv, Nowhere
  <2>3. \A d \in Calls : call'[d].otp # j
    BY <1>3, <2>2 DEF Moved, StaysAs, Nowhere
  <2>4. \A r \in resets' : r.code # j
    BY <1>2, <1>3, <2>2 DEF Nowhere
  <2>5. Guesses(j)' = Guesses(j)
    BY <1>3 DEF Guesses
  <2> QED
    BY <1>3, <2>2, <2>3, <2>4, <2>5 DEF Nowhere
<1>8. OneResetPerCode'
  <2> SUFFICES ASSUME NEW r \in resets', NEW q \in resets'
               PROVE  r.code = r.latest /\ (r.code = q.code => r = q)
    BY DEF OneResetPerCode
  <2>1. s.code = k /\ s.latest = k
    BY <1>2, <1>4
  <2>2. \A x, y \in resets : x.code = x.latest /\ (x.code = y.code => x = y)
    BY DEF CodeInv, OneResetPerCode
  <2> QED
    BY <1>3, <1>5, <2>1, <2>2
<1>9. call'[account'.password].pc = "over"
  BY <1>3, OverIsCall
<1> QED
  BY <1>3, <1>6, <1>7, <1>8, <1>9, CommitsHoldCodes DEF CodeInv, Nowhere

LEMMA CodeStep ==
  ASSUME RecoveryTypeOK, CounterInv, LockInv, CodeInv, RecoveryNext
  PROVE  CodeInv'
<1>1. ASSUME NEW c \in Calls, RecoveryStep(c) PROVE CodeInv'
  <2>1. CASE Reads(c)
    BY <2>1, ReadsMove, CodeKept DEF ghosts
  <2>2. CASE Hit(c)
    BY <2>2, HitMoves, CodeKept DEF Hit
  <2>3. CASE RecordFailure(c)
    <3>1. /\ account'.otp = account.otp /\ account'.expiry = account.expiry
          /\ account'.password = account.password
      BY <2>3, RecordFailureEffect, FailedIsAccount
    <3> QED
      BY <2>3, <3>1, RecordFailureEffect, CodeKept
  <2>4. CASE SignIn(c)
    BY <2>4, SignInEffect, CodeKept
  <2>5. CASE SaveCode(c)
    BY <2>5, SaveCodeKeepsCodes
  <2>6. CASE Withdraw(c) \/ SaveExhausted(c)
    BY <2>6, CodeGoesEffect, CodeKept DEF ghosts
  <2>7. CASE SaveWrong(c)
    BY <2>7, SaveWrongKeepsCodes
  <2>8. CASE CommitReset(c)
    BY <2>8, ResetKeepsCodes
  <2> QED
    BY <1>1, <2>1, <2>2, <2>3, <2>4, <2>5, <2>6, <2>7, <2>8 DEF RecoveryStep, Reads
<1>2. ASSUME UNCHANGED <<account, call, resets, guesses, latest>> PROVE CodeInv'
  BY <1>2 DEF CodeInv, ToSave, ToCount, Guesses, OneResetPerCode
<1>3. ASSUME NEW a \in Actions, NEW b \in Buckets, PurgeCounter(a, b) PROVE CodeInv'
  BY <1>2, <1>3 DEF PurgeCounter, ghosts
<1>4. CASE DeleteAccount
  <2>1. /\ account'.otp = NoCode /\ account'.expiry = NoTime
        /\ account'.password = NoCode
        /\ UNCHANGED <<call, resets, guesses, latest>>
    BY <1>4, DeleteEffect DEF ghosts
  <2>2. \A r \in resets : r.code \in Calls \ {NoCode}
    BY PolicyTypes DEF CodeInv
  <2>3. \A c \in Calls : c # NoCode /\ ToSave(c)' = ToSave(c) /\ Guesses(c)' = Guesses(c)
    BY <2>1, PolicyTypes DEF ToSave, ToCount, Guesses
  <2>4. OneResetPerCode'
    BY <2>1 DEF CodeInv, OneResetPerCode
  <2> QED
    BY <2>1, <2>2, <2>3, <2>4 DEF CodeInv
<1>5. CASE Tick
  BY <1>2, <1>5 DEF Tick
<1> QED
  BY <1>1, <1>3, <1>4, <1>5 DEF RecoveryNext

-----------------------------------------------------------------------------
(* Guesses                                                                 *)

LEMMA AttemptsTimes ==
  ASSUME NEW n \in Nat
  PROVE  /\ MaxAttempts * n \in Nat
         /\ MaxAttempts * (n + 1) = MaxAttempts * n + MaxAttempts
         /\ MaxAttempts * (1 + n) = MaxAttempts * n + MaxAttempts
  BY PolicyTypes

LEMMA GuessesFinite ==
  ASSUME GuessInv
  PROVE  /\ IsFiniteSet(StaleGuesses) /\ Cardinality(StaleGuesses) \in Nat
         /\ \A k : IsFiniteSet(Guesses(k)) /\ Cardinality(Guesses(k)) \in Nat
<1>1. IsFiniteSet(guesses)
  BY DEF GuessInv
<1>2. IsFiniteSet(StaleGuesses)
  BY <1>1, FS_Subset DEF StaleGuesses
<1>3. \A k : IsFiniteSet(Guesses(k))
  <2> TAKE k
  <2>1. Guesses(k) \subseteq guesses
    BY DEF Guesses
  <2> QED
    BY <1>1, <2>1, FS_Subset
<1> QED
  BY <1>2, <1>3, FS_CardinalityType

(* Who has guessed is over, also after a step.                             *)
LEMMA GuessersOver ==
  ASSUME RecoveryTypeOK, GuessInv, NEW c \in Calls, Moved(c)
  PROVE  \A g \in guesses : g.call # c /\ call'[g.call].pc = "over"
<1> TAKE g \in guesses
<1>1. g.call \in Calls /\ call[g.call].pc = "over"
  BY DEF RecoveryTypeOK, GuessInv
<1> QED
  BY <1>1 DEF Moved, StaysAs

(* Steps without an answer to a wrong code, or a new code.                 *)
LEMMA GuessKept ==
  ASSUME RecoveryTypeOK, GuessInv, NEW c \in Calls, Moved(c), guesses' = guesses,
         account'.attempts \in {0, account.attempts},
         \/ account'.otp = account.otp /\ account'.attempts = account.attempts
         \/ account'.otp = NoCode
  PROVE  GuessInv'
<1>1. /\ \A k : Guesses(k)' = Guesses(k)
      /\ StaleGuesses' = StaleGuesses
  BY DEF Guesses, StaleGuesses
<1>2. account'.attempts <= MaxAttempts
  BY PolicyTypes DEF GuessInv
<1>3. (account.otp # NoCode => WithinAttempts(account.otp, account.attempts))'
  BY DEF GuessInv, WithinAttempts, Guesses, StaleGuesses
<1>4. ASSUME NEW d \in Calls, call'[d].pc = "wrong" PROVE WrongOK(call[d])'
  <2>1. CASE d = c
    <3>1. /\ account.attempts < MaxAttempts
          /\ call'[c].attempts = account.attempts /\ call'[c].otp = account.otp
      BY <1>4, <2>1 DEF Moved
    <3>2. account.otp # NoCode => WithinAttempts(account.otp, account.attempts)
      BY DEF GuessInv
    <3> QED
      BY <2>1, <3>1, <3>2 DEF WrongOK, WithinAttempts, Guesses, StaleGuesses
  <2>2. CASE d # c
    <3>1. /\ call[d].pc = "wrong" /\ call'[d].attempts = call[d].attempts
          /\ call'[d].otp = call[d].otp /\ (~call'[d].stale => ~call[d].stale)
      BY <1>4, <2>2 DEF Moved, StaysAs
    <3>2. WrongOK(call[d])
      BY <3>1 DEF GuessInv
    <3> QED
      BY <3>1, <3>2 DEF WrongOK, WithinAttempts, Guesses, StaleGuesses
  <2> QED
    BY <2>1, <2>2
<1>5. GuessesBounded'
  BY <1>1 DEF GuessInv, GuessesBounded
<1>6. IsFiniteSet(guesses') /\ \A g \in guesses' : call'[g.call].pc = "over"
  BY GuessersOver DEF GuessInv
<1> QED
  BY <1>2, <1>3, <1>4, <1>5, <1>6 DEF GuessInv

LEMMA SaveCodeKeepsGuesses ==
  ASSUME RecoveryTypeOK, CounterInv, LockInv, CodeInv, GuessInv,
         NEW c \in Calls, SaveCode(c)
  PROVE  GuessInv'
<1>1. /\ Moved(c) /\ call[c].pc = "save"
      /\ \A d \in Calls : call'[d].pc = "wrong" => call'[d].stale
      /\ account'.otp = c /\ account'.attempts = 0 /\ guesses' = guesses
  BY SaveCodeEffect
<1>2. /\ \A k : Guesses(k)' = Guesses(k)
      /\ StaleGuesses' = StaleGuesses
  BY <1>1 DEF Guesses, StaleGuesses
<1>3. WithinAttempts(c, 0)'
  <2>1. Guesses(c) = {}
    BY <1>1 DEF CodeInv, ToSave
  <2>2. Cardinality(Guesses(c)') = 0
    BY <1>2, <2>1, FS_EmptySet
  <2>3. MaxAttempts * Cardinality(StaleGuesses') \in Nat
    BY <1>2, GuessesFinite, AttemptsTimes
  <2> QED
    BY <2>2, <2>3 DEF WithinAttempts
<1>4. ASSUME NEW d \in Calls, call'[d].pc = "wrong"
      PROVE  call'[d].attempts < MaxAttempts /\ call'[d].stale
  <2>1. d # c
    BY <1>4, SaveCodeEffect
  <2>2. call[d].pc = "wrong" /\ call'[d].attempts = call[d].attempts
    BY <1>1, <1>4, <2>1 DEF Moved, StaysAs
  <2> QED
    BY <1>1, <1>4, <2>2 DEF GuessInv, WrongOK
<1>5. GuessesBounded'
  BY <1>2 DEF GuessInv, GuessesBounded
<1>6. IsFiniteSet(guesses') /\ \A g \in guesses' : call'[g.call].pc = "over"
  BY <1>1, GuessersOver DEF GuessInv
<1>7. account'.attempts <= MaxAttempts
  BY <1>1, PolicyTypes
<1> QED
  BY <1>1, <1>3, <1>4, <1>5, <1>6, <1>7 DEF GuessInv, WrongOK

(* A wrong code is answered: it counts as an attempt, or is a stale guess. *)
LEMMA SaveWrongKeepsGuesses ==
  ASSUME RecoveryTypeOK, CounterInv, LockInv, CodeInv, GuessInv,
         NEW c \in Calls, SaveWrong(c)
  PROVE  GuessInv'
<1>1. PICK j \in Codes, n \in Nat, b \in BOOLEAN :
        j = call[c].otp /\ n = call[c].attempts /\ b = call[c].stale
  BY SaveWrongEffect
<1>2. PICK f : f = [call |-> c, code |-> j, stale |-> b]
  OBVIOUS
<1>3. /\ Moved(c) /\ call[c].pc = "wrong" /\ call'[c] = Over
      /\ \A d \in Calls : call'[d].pc = "wrong" => call'[d].stale
      /\ account'.attempts = n + 1 /\ account'.otp = account.otp
      /\ guesses' = guesses \cup {f}
  BY <1>1, <1>2, SaveWrongEffect
<1>4. /\ n < MaxAttempts
      /\ ~b => /\ account.otp \in {j, NoCode}
               /\ j # NoCode => WithinAttempts(j, n)
  BY <1>1, <1>3 DEF GuessInv, WrongOK
<1>5. f \notin guesses
  BY <1>2, <1>3, GuessersOver
<1>6. /\ IsFiniteSet(guesses) /\ IsFiniteSet(guesses')
      /\ \A g \in guesses' : call'[g.call].pc = "over"
  <2>1. IsFiniteSet(guesses) /\ IsFiniteSet(guesses')
    BY <1>3, FS_AddElement DEF GuessInv
  <2>2. f.call = c /\ call'[c].pc = "over"
    BY <1>2, <1>3, OverIsCall
  <2> QED
    BY <1>3, <2>1, <2>2, GuessersOver
<1>7. ASSUME NEW k
      PROVE  /\ Cardinality(Guesses(k)) \in Nat
             /\ Cardinality(Guesses(k)')
                  = IF k = j THEN Cardinality(Guesses(k)) + 1
                    ELSE Cardinality(Guesses(k))
  <2>1. Guesses(k)' = IF k = j THEN Guesses(k) \cup {f} ELSE Guesses(k)
    BY <1>2, <1>3 DEF Guesses
  <2>2. f \notin Guesses(k)
    BY <1>5 DEF Guesses
  <2> QED
    BY <2>1, <2>2, GuessesFinite, FS_AddElement
<1>8. /\ Cardinality(StaleGuesses) \in Nat
      /\ Cardinality(StaleGuesses')
           = IF b THEN Cardinality(StaleGuesses) + 1
             ELSE Cardinality(StaleGuesses)
  <2>1. StaleGuesses' = IF b THEN StaleGuesses \cup {f} ELSE StaleGuesses
    BY <1>2, <1>3 DEF StaleGuesses
  <2>2. f \notin StaleGuesses
    BY <1>5 DEF StaleGuesses
  <2> QED
    BY <2>1, <2>2, GuessesFinite, FS_AddElement
<1>9. PICK m \in Nat, p \in Nat, q \in Nat :
        /\ m = MaxAttempts /\ m > 0
        /\ p = MaxAttempts * Cardinality(StaleGuesses)
        /\ q = MaxAttempts * Cardinality(StaleGuesses')
        /\ q = IF b THEN p + m ELSE p
        /\ MaxAttempts * (1 + Cardinality(StaleGuesses)) = p + m
        /\ MaxAttempts * (1 + Cardinality(StaleGuesses')) = q + m
  BY <1>8, AttemptsTimes, PolicyTypes
<1>10. /\ \A k \in Calls : Cardinality(Guesses(k)) <= p + m
       /\ account.otp # NoCode =>
            Cardinality(Guesses(account.otp)) <= account.attempts + p
       /\ account.attempts <= m /\ account.attempts \in Nat /\ n < m
       /\ ~b /\ j # NoCode => Cardinality(Guesses(j)) <= n + p
  BY <1>4, <1>9, AccountFields DEF GuessInv, GuessesBounded, WithinAttempts
<1>11. GuessesBounded'
  <2> SUFFICES ASSUME NEW k \in Calls PROVE Cardinality(Guesses(k)') <= q + m
    BY <1>9 DEF GuessesBounded
  <2>1. CASE b
    BY <1>7, <1>9, <1>10, <2>1
  <2>2. CASE ~b /\ k = j
    <3>1. j # NoCode
      BY <2>2, PolicyTypes
    <3> QED
      BY <1>7, <1>9, <1>10, <2>2, <3>1
  <2>3. CASE ~b /\ k # j
    BY <1>7, <1>9, <1>10, <2>3
  <2> QED
    BY <2>1, <2>2, <2>3
<1>12. ASSUME account.otp # NoCode
       PROVE  WithinAttempts(account.otp, account.attempts)'
  <2>1. PICK k \in Codes : k = account.otp
    BY AccountFields
  <2>2. Cardinality(Guesses(k)') <= n + 1 + q
    <3>1. CASE b
      BY <1>7, <1>9, <1>10, <1>12, <2>1, <3>1
    <3>2. CASE ~b
      <4>1. k = j
        BY <1>4, <1>12, <2>1, <3>2
      <4>2. Cardinality(Guesses(k)) <= n + p
        BY <1>10, <1>12, <2>1, <3>2, <4>1
      <4>3. /\ Cardinality(Guesses(k)') = Cardinality(Guesses(k)) + 1
            /\ Cardinality(Guesses(k)) \in Nat
        BY <1>7, <4>1
      <4> QED
        BY <1>9, <3>2, <4>2, <4>3
    <3> QED
      BY <3>1, <3>2
  <2> QED
    BY <1>3, <1>9, <2>1, <2>2 DEF WithinAttempts, Guesses
<1>13. account'.attempts <= MaxAttempts
  BY <1>3, <1>9, <1>10
<1>14. ASSUME NEW d \in Calls, call'[d].pc = "wrong"
       PROVE  call'[d].attempts < MaxAttempts /\ call'[d].stale
  <2>1. d # c
    BY <1>3, <1>14, OverIsCall
  <2>2. call[d].pc = "wrong" /\ call'[d].attempts = call[d].attempts
    BY <1>3, <1>14, <2>1 DEF Moved, StaysAs
  <2> QED
    BY <1>3, <1>14, <2>2 DEF GuessInv, WrongOK
<1> QED
  BY <1>3, <1>6, <1>11, <1>12, <1>13, <1>14 DEF GuessInv, WrongOK

LEMMA GuessStep ==
  ASSUME RecoveryTypeOK, CounterInv, LockInv, CodeInv, GuessInv, RecoveryNext
  PROVE  GuessInv'
<1>1. ASSUME NEW c \in Calls, RecoveryStep(c) PROVE GuessInv'
  <2>1. CASE Reads(c)
    BY <2>1, ReadsMove, GuessKept DEF ghosts
  <2>2. CASE Hit(c)
    BY <2>2, HitMoves, GuessKept DEF Hit
  <2>3. CASE RecordFailure(c)
    <3>1. account'.otp = account.otp /\ account'.attempts = account.attempts
      BY <2>3, RecordFailureEffect, FailedIsAccount
    <3> QED
      BY <2>3, <3>1, RecordFailureEffect, GuessKept
  <2>4. CASE SignIn(c)
    BY <2>4, SignInEffect, GuessKept
  <2>5. CASE SaveCode(c)
    BY <2>5, SaveCodeKeepsGuesses
  <2>6. CASE Withdraw(c) \/ SaveExhausted(c)
    BY <2>6, CodeGoesEffect, GuessKept DEF ghosts
  <2>7. CASE SaveWrong(c)
    BY <2>7, SaveWrongKeepsGuesses
  <2>8. CASE CommitReset(c)
    BY <2>8, CommitResetEffect, GuessKept
  <2> QED
    BY <1>1, <2>1, <2>2, <2>3, <2>4, <2>5, <2>6, <2>7, <2>8 DEF RecoveryStep, Reads
<1>2. ASSUME UNCHANGED <<account, call, guesses>> PROVE GuessInv'
  BY <1>2 DEF GuessInv, WrongOK, WithinAttempts, Guesses, StaleGuesses,
              GuessesBounded
<1>3. ASSUME NEW a \in Actions, NEW b \in Buckets, PurgeCounter(a, b) PROVE GuessInv'
  BY <1>2, <1>3 DEF PurgeCounter, ghosts
<1>4. CASE DeleteAccount
  <2>1. /\ account'.otp = NoCode /\ account'.attempts = 0
        /\ UNCHANGED <<call, guesses>>
    BY <1>4, DeleteEffect DEF ghosts
  <2>2. /\ \A k : Guesses(k)' = Guesses(k)
        /\ StaleGuesses' = StaleGuesses
    BY <2>1 DEF Guesses, StaleGuesses
  <2>3. \A c \in Calls : call[c].pc = "wrong" => WrongOK(call[c])'
    BY <2>1 DEF GuessInv, WrongOK, WithinAttempts, Guesses, StaleGuesses
  <2>4. GuessesBounded'
    BY <2>2 DEF GuessInv, GuessesBounded
  <2>5. 0 <= MaxAttempts
    BY PolicyTypes
  <2> QED
    BY <2>1, <2>3, <2>4, <2>5 DEF GuessInv
<1>5. CASE Tick
  BY <1>2, <1>5 DEF Tick
<1> QED
  BY <1>1, <1>3, <1>4, <1>5 DEF RecoveryNext

-----------------------------------------------------------------------------
(* The invariant                                                           *)

LEMMA RecoveryInitially == RecoveryInit => RecoveryInv
<1> SUFFICES ASSUME RecoveryInit PROVE RecoveryInv
  OBVIOUS
<1>0. /\ now = 0 /\ account = Fresh /\ count = [k \in Actions \X Buckets |-> 0]
      /\ call = [c \in Calls |-> New] /\ audit = 0
      /\ passed = Nobody /\ refused = Nobody
      /\ failures = {} /\ guesses = {} /\ resets = {} /\ latest = NoCode
  BY DEF RecoveryInit
<1>1. /\ 0 \in Nat /\ 0 \div Window \in Nat /\ 0 \div Window \in Buckets
      /\ 0 \in Times
  BY WindowOf, WindowsOrdered, PolicyTypes DEF Buckets, Times
<1>2. RecoveryTypeOK
  <2>1. /\ passed \in [Actions -> SUBSET Calls]
        /\ refused \in [Actions -> SUBSET Calls]
    BY <1>0 DEF Nobody
  <2>2. call \in [Calls -> Call] /\ account \in Account
    BY <1>0, OverIsCall, FreshIsAccount
  <2>3. count \in [Actions \X Buckets -> Nat] /\ latest \in Codes
    BY <1>0 DEF Codes
  <2> QED
    BY <1>0, <1>1, <2>1, <2>2, <2>3 DEF RecoveryTypeOK
<1>3. CounterInv
  <2>1. \A c \in Calls : call[c].bucket <= now \div Window
    BY <1>0, <1>1, OverIsCall
  <2>2. \A a \in Actions : /\ passed[a] = {} /\ refused[a] = {}
                           /\ \A b \in Buckets : count[<<a, b>>] = 0
    BY <1>0 DEF Nobody
  <2>3. Cardinality({}) = 0
    BY FS_EmptySet
  <2>4. WindowExact
    BY <2>2, <2>3, PolicyTypes DEF WindowExact
  <2>5. ASSUME NEW a \in Actions
        PROVE  /\ \A b \in Buckets : count[<<a, b>>] = 0
               /\ count[<<a, now \div Window>>]
                    = Cardinality(passed[a]) + Cardinality(refused[a])
               /\ passed[a] \cup refused[a] = {}
    <3>1. count[<<a, now \div Window>>] = 0
      BY <1>0, <1>1, <2>2
    <3>2. passed[a] = {} /\ refused[a] = {}
      BY <2>2
    <3>3. Cardinality(passed[a]) = 0 /\ Cardinality(refused[a]) = 0
      BY <2>3, <3>2
    <3> QED
      BY <2>2, <3>1, <3>2, <3>3
  <2> QED
    BY <2>1, <2>4, <2>5 DEF CounterInv
<1>4. LockInv
  BY <1>0, FreshIsAccount, OverIsCall, FS_EmptySet DEF LockInv, LockMeansFailures
<1>5. CodeInv
  <2>1. \A c \in Calls : c # NoCode /\ call[c].pc = "new" /\ call[c].otp = NoCode
    BY <1>0, OverIsCall, PolicyTypes
  <2>2. \A c \in Calls : Guesses(c) = {}
    BY <1>0 DEF Guesses
  <2>3. account.otp = NoCode /\ account.expiry = NoTime /\ account.password = NoCode
    BY <1>0, FreshIsAccount
  <2> QED
    BY <1>0, <2>1, <2>2, <2>3 DEF CodeInv, OneResetPerCode
<1>6. GuessInv
  <2>1. account.otp = NoCode /\ account.attempts = 0
    BY <1>0, FreshIsAccount
  <2>2. \A k : Guesses(k) = {} /\ Cardinality(Guesses(k)) = 0
    BY <1>0, FS_EmptySet DEF Guesses
  <2>3. GuessesBounded
    <3>1. StaleGuesses = {}
      BY <1>0 DEF StaleGuesses
    <3>2. Cardinality(StaleGuesses) = 0
      BY <3>1, FS_EmptySet
    <3>3. MaxAttempts * (1 + 0) \in Nat
      BY PolicyTypes
    <3> QED
      BY <2>2, <3>2, <3>3 DEF GuessesBounded
  <2>4. \A c \in Calls : call[c].pc # "wrong"
    BY <1>0, OverIsCall
  <2>5. IsFiniteSet(guesses) /\ 0 <= MaxAttempts
    BY <1>0, FS_EmptySet, PolicyTypes
  <2> QED
    BY <1>0, <2>1, <2>3, <2>4, <2>5 DEF GuessInv
<1> QED
  BY <1>2, <1>3, <1>4, <1>5, <1>6 DEF RecoveryInv

LEMMA CounterStep ==
  ASSUME RecoveryTypeOK, CounterInv, LockInv, RecoveryNext
  PROVE  CounterInv'
<1>1. ASSUME NEW c \in Calls, RecoveryStep(c) PROVE CounterInv'
  <2>1. CASE Reads(c)
    BY <2>1, ReadsMove, CounterKept DEF ghosts
  <2>2. CASE Hit(c)
    BY <2>2, HitKeepsCounters
  <2>3. CASE RecordFailure(c)
    BY <2>3, RecordFailureEffect, CounterKept
  <2>4. CASE SignIn(c)
    BY <2>4, SignInEffect, CounterKept
  <2>5. CASE SaveCode(c)
    BY <2>5, SaveCodeEffect, CounterKept
  <2>6. CASE Withdraw(c) \/ SaveExhausted(c)
    BY <2>6, CodeGoesEffect, CounterKept DEF ghosts
  <2>7. CASE SaveWrong(c)
    BY <2>7, SaveWrongEffect, CounterKept
  <2>8. CASE CommitReset(c)
    BY <2>8, CommitResetEffect, CounterKept
  <2> QED
    BY <1>1, <2>1, <2>2, <2>3, <2>4, <2>5, <2>6, <2>7, <2>8 DEF RecoveryStep, Reads
<1>2. CASE DeleteAccount
  BY <1>2, DeleteEffect DEF ghosts, CounterInv, ToCount, WindowExact
<1> QED
  BY <1>1, <1>2, PurgeKeepsCounters, TickKeepsCounters DEF RecoveryNext

LEMMA RecoveryInvStep == RecoveryInv /\ [RecoveryNext]_recoveryVars => RecoveryInv'
<1> SUFFICES ASSUME RecoveryInv, [RecoveryNext]_recoveryVars PROVE RecoveryInv'
  OBVIOUS
<1>1. CASE RecoveryNext
  BY <1>1, RecoveryTypeStep, CounterStep, LockStep, CodeStep, GuessStep
     DEF RecoveryInv
<1>2. CASE UNCHANGED recoveryVars
  BY <1>2 DEF recoveryVars, RecoveryInv, RecoveryTypeOK, CounterInv, ToCount,
     WindowExact, LockInv, LockMeansFailures, UnderWay, CodeInv, ToSave, Guesses,
     OneResetPerCode, GuessInv, WrongOK, WithinAttempts, StaleGuesses, GuessesBounded
<1> QED
  BY <1>1, <1>2

(* Each request is counted once, failures are counted in the window they   *)
(* were under way in, a code is the last one and attempts count guesses.   *)
THEOREM RecoveryCorrect == RecoverySpec => []RecoveryInv
<1> QED
  BY RecoveryInitially, RecoveryInvStep, PTL DEF RecoverySpec

(* The variables of the recovery keep their types.                         *)
THEOREM RecoveryTypes == RecoverySpec => []RecoveryTypeOK
<1>1. RecoveryInv => RecoveryTypeOK
  BY DEF RecoveryInv
<1> QED
  BY <1>1, RecoveryCorrect, PTL

(* In its window a counter lets through what the policy says, and refuses  *)
(* nobody before, though requests race for its upsert (hit).               *)
THEOREM WindowExactCorrect == RecoverySpec => []WindowExact
<1>1. RecoveryInv => WindowExact
  BY DEF RecoveryInv, CounterInv
<1> QED
  BY <1>1, RecoveryCorrect, PTL

(* A code is answered MaxAttempts wrong guesses and, for every document    *)
(* saved out of date, at most as many again (verifyOtp, resetPassword).    *)
THEOREM GuessesBoundedCorrect == RecoverySpec => []GuessesBounded
<1>1. RecoveryInv => GuessesBounded
  BY DEF RecoveryInv, GuessInv
<1> QED
  BY <1>1, RecoveryCorrect, PTL

(* A code resets the password once, and only as the last one stored.       *)
THEOREM OneResetPerCodeCorrect == RecoverySpec => []OneResetPerCode
<1>1. RecoveryInv => OneResetPerCode
  BY DEF RecoveryInv, CodeInv
<1> QED
  BY <1>1, RecoveryCorrect, PTL

(* A lock is made of MaxFailed failures under way in one window.           *)
THEOREM LockMeansFailuresCorrect == RecoverySpec => []LockMeansFailures
<1>1. RecoveryInv => LockMeansFailures
  BY DEF RecoveryInv, LockInv
<1> QED
  BY <1>1, RecoveryCorrect, PTL

(* A request for a code is put off only while there is a code.             *)
THEOREM CooldownMeansCodeCorrect == RecoverySpec => []CooldownMeansCode
<1>1. RecoveryInv => CooldownMeansCode
  BY DEF RecoveryInv, CodeInv, CooldownMeansCode, CoolingDown
<1> QED
  BY <1>1, RecoveryCorrect, PTL

(* The lock of an account that is locked at t was there at every moment    *)
(* before: a login that read the time earlier finds it locked as well.     *)
LEMMA LockedEarlier ==
  ASSUME RecoveryTypeOK, NEW s \in Nat, NEW t \in Nat, s <= t, LockedAt(t)
  PROVE  LockedAt(s)
<1>1. account.lockedUntil \in Nat /\ account.lockedUntil > t
  BY AccountFields DEF LockedAt
<1> QED
  BY <1>1 DEF LockedAt

LEMMA LoginsKeepLockStep ==
  ASSUME RecoveryInv, [RecoveryNext]_recoveryVars, LockedAt(now),
         account'.lockedUntil # account.lockedUntil
  PROVE  /\ account'.lockedUntil = NoTime
         /\ \/ account'.password # account.password
            \/ ~account'.active
            \/ \E c \in Calls : SavesNoLock(c)
<1>0. RecoveryTypeOK /\ CounterInv /\ LockInv /\ CodeInv /\ now \in Nat
  BY AccountFields DEF RecoveryInv
<1>1. ASSUME NEW c \in Calls, RecoveryStep(c)
      PROVE  /\ account'.lockedUntil = NoTime
             /\ account'.password # account.password \/ SavesNoLock(c)
  <2>1. CASE Reads(c)
    BY <1>0, <2>1, ReadsMove
  <2>2. CASE Hit(c)
    BY <2>2 DEF Hit
  <2>3. CASE RecordFailure(c)
    BY <1>0, <2>3, RecordFailureEffect, LockedEarlier
  <2>4. CASE SignIn(c)
    BY <1>0, <2>4, SignInEffect, LockedEarlier
  <2>5. CASE SaveCode(c)
    BY <1>0, <2>5, SaveCodeEffect
  <2>6. CASE Withdraw(c) \/ SaveExhausted(c)
    BY <1>0, <2>6, CodeGoesEffect DEF LockSpared
  <2>7. CASE SaveWrong(c)
    BY <1>0, <2>7, SaveWrongEffect DEF LockSpared
  <2>8. CASE CommitReset(c)
    <3>1. /\ call[c].pc = "commit" /\ account'.password = c
          /\ account'.lockedUntil = NoTime
      BY <1>0, <2>8, CommitResetEffect
    <3>2. account.password # c
      BY <1>0, <3>1, PolicyTypes DEF CodeInv
    <3> QED
      BY <3>1, <3>2
  <2> QED
    BY <1>1, <2>1, <2>2, <2>3, <2>4, <2>5, <2>6, <2>7, <2>8 DEF RecoveryStep, Reads
<1>2. ASSUME NEW a \in Actions, NEW b \in Buckets, PurgeCounter(a, b) PROVE FALSE
  BY <1>2 DEF PurgeCounter
<1>3. CASE DeleteAccount
  BY <1>3, DeleteEffect
<1>4. CASE Tick \/ UNCHANGED recoveryVars
  BY <1>4 DEF Tick, recoveryVars
<1> QED
  BY <1>1, <1>2, <1>3, <1>4 DEF RecoveryNext

(* No login moves or lifts a lock while it lasts, however long ago it read *)
(* the time.  What ends a lock is a reset, the end of the account, or the  *)
(* save of a resetPassword that read its document before the lock.         *)
THEOREM LoginsKeepLockCorrect == RecoverySpec => LoginsKeepLock
<1>1. RecoveryInv /\ [RecoveryNext]_recoveryVars
        => [LockedAt(now) /\ account'.lockedUntil # account.lockedUntil
              => /\ account'.lockedUntil = NoTime
                 /\ \/ account'.password # account.password
                    \/ ~account'.active
                    \/ \E c \in Calls : SavesNoLock(c)]_recoveryVars
  BY LoginsKeepLockStep
<1> QED
  BY <1>1, RecoveryCorrect, PTL DEF RecoverySpec, LoginsKeepLock
=============================================================================
