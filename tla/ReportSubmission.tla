---------------------------- MODULE ReportSubmission ----------------------------
(***************************************************************************)
(* Reporting a post, an account or an issue, and the limits on it:         *)
(*                                                                         *)
(*   src/src/modules/reports/services/reports.service.ts                   *)
(*   src/src/modules/reports/services/report-rate-limit.service.ts         *)
(*   src/src/modules/reports/guards/report-issue-upload-rate-limit.guard.ts*)
(*                                                                         *)
(* A request is counted in fixed windows, by its reporter, by its address, *)
(* and by the targets of its reporter; the first counter that is over its  *)
(* limit ends it.  A report of a post or an account then takes the         *)
(* cooldown of its reporter and target, in the transaction that stores it. *)
(* An issue has a key instead, of which the database takes one, and its    *)
(* evidence is in Cloudinary before it is stored.                          *)
(*                                                                         *)
(* The counters of a window stay until its requests are over (they have a  *)
(* minute more, TTL_BUFFER_SECONDS), so that their removal makes no        *)
(* difference; neither has that of a cooldown which is over.  All clocks   *)
(* are one.                                                                *)
(***************************************************************************)
EXTENDS Naturals, FiniteSets

CONSTANTS
  Users,
  Addresses,
  Targets,         \* posts and accounts
  Descriptions,    \* of issues
  Calls,           \* requests, each of which is made once
  OwnerOf,         \* the author of a post, the account itself
  UserLimit, AddressLimit, TargetLimit,  \* the policies, by kind
  Window, DuplicateWindow,
  Cooldown,        \* by target: it differs between posts and accounts
  MaxTime,         \* the last moment of an instance
  NoAddress, NoUser, NoTarget

Kinds == {"content", "upload", "issue"}

ASSUME PolicyAssumption ==
  /\ UserLimit \in [Kinds -> Nat \ {0}]
  /\ AddressLimit \in [Kinds -> Nat \ {0}]
  /\ TargetLimit \in [Kinds -> Nat \ {0}]
  /\ \A k \in Kinds : UserLimit[k] <= AddressLimit[k] /\ TargetLimit[k] <= UserLimit[k]

ASSUME TimeAssumption ==
  /\ Window \in Nat \ {0} /\ DuplicateWindow \in Nat \ {0}
  /\ Cooldown \in [Targets -> Nat \ {0}]
  /\ MaxTime \in Nat

ASSUME SetAssumption ==
  /\ OwnerOf \in [Targets -> Users]
  /\ Targets \cap Descriptions = {}
  /\ Users \cap Addresses = {}
  /\ NoAddress \notin Addresses /\ NoUser \notin Users
  /\ NoTarget \notin Targets \cup Descriptions
  /\ IsFiniteSet(Calls)

VARIABLES
  now,
  call,      \* requests
  counter,   \* report_rate_limits: the counters there are
  cooldown,  \* report_cooldowns: nextAllowedAt
  reports,   \* reports and system_reports
  image,     \* requests whose evidence is in Cloudinary
  gone       \* accounts deleted

vars == <<now, call, counter, cooldown, reports, image, gone>>

-----------------------------------------------------------------------------
Dims == {"user", "address", "target"}

Times == 0 .. MaxTime

Buckets == Nat

(* A counter: kind and dimension, whose it is, and its bucket of time.     *)
Keys == Kinds \X Dims \X (Users \cup Addresses) \X Buckets

(* With two ghosts: the requests it let through, and those it stopped.      *)
Counter == [count : Nat, targets : SUBSET (Targets \cup Descriptions),
            passed : SUBSET Calls, refused : SUBSET Calls]

NoCounter == [count |-> 0, targets |-> {}, passed |-> {}, refused |-> {}]

Call == [pc : {"new", "count", "insert", "again", "check", "upload", "store",
               "clean", "acquire", "held", "over"},
         u : Users \cup {NoUser}, ip : Addresses \cup {NoAddress},
         t : Targets \cup Descriptions \cup {NoTarget},
         kind : Kinds, dim : Dims, bucket : Buckets,
         at : Times]   \* when it was checked, or took the cooldown

New == [pc |-> "new", u |-> NoUser, ip |-> NoAddress, t |-> NoTarget,
        kind |-> "content", dim |-> "user", bucket |-> 0, at |-> 0]

Report == [call : Calls, u : Users, t : Targets \cup Descriptions,
           at : Times, key : Nat]

TypeOK ==
  /\ now \in Times
  /\ call \in [Calls -> Call]
  /\ DOMAIN counter \subseteq Keys
  /\ counter \in [DOMAIN counter -> Counter]
  /\ cooldown \in [Users -> [Targets -> Nat]]
  /\ reports \subseteq Report
  /\ image \subseteq Calls
  /\ gone \subseteq Users

-----------------------------------------------------------------------------
Goto(c, pc) == call' = [call EXCEPT ![c].pc = pc]

(* What it was counting is of no more use.                                 *)
End(c) ==
  call' = [call EXCEPT ![c].pc = "over", ![c].kind = "content", ![c].dim = "user",
                       ![c].bucket = 0]

(* consume begins: its window is the one of now.                           *)
StartCounting(r, kind) ==
  [r EXCEPT !.pc = "count", !.kind = kind, !.dim = "user",
            !.bucket = now \div Window]

(* What follows once the counters of a kind have let the request through.  *)
AfterCounting ==
  [content |-> "acquire", upload |-> "check", issue |-> "upload"]

(* Its address is one the limiter can tell (normalizeIp).                  *)
HasAddress(r) == r.ip # NoAddress

(* Request r has passed a counter: the address is skipped when it is not   *)
(* known, and uploads have no targets.                                     *)
Passed(r) ==
  LET rest == (IF r.dim = "user" /\ HasAddress(r) THEN {"address"} ELSE {})
                \cup (IF r.dim # "target" /\ r.kind # "upload" THEN {"target"} ELSE {})
  IN  IF rest = {} THEN [r EXCEPT !.pc = AfterCounting[r.kind]]
      ELSE [r EXCEPT !.pc = "count",
                     !.dim = IF "address" \in rest THEN "address" ELSE "target"]

-----------------------------------------------------------------------------
(* Arrival                                                                 *)

(* Both accounts are there and the target is not the reporter's own.  That *)
(* one follows the author, and none blocks the other, is left out.         *)
MayReport(u, t) ==
  /\ u \notin gone /\ OwnerOf[t] \notin gone
  /\ OwnerOf[t] # u

CooldownOver(u, t) == cooldown[u][t] <= now

(* reportPost and reportUser up to the counters.                           *)
ReportContent(c, u, ip, t) ==
  /\ call[c].pc = "new"
  /\ MayReport(u, t) /\ CooldownOver(u, t)
  /\ call' = [call EXCEPT ![c] =
                StartCounting([@ EXCEPT !.u = u, !.ip = ip, !.t = t], "content")]
  /\ UNCHANGED <<now, counter, cooldown, reports, image, gone>>

(* The guard of the upload counts before the files are received.           *)
ReportIssue(c, u, ip, d) ==
  /\ call[c].pc = "new"
  /\ u \notin gone
  /\ call' = [call EXCEPT ![c] =
                StartCounting([@ EXCEPT !.u = u, !.ip = ip, !.t = d], "upload")]
  /\ UNCHANGED <<now, counter, cooldown, reports, image, gone>>

-----------------------------------------------------------------------------
(* The counters                                                            *)

Key(r) == <<r.kind, r.dim, IF r.dim = "address" THEN r.ip ELSE r.u, r.bucket>>

Limit(k) ==
  CASE k[2] = "user"    -> UserLimit[k[1]]
    [] k[2] = "address" -> AddressLimit[k[1]]
    [] k[2] = "target"  -> TargetLimit[k[1]]

Exists(k) == k \in DOMAIN counter

(* The upsert finds no counter of this window and will insert it.          *)
MissCounter(c) ==
  /\ call[c].pc = "count" /\ ~Exists(Key(call[c]))
  /\ Goto(c, "insert")
  /\ UNCHANGED <<now, counter, cooldown, reports, image, gone>>

(* Another request has inserted it since.                                  *)
DuplicateCounter(c) ==
  /\ call[c].pc = "insert" /\ Exists(Key(call[c]))
  /\ Goto(c, "again")
  /\ UNCHANGED <<now, counter, cooldown, reports, image, gone>>

(* The upsert writes now, or the update of the existing counter does.      *)
Writes(c) ==
  \/ call[c].pc = "count" /\ Exists(Key(call[c]))
  \/ call[c].pc = "insert" /\ ~Exists(Key(call[c]))
  \/ call[c].pc = "again"

(* Faulty variant: a duplicate counts what it would have inserted as well. *)
AmountTwice(r) == IF r.pc = "again" THEN 2 ELSE 1

(* What request r adds to the count.                                       *)
Amount(r) == 1

(* Counter k as r finds or inserts it, and after its $inc and $addToSet.   *)
Found(k) == IF Exists(k) THEN counter[k] ELSE NoCounter

Incremented(r) ==
  LET old == Found(Key(r)) IN
  [old EXCEPT !.count = @ + Amount(r),
              !.targets = IF r.dim = "target" THEN @ \cup {r.t} ELSE @]

Observed(r) ==
  IF r.dim = "target" THEN Cardinality(Incremented(r).targets)
  ELSE Incremented(r).count

Put(k, doc) ==
  counter' = [x \in DOMAIN counter \cup {k} |-> IF x = k THEN doc ELSE counter[x]]

(* Faulty variant: the counters are raised side by side.                   *)
HitAll(c) ==
  LET r == call[c]  k == Key(r)  new == Incremented(r) IN
  /\ Writes(c)
  /\ IF Observed(r) <= Limit(k) \/ r.dim = "user"
     THEN /\ Put(k, [new EXCEPT !.passed = @ \cup {c}])
          /\ call' = [call EXCEPT ![c] = Passed(r)]
     ELSE /\ Put(k, [new EXCEPT !.refused = @ \cup {c}])
          /\ End(c)
  /\ UNCHANGED <<now, cooldown, reports, image, gone>>

(* hitAndAssert                                                            *)
Hit(c) ==
  LET r == call[c]  k == Key(r)  new == Incremented(r) IN
  /\ Writes(c)
  /\ \/ /\ Observed(r) <= Limit(k)
        /\ Put(k, [new EXCEPT !.passed = @ \cup {c}])
        /\ call' = [call EXCEPT ![c] = Passed(r)]
     \/ /\ Observed(r) > Limit(k)
        /\ Put(k, [new EXCEPT !.refused = @ \cup {c}])
        /\ End(c)
  /\ UNCHANGED <<now, cooldown, reports, image, gone>>

-----------------------------------------------------------------------------
(* The transaction of a report                                             *)

(* Some transaction has written the cooldown of u and t.                   *)
CooldownHeld(u, t) == \E d \in Calls : call[d].pc = "held" /\ call[d].u = u /\ call[d].t = t

(* Faulty variant: no transaction, and no unique index.                    *)
AcquireUnguarded(c) ==
  LET r == call[c] IN
  /\ r.pc = "acquire"
  /\ CooldownOver(r.u, r.t)
  /\ call' = [call EXCEPT ![c].pc = "held", ![c].at = now]
  /\ UNCHANGED <<now, counter, cooldown, reports, image, gone>>

(* acquireReportCooldown.  While another holds the document it conflicts,  *)
(* and runs again or gives up.                                             *)
Acquire(c) ==
  LET r == call[c] IN
  /\ r.pc = "acquire" /\ ~CooldownHeld(r.u, r.t)
  /\ CooldownOver(r.u, r.t)
  /\ call' = [call EXCEPT ![c].pc = "held", ![c].at = now]
  /\ UNCHANGED <<now, counter, cooldown, reports, image, gone>>

ReportOf(c) ==
  [call |-> c, u |-> call[c].u, t |-> call[c].t, at |-> call[c].at, key |-> 0]

(* The report, the cooldown that names it, and the commit.                 *)
CommitReport(c) ==
  LET r == call[c] IN
  /\ r.pc = "held"
  /\ cooldown' = [cooldown EXCEPT ![r.u][r.t] = r.at + Cooldown[r.t]]
  /\ reports' = reports \cup {ReportOf(c)}
  /\ End(c)
  /\ UNCHANGED <<now, counter, image, gone>>

(* A transient error: the transaction runs again.                          *)
RunAgain(c) ==
  /\ call[c].pc = "held"
  /\ Goto(c, "acquire")
  /\ UNCHANGED <<now, counter, cooldown, reports, image, gone>>

-----------------------------------------------------------------------------
(* The issue                                                               *)

(* A report of the same issue was stored in the last DuplicateWindow.      *)
RecentDuplicate(r) ==
  \E i \in reports : i.u = r.u /\ i.t = r.t /\ now <= i.at + DuplicateWindow

(* reportIssue up to the counters: the reporter, the key, the duplicate.   *)
CheckIssue(c) ==
  LET r == call[c] IN
  /\ r.pc = "check"
  /\ r.u \notin gone /\ ~RecentDuplicate(r)
  /\ call' = [call EXCEPT ![c] = StartCounting([r EXCEPT !.at = now], "issue")]
  /\ UNCHANGED <<now, counter, cooldown, reports, image, gone>>

UploadEvidence(c) ==
  /\ call[c].pc = "upload"
  /\ image' = image \cup {c}
  /\ Goto(c, "store")
  /\ UNCHANGED <<now, counter, cooldown, reports, gone>>

(* dedupeKey, by the time of the check.                                    *)
DedupeKey(r) == r.at \div DuplicateWindow

(* Faulty variant: there is no unique index.                               *)
StoreAnyIssue(c) ==
  LET r == call[c] IN
  /\ r.pc = "store"
  /\ reports' = reports \cup
       {[call |-> c, u |-> r.u, t |-> r.t, at |-> now, key |-> DedupeKey(r)]}
  /\ End(c)
  /\ UNCHANGED <<now, counter, cooldown, image, gone>>

StoreIssue(c) ==
  LET r == call[c] IN
  /\ r.pc = "store"
  /\ \A i \in reports : ~(i.u = r.u /\ i.t = r.t /\ i.key = DedupeKey(r))
  /\ reports' = reports \cup
       {[call |-> c, u |-> r.u, t |-> r.t, at |-> now, key |-> DedupeKey(r)]}
  /\ End(c)
  /\ UNCHANGED <<now, counter, cooldown, image, gone>>

(* The key is taken, or the insertion fails.                               *)
NotStored(c) ==
  /\ call[c].pc = "store"
  /\ Goto(c, "clean")
  /\ UNCHANGED <<now, counter, cooldown, reports, image, gone>>

(* The evidence is deleted, or its deletion fails and is logged.           *)
CleanEvidence(c) ==
  /\ call[c].pc = "clean"
  /\ image' \in {image, image \ {c}}
  /\ End(c)
  /\ UNCHANGED <<now, counter, cooldown, reports, gone>>

-----------------------------------------------------------------------------
(* A request is refused by one of its checks, fails or dies; a transaction *)
(* that is open is undone.                                                 *)
Fail(c) ==
  /\ call[c].pc \notin {"new", "over"}
  /\ End(c)
  /\ UNCHANGED <<now, counter, cooldown, reports, image, gone>>

(* softDeleteUser removes the cooldowns of and against the account.  While *)
(* one of them is held it conflicts.                                       *)
DeleteAccount(u) ==
  /\ u \notin gone
  /\ \A v \in Users, t \in Targets : v = u \/ OwnerOf[t] = u => ~CooldownHeld(v, t)
  /\ gone' = gone \cup {u}
  /\ cooldown' = [v \in Users |-> [t \in Targets |->
                    IF v = u \/ OwnerOf[t] = u THEN 0 ELSE cooldown[v][t]]]
  /\ UNCHANGED <<now, call, counter, reports, image>>

Tick ==
  /\ now < MaxTime
  /\ now' = now + 1
  /\ UNCHANGED <<call, counter, cooldown, reports, image, gone>>

-----------------------------------------------------------------------------
Init ==
  /\ now = 0
  /\ call = [c \in Calls |-> New]
  /\ counter = [k \in {} |-> NoCounter]
  /\ cooldown = [u \in Users |-> [t \in Targets |-> 0]]
  /\ reports = {} /\ image = {} /\ gone = {}

Arrive(c) ==
  \E u \in Users, ip \in Addresses \cup {NoAddress} :
    \/ \E t \in Targets : ReportContent(c, u, ip, t)
    \/ \E d \in Descriptions : ReportIssue(c, u, ip, d)

Step(c) ==
  \/ Arrive(c)
  \/ MissCounter(c) \/ DuplicateCounter(c) \/ Hit(c)
  \/ Acquire(c) \/ CommitReport(c) \/ RunAgain(c)
  \/ CheckIssue(c) \/ UploadEvidence(c) \/ StoreIssue(c) \/ NotStored(c) \/ CleanEvidence(c)
  \/ Fail(c)

Next ==
  \/ \E c \in Calls : Step(c)
  \/ \E u \in Users : DeleteAccount(u)
  \/ Tick

Spec == Init /\ [][Next]_vars

-----------------------------------------------------------------------------
(* Properties                                                              *)

(* What counter k has let through: requests, or for targets the targets of *)
(* requests.                                                               *)
Reached(k) ==
  IF k[2] = "target" THEN {call[c].t : c \in counter[k].passed} ELSE counter[k].passed

(* A counter lets through as much as its policy says, and refuses nobody   *)
(* before that, though requests race to insert it (incrementCounter).      *)
QuotaExact ==
  \A k \in DOMAIN counter :
    /\ Cardinality(Reached(k)) <= Limit(k)
    /\ counter[k].refused # {} => Cardinality(Reached(k)) = Limit(k)

(* No account takes more of the quota of an address than its own quota     *)
(* lets it: the order of the counters in consume.                          *)
AddressSpared ==
  \A k \in DOMAIN counter : k[2] = "address" =>
    \A u \in Users :
      Cardinality({c \in counter[k].passed \cup counter[k].refused : call[c].u = u})
        <= UserLimit[k[1]]

(* Two reports of one target by one account are a cooldown apart, unless   *)
(* an account was deleted and the cooldown with it (acquireReportCooldown).*)
OneReportPerCooldown ==
  \A i, j \in reports :
    /\ i # j /\ i.u = j.u /\ i.t = j.t
    /\ i.t \in Targets /\ i.u \notin gone /\ OwnerOf[i.t] \notin gone
    => i.at + Cooldown[i.t] <= j.at \/ j.at + Cooldown[i.t] <= i.at

(* Two reports of one issue by one account are a window apart, or they were*)
(* under way together and checked in different windows (dedupeKey).        *)
IssuesApart ==
  \A i, j \in reports :
    i # j /\ i.u = j.u /\ i.t = j.t /\ i.t \in Descriptions =>
      \/ i.at + DuplicateWindow < j.at \/ j.at + DuplicateWindow < i.at
      \/ /\ i.key # j.key
         /\ call[i.call].at <= j.at /\ call[j.call].at <= i.at

(* Why they hold.  What a request knows fits what it does.                 *)
Counting == {"count", "insert", "again"}

CallOK(r) ==
  /\ r.pc \notin {"new", "over"} =>
       /\ r.u \in Users
       /\ r.kind = "content" => r.t \in Targets
       /\ r.kind # "content" => r.t \in Descriptions
  /\ r.pc \in {"acquire", "held"} => r.kind = "content"
  /\ r.pc \in {"check", "upload", "store", "clean"} => r.kind # "content"
  /\ r.pc \in {"upload", "store"} => r.kind = "issue"
  /\ r.kind = "issue" => r.pc \notin {"new", "check", "over"}
  /\ r.pc \in Counting /\ r.dim = "address" => HasAddress(r)
  /\ r.at <= now

(* The counters that are before a request: it is in none of them.          *)
DimsFrom(d) ==
  {"target"} \cup (IF d = "target" THEN {} ELSE {"address"})
             \cup (IF d = "user" THEN {"user"} ELSE {})

IsAhead(r, kind, dim) ==
  \/ r.pc = "new"
  \/ r.pc = "check" /\ kind = "issue"
  \/ r.pc \in Counting /\ kind = r.kind /\ dim \in DimsFrom(r.dim)
  \/ r.pc \in Counting /\ r.kind = "upload" /\ kind = "issue"

Counted(k) == counter[k].passed \cup counter[k].refused

(* Counters of requests tell how many they counted, those of targets which.*)
CounterOK(k) ==
  LET x == counter[k] IN
  /\ \A c \in Counted(k) : ~IsAhead(call[c], k[1], k[2])
  /\ x.passed \cap x.refused = {}
  /\ k[2] # "target" =>
       /\ x.count = Cardinality(x.passed) + Cardinality(x.refused)
       /\ IF x.count <= Limit(k) THEN x.refused = {}
          ELSE Cardinality(x.passed) = Limit(k)
  /\ k[2] = "target" =>
       /\ IsFiniteSet(x.targets)
       /\ IF Cardinality(x.targets) <= Limit(k)
          THEN x.refused = {} /\ Reached(k) = x.targets
          ELSE Cardinality(Reached(k)) = Limit(k)

(* Who is counted at an address has passed the counter of its account.     *)
PassedUser(r, c, kind, bucket) ==
  /\ r.u \in Users
  /\ Exists(<<kind, "user", r.u, bucket>>)
  /\ c \in counter[<<kind, "user", r.u, bucket>>].passed

AddressOK ==
  /\ \A c \in Calls : call[c].pc \in Counting /\ call[c].dim = "address" =>
       PassedUser(call[c], c, call[c].kind, call[c].bucket)
  /\ \A k \in DOMAIN counter : k[2] = "address" =>
       \A c \in Counted(k) : PassedUser(call[c], c, k[1], k[4])

(* A held cooldown is over, and held once; a stored one covers its report. *)
CooldownOK ==
  /\ \A c, d \in Calls :
       call[c].pc = "held" /\ call[d].pc = "held" /\ c # d =>
         call[c].u # call[d].u \/ call[c].t # call[d].t
  /\ \A c \in Calls : call[c].pc = "held" =>
       cooldown[call[c].u][call[c].t] <= call[c].at
  /\ \A i \in reports :
       i.t \in Targets /\ i.u \notin gone /\ OwnerOf[i.t] \notin gone =>
         i.at + Cooldown[i.t] <= cooldown[i.u][i.t]

(* A report is that of its request.  A request that passed the check has   *)
(* seen what was stored before, and what came later is not older.          *)
ReportsOK ==
  /\ \A i \in reports :
       /\ call[i.call].pc = "over"
       /\ i.at <= now
       /\ call[i.call].at <= i.at
       /\ i.t \in Descriptions => i.key = DedupeKey(call[i.call])
  /\ \A c \in Calls : call[c].kind = "issue" =>
       \A i \in reports : i.u = call[c].u /\ i.t = call[c].t =>
         i.at + DuplicateWindow < call[c].at \/ call[c].at <= i.at

ReportInv ==
  /\ TypeOK
  /\ \A c \in Calls : CallOK(call[c])
  /\ \A k \in DOMAIN counter : CounterOK(k)
  /\ AddressOK /\ CooldownOK /\ ReportsOK
  /\ OneReportPerCooldown /\ IssuesApart
=================================================================================
