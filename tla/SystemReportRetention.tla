----------------------- MODULE SystemReportRetention -----------------------
(***************************************************************************)
(* System reports at the end of their life: a run of the retention script  *)
(* claims a report that was closed long ago under a lease with a token,    *)
(* deletes the images of its evidence from Cloudinary, and then deletes    *)
(* the report.  What keeps failing is left to a person.  Meanwhile an      *)
(* administrator may change the status of a report.                        *)
(*                                                                         *)
(*   src/src/modules/retention/data-retention.service.ts                   *)
(*   src/src/modules/reports/services/report-status-transition.service.ts  *)
(*   src/src/modules/reports/schemas/system-report.schema.ts               *)
(*                                                                         *)
(* Time is a counter.  A run compares leases with the time of its start,   *)
(* and computes its own leases from it; only the check of ownership and    *)
(* the delay after a failure use the present time.                         *)
(***************************************************************************)
EXTENDS Integers, FiniteSets

CONSTANTS
  Reports,
  Workers,      \* runs of the retention script
  Admins,       \* requests that change a status
  NoReport,
  Retention,    \* RETENTION_DAYS.systemReports
  LockTime,     \* SYSTEM_REPORT_LOCK_MS
  RetryDelay,   \* SYSTEM_REPORT_RETRY_DELAY_MS
  MaxAttempts,  \* SYSTEM_REPORT_MAX_ATTEMPTS
  Budget,       \* documents a run may process
  MaxClock      \* bound: the end of time

ASSUME NoReportAssumption == NoReport \notin Reports
ASSUME TimesAssumption ==
  Retention \in Nat /\ LockTime \in Nat /\ RetryDelay \in Nat /\ MaxClock \in Nat
ASSUME LimitsAssumption == MaxAttempts \in Nat \ {0} /\ Budget \in Nat \ {0}

VARIABLES
  clock,
  report,  \* system_reports collection, with the images in Cloudinary
  worker,  \* what each run is doing
  edit     \* what each status change has read

vars == <<clock, report, worker, edit>>

NoTime == -1

Time == Nat \cup {NoTime}

Terminal == {"fixed", "closed"}

Statuses == {"pending", "investigating"} \cup Terminal

Report ==
  [stored      : BOOLEAN,
   status      : Statuses,
   terminalAt  : Time,
   cleanup     : {"pending", "processing", "failed", "manual_review"},
   lockedUntil : Time,
   token       : Nat,  \* retentionLockToken: the attempt it was drawn for, or 0
   attempts    : Nat,
   images      : {"all", "some", "none"}]

Worker ==
  {w \in [pc    : {"idle", "reconcile", "claim", "claimed", "owned", "removed",
                   "failing"},
          r     : Reports \cup {NoReport},
          token : Nat,
          now   : Nat,   \* the time its run started
          left  : Nat] : \* documents it may still process
     w.r \in Reports <=> w.pc \in {"claimed", "owned", "removed", "failing"}}

Edit == [r : Reports \cup {NoReport}, status : Statuses, terminalAt : Time,
         next : Statuses]

IdleWorker == [pc |-> "idle", r |-> NoReport, token |-> 0, now |-> 0, left |-> 0]

NoEdit == [r |-> NoReport, status |-> "pending", terminalAt |-> NoTime,
           next |-> "pending"]

TypeOK ==
  /\ clock \in Nat
  /\ report \in [Reports -> Report]
  /\ worker \in [Workers -> Worker]
  /\ edit \in [Admins -> Edit]

Goto(k, pc) == worker' = [worker EXCEPT ![k].pc = pc]

(* The loop goes on to its next document.                                  *)
NextDocument(k) ==
  worker' = [worker EXCEPT ![k].pc = "claim", ![k].r = NoReport, ![k].token = 0,
                           ![k].left = @ - 1]

-----------------------------------------------------------------------------
(* transitionSystemReport: read, then compare-and-set                      *)

ReadStatus(a, r, next) ==
  /\ edit[a].r = NoReport
  /\ report[r].stored
  /\ next # report[r].status
  /\ report[r].cleanup = "pending"
  /\ edit' = [edit EXCEPT ![a] = [r |-> r, status |-> report[r].status,
                                  terminalAt |-> report[r].terminalAt,
                                  next |-> next]]
  /\ UNCHANGED <<clock, report, worker>>

(* Faulty variant: the clean-up may have begun since the status was read.  *)
StillAsReadAnyCleanup(e) ==
  LET d == report[e.r]
  IN  d.stored /\ d.status = e.status /\ d.terminalAt = e.terminalAt

StillAsRead(e) ==
  LET d == report[e.r]
  IN  /\ d.stored /\ d.status = e.status /\ d.terminalAt = e.terminalAt
      /\ d.cleanup = "pending"

ChangeStatus(a) ==
  LET e == edit[a] IN
  /\ e.r \in Reports
  /\ StillAsRead(e)
  /\ report' = [report EXCEPT
       ![e.r].status = e.next,
       ![e.r].terminalAt = IF e.next \in Terminal THEN clock ELSE NoTime]
  /\ edit' = [edit EXCEPT ![a] = NoEdit]
  /\ UNCHANGED <<clock, worker>>

RefuseChange(a) ==
  /\ edit[a].r \in Reports
  /\ ~StillAsRead(edit[a])
  /\ edit' = [edit EXCEPT ![a] = NoEdit]
  /\ UNCHANGED <<clock, report, worker>>

-----------------------------------------------------------------------------
(* Which reports are due                                                   *)

Due(d, now) ==
  /\ d.stored
  /\ d.status \in Terminal
  /\ d.terminalAt # NoTime /\ d.terminalAt < now - Retention

Passed(t, now) == t = NoTime \/ t <= now

(* Faulty variant: a claim in progress may be taken at any time.           *)
EligibleWhileLocked(d, now) ==
  /\ Due(d, now)
  /\ d.attempts < MaxAttempts
  /\ \/ d.cleanup \in {"pending", "processing"}
     \/ d.cleanup = "failed" /\ Passed(d.lockedUntil, now)

Eligible(d, now) ==
  /\ Due(d, now)
  /\ d.attempts < MaxAttempts
  /\ \/ d.cleanup = "pending"
     \/ d.cleanup \in {"failed", "processing"} /\ Passed(d.lockedUntil, now)

(* Faulty variant: claims whose worker crashed are left out.               *)
ExhaustedFailedOnly(d, now) ==
  /\ Due(d, now)
  /\ d.attempts >= MaxAttempts
  /\ d.cleanup = "failed"

Exhausted(d, now) ==
  /\ Due(d, now)
  /\ d.attempts >= MaxAttempts
  /\ \/ d.cleanup = "failed"
     \/ d.cleanup = "processing" /\ Passed(d.lockedUntil, now)

-----------------------------------------------------------------------------
(* A run                                                                   *)

StartRun(k) ==
  /\ worker[k].pc = "idle"
  /\ worker' = [worker EXCEPT ![k] = [IdleWorker EXCEPT !.pc = "reconcile",
                                                       !.now = clock]]
  /\ UNCHANGED <<clock, report, edit>>

ToManualReview(d) ==
  [d EXCEPT !.cleanup = "manual_review", !.lockedUntil = NoTime, !.token = 0]

(* reconcileExhaustedSystemReportClaims: of the candidates it read, within *)
(* the budget, those that are exhausted still.  What it and the other      *)
(* collections leave of the budget, and the number of eligible reports     *)
(* counted before the loop, limit the reports the loop may claim.          *)
Reconcile(k) ==
  /\ worker[k].pc = "reconcile"
  /\ \E rs \in SUBSET {r \in Reports : Exhausted(report[r], worker[k].now)},
        left \in 0..Budget :
       /\ Cardinality(rs) + left <= Budget
       /\ report' = [r \in Reports |-> IF r \in rs THEN ToManualReview(report[r])
                                                  ELSE report[r]]
       /\ worker' = [worker EXCEPT ![k].pc = "claim", ![k].left = left]
  /\ UNCHANGED <<clock, edit>>

(* findOneAndUpdate takes the eligible report that was closed first.       *)
Claim(k) ==
  LET now == worker[k].now
      due == {r \in Reports : Eligible(report[r], now)}
  IN
  /\ worker[k].pc = "claim" /\ worker[k].left > 0
  /\ \E r \in due :
       LET token == report[r].attempts + 1 IN
       /\ \A s \in due : report[r].terminalAt <= report[s].terminalAt
       /\ report' = [report EXCEPT ![r].cleanup = "processing",
                                   ![r].lockedUntil = now + LockTime,
                                   ![r].token = token,
                                   ![r].attempts = token]
       /\ worker' = [worker EXCEPT ![k].pc = "claimed", ![k].r = r,
                                   ![k].token = token]
  /\ UNCHANGED <<clock, edit>>

EndRun(k) ==
  /\ worker[k].pc = "claim"
  /\ \/ worker[k].left = 0
     \/ \A r \in Reports : ~Eligible(report[r], worker[k].now)
  /\ worker' = [worker EXCEPT ![k] = IdleWorker]
  /\ UNCHANGED <<clock, report, edit>>

(* The report is still claimed with the token of this worker.              *)
Mine(w) ==
  LET d == report[w.r]
  IN  d.stored /\ d.cleanup = "processing" /\ d.token = w.token

CheckOwned(k) ==
  LET w == worker[k] IN
  /\ w.pc = "claimed"
  /\ IF Mine(w) /\ Due(report[w.r], w.now) /\ report[w.r].lockedUntil > clock
     THEN Goto(k, "owned")
     ELSE NextDocument(k)
  /\ UNCHANGED <<clock, report, edit>>

(* Every image is gone, whoever deleted it.                                *)
DeleteImages(k) ==
  /\ worker[k].pc = "owned"
  /\ report' = [report EXCEPT ![worker[k].r].images = "none"]
  /\ Goto(k, "removed")
  /\ UNCHANGED <<clock, edit>>

(* Faulty variant: the images that could not be deleted are not noticed.   *)
FailToDeleteImagesUnnoticed(k) ==
  LET r == worker[k].r IN
  /\ worker[k].pc = "owned"
  /\ \E left \in {"all", "some", "none"} :
       /\ left = "all" => report[r].images = "all"
       /\ left = "some" => report[r].images # "none"
       /\ report' = [report EXCEPT ![r].images = left]
  /\ Goto(k, "removed")
  /\ UNCHANGED <<clock, edit>>

(* deleteImages with throwOnError: some could not be deleted, or their     *)
(* deletion was not confirmed.                                             *)
FailToDeleteImages(k) ==
  LET r == worker[k].r IN
  /\ worker[k].pc = "owned"
  /\ \E left \in {"all", "some", "none"} :
       /\ left = "all" => report[r].images = "all"
       /\ left = "some" => report[r].images # "none"
       /\ report' = [report EXCEPT ![r].images = left]
  /\ Goto(k, "failing")
  /\ UNCHANGED <<clock, edit>>

DeleteReport(k) ==
  LET w == worker[k] IN
  /\ w.pc = "removed"
  /\ report' = IF Mine(w) /\ Due(report[w.r], w.now)
               THEN [report EXCEPT ![w.r].stored = FALSE]
               ELSE report
  /\ NextDocument(k)
  /\ UNCHANGED <<clock, edit>>

(* The check of ownership or the deletion throws.                          *)
FailInTry(k) ==
  /\ worker[k].pc \in {"claimed", "removed"}
  /\ Goto(k, "failing")
  /\ UNCHANGED <<clock, report, edit>>

Released(d, token) ==
  IF token >= MaxAttempts
  THEN ToManualReview(d)
  ELSE [d EXCEPT !.cleanup = "failed", !.lockedUntil = clock + RetryDelay,
                 !.token = 0]

(* Faulty variant: the release does not look at the token.                 *)
ReleaseAnyClaim(k) ==
  LET w == worker[k] IN
  /\ w.pc = "failing"
  /\ report' = IF report[w.r].stored
               THEN [report EXCEPT ![w.r] = Released(@, w.token)]
               ELSE report
  /\ NextDocument(k)
  /\ UNCHANGED <<clock, edit>>

Release(k) ==
  LET w == worker[k] IN
  /\ w.pc = "failing"
  /\ report' = IF Mine(w) THEN [report EXCEPT ![w.r] = Released(@, w.token)]
                          ELSE report
  /\ NextDocument(k)
  /\ UNCHANGED <<clock, edit>>

(* The process dies, or MongoDB fails where nothing catches it.            *)
Crash(k) ==
  /\ worker[k].pc # "idle"
  /\ worker' = [worker EXCEPT ![k] = IdleWorker]
  /\ UNCHANGED <<clock, report, edit>>

Tick ==
  /\ clock < MaxClock
  /\ clock' = clock + 1
  /\ UNCHANGED <<report, worker, edit>>

-----------------------------------------------------------------------------
Init ==
  /\ clock = 0
  /\ report = [r \in Reports |->
       [stored |-> TRUE, status |-> "pending", terminalAt |-> NoTime,
        cleanup |-> "pending", lockedUntil |-> NoTime, token |-> 0,
        attempts |-> 0, images |-> "all"]]
  /\ worker = [k \in Workers |-> IdleWorker]
  /\ edit = [a \in Admins |-> NoEdit]

RunStep(k) ==
  \/ StartRun(k) \/ Reconcile(k) \/ Claim(k) \/ EndRun(k)
  \/ CheckOwned(k) \/ DeleteImages(k) \/ FailToDeleteImages(k)
  \/ DeleteReport(k) \/ FailInTry(k) \/ Release(k) \/ Crash(k)

Next ==
  \/ \E k \in Workers : RunStep(k)
  \/ \E a \in Admins :
       \/ \E r \in Reports, next \in Statuses : ReadStatus(a, r, next)
       \/ ChangeStatus(a) \/ RefuseChange(a)
  \/ Tick

Spec == Init /\ [][Next]_vars

-----------------------------------------------------------------------------
(* Properties                                                              *)

(* A report that is or may become open again has all of its evidence: once *)
(* a clean-up has begun to delete images, no change of status that read    *)
(* the report before commits after it (report-status-transition.service.ts *)
(* :103).                                                                  *)
EvidenceKept ==
  \A r \in Reports :
    LET d == report[r] IN
    d.stored /\ d.images # "all" =>
      d.cleanup # "pending" /\ Due(d, clock)

(* A report is deleted only after its last image: none is left behind that *)
(* no document names (data-retention.service.ts:643).                      *)
NoOrphanedEvidence ==
  \A r \in Reports : ~report[r].stored => report[r].images = "none"

(* Evidence follows its report, in both directions.                        *)
EvidenceFollowsReport == EvidenceKept /\ NoOrphanedEvidence

(* No report is stranded: whatever crashed or failed, one that is due will *)
(* be taken by a later run, or is with a person.  The two filters leave no *)
(* gap between them.                                                       *)
NoReportStranded ==
  \A r \in Reports :
    LET d     == report[r]
        later == clock + LockTime + RetryDelay + Retention + 1
    IN  d.stored /\ d.status \in Terminal =>
          \/ Eligible(d, later) \/ Exhausted(d, later)
          \/ d.cleanup = "manual_review"

(* Why.  The token of a claim is its attempt, so a worker that was         *)
(* overtaken has a smaller one; a worker that is to delete a report has    *)
(* deleted its images.                                                     *)
ReportInv(d) ==
  /\ d.token = IF d.cleanup = "processing" THEN d.attempts ELSE 0
  /\ d.attempts <= MaxAttempts
  /\ d.cleanup = "pending" => d.attempts = 0 /\ (d.stored => d.images = "all")
  /\ d.cleanup \in {"processing", "manual_review"} => d.attempts > 0
  /\ d.cleanup = "failed" => d.attempts > 0 /\ d.attempts < MaxAttempts
  /\ d.cleanup # "pending" => Due([d EXCEPT !.stored = TRUE], clock)
  /\ d.status \in Terminal <=> d.terminalAt # NoTime
  /\ d.terminalAt <= clock
  /\ d.lockedUntil <= clock + LockTime + RetryDelay

WorkerInv(k) ==
  LET w == worker[k] IN
  /\ w.now <= clock
  /\ w.r \in Reports =>
       /\ w.token \in 1..report[w.r].attempts
       /\ w.left > 0
       /\ report[w.r].cleanup # "pending"
       /\ \A j \in Workers : worker[j].r = w.r /\ worker[j].token = w.token => j = k
  /\ w.pc = "removed" => report[w.r].images = "none"

RetentionInv ==
  /\ TypeOK
  /\ \A r \in Reports : ReportInv(report[r])
  /\ \A k \in Workers : WorkerInv(k)
  /\ NoOrphanedEvidence

(* A claim is honoured while its lease lasts: until then nobody but the    *)
(* worker that holds the token decides about the report, not even one that *)
(* claimed it earlier and fails late.                                      *)
Honoured ==
  \A r \in Reports :
    LET d == report[r] IN
    d.stored /\ d.cleanup = "processing" /\ d.lockedUntil > clock =>
      \/ report'[r] = d
      \/ \E left \in {"some", "none"} : report'[r] = [d EXCEPT !.images = left]
      \/ \E k \in Workers :
           /\ worker[k].r = r /\ worker[k].token = d.token
           /\ worker'[k].pc = "claim"

(* What was handed to a person is not touched by a run again.              *)
Stays ==
  \A r \in Reports :
    report[r].stored /\ report[r].cleanup = "manual_review" =>
      /\ report'[r].stored
      /\ report'[r].cleanup = "manual_review"

(* Whose decision a report is, stays so: a worker's until its lease ends,  *)
(* and a person's for good.                                                *)
DecisionsHonoured == [][Honoured /\ Stays]_vars
=============================================================================
