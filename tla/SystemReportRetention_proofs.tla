-------------------- MODULE SystemReportRetention_proofs --------------------
(***************************************************************************)
(* Proofs of the safety properties of SystemReportRetention, for every set *)
(* of reports, runs and administrators, every limit and every length of a  *)
(* lease.  The inductive invariant is RetentionInv: the token of a claim   *)
(* is its attempt, so a worker that was overtaken holds a smaller one.     *)
(***************************************************************************)
EXTENDS SystemReportRetention, TLAPS

(* Time only grows.                                                        *)
LEMMA ClockStep ==
  ASSUME TypeOK, [Next]_vars
  PROVE  clock' \in Nat /\ clock <= clock'
<1>1. CASE Tick
  BY <1>1 DEF Tick, TypeOK
<1>2. CASE UNCHANGED clock
  BY <1>2 DEF TypeOK
<1> QED
  BY <1>1, <1>2
  DEF Next, vars, RunStep, StartRun, Reconcile, Claim, EndRun, CheckOwned,
      DeleteImages, FailToDeleteImages, DeleteReport, FailInTry, Release,
      Crash, ReadStatus, ChangeStatus, RefuseChange

(* What a run that has no report looks like.                               *)
LEMMA IdleIsWorker ==
  /\ IdleWorker \in Worker /\ IdleWorker.r = NoReport /\ IdleWorker.now = 0
  /\ NoReport \notin Reports
BY NoReportAssumption DEF IdleWorker, Worker

-----------------------------------------------------------------------------
(* Steps that claim nothing                                                *)

(* What such a step may do to a run: it gives its report up, or goes on    *)
(* with it, and is past the images only when they are gone.                *)
Continues(k) ==
  /\ worker'[k] \in Worker
  /\ worker'[k].now <= clock
  /\ worker'[k].r \in Reports =>
       /\ worker'[k].r = worker[k].r
       /\ worker'[k].token = worker[k].token
       /\ worker'[k].left = worker[k].left
  /\ worker'[k].pc = "removed" => report'[worker'[k].r].images = "none"

(* What such a step may do to a report, for the runs that work on it.      *)
Advances(r) ==
  /\ report'[r].attempts = report[r].attempts
  /\ report[r].cleanup # "pending" => report'[r].cleanup # "pending"
  /\ report[r].images = "none" => report'[r].images = "none"

(* Runs that keep their claims keep what the invariant says of them.       *)
LEMMA WorkersContinue ==
  ASSUME RetentionInv, clock' \in Nat, clock <= clock',
         \A k \in Workers : Continues(k),
         \A r \in Reports : Advances(r)
  PROVE  \A k \in Workers : WorkerInv(k)'
<1> SUFFICES ASSUME NEW k \in Workers PROVE WorkerInv(k)'
  OBVIOUS
<1>1. /\ clock \in Nat /\ WorkerInv(k)
      /\ worker[k] \in Worker /\ worker'[k] \in Worker
  BY DEF RetentionInv, TypeOK, Continues
<1>2. worker'[k].now <= clock'
  BY <1>1 DEF Continues, Worker
<1>3. ASSUME worker'[k].r \in Reports
      PROVE  /\ worker'[k].token \in 1..report'[worker'[k].r].attempts
             /\ worker'[k].left > 0
             /\ report'[worker'[k].r].cleanup # "pending"
             /\ \A j \in Workers : worker'[j].r = worker'[k].r
                                     /\ worker'[j].token = worker'[k].token => j = k
  <2>1. /\ worker[k].r \in Reports
        /\ worker'[k].r = worker[k].r
        /\ worker'[k].token = worker[k].token
        /\ worker'[k].left = worker[k].left
    BY <1>3 DEF Continues
  <2>2. /\ worker[k].token \in 1..report[worker[k].r].attempts
        /\ worker[k].left > 0
        /\ report[worker[k].r].cleanup # "pending"
        /\ \A j \in Workers : worker[j].r = worker[k].r
                                /\ worker[j].token = worker[k].token => j = k
    BY <1>1, <2>1 DEF WorkerInv
  <2>3. \A j \in Workers : worker'[j].r = worker'[k].r =>
          worker'[j].r = worker[j].r /\ worker'[j].token = worker[j].token
    BY <1>3 DEF Continues
  <2>4. Advances(worker[k].r)
    BY <2>1
  <2> QED
    BY <2>1, <2>2, <2>3, <2>4 DEF Advances
<1>4. worker'[k].pc = "removed" => report'[worker'[k].r].images = "none"
  BY DEF Continues
<1> QED
  BY <1>2, <1>3, <1>4 DEF WorkerInv

(* A run that is left alone goes on, when the reports only advance.        *)
LEMMA OthersContinue ==
  ASSUME RetentionInv, NEW k \in Workers, worker'[k] = worker[k],
         \A r \in Reports : Advances(r)
  PROVE  Continues(k)
<1>1. worker[k] \in Worker /\ WorkerInv(k)
  BY DEF RetentionInv, TypeOK
<1>2. worker[k].pc = "removed" => worker[k].r \in Reports
  BY <1>1 DEF Worker
<1> QED
  BY <1>1, <1>2 DEF Continues, WorkerInv, Advances

(* What the invariant says of a report stays true as time goes by.         *)
LEMMA ReportLater ==
  ASSUME RetentionInv, clock' \in Nat, clock <= clock',
         NEW r \in Reports, report'[r] = report[r]
  PROVE  ReportInv(report[r])'
<1>1. clock \in Nat /\ report[r] \in Report /\ ReportInv(report[r])
  BY DEF RetentionInv, TypeOK
<1>2. PICK d \in Report : d = report[r]
  BY <1>1
<1>3. report'[r] = d /\ ReportInv(d)
  BY <1>1, <1>2
<1> QED
  BY <1>1, <1>3, TimesAssumption DEF ReportInv, Due, Report, Time, NoTime

-----------------------------------------------------------------------------
(* What each step does to a report                                         *)

(* A report as the invariant wants it.                                     *)
Sound(d) ==
  /\ d \in Report
  /\ ReportInv(d)
  /\ ~d.stored => d.images = "none"

(* A step that changes one report leaves the others sound.                 *)
LEMMA OneReport ==
  ASSUME RetentionInv, NEW r \in Reports, NEW d, report' = [report EXCEPT ![r] = d], Sound(d)
  PROVE  /\ report' \in [Reports -> Report]
         /\ \A s \in Reports : Sound(report'[s])
<1>1. report \in [Reports -> Report] /\ clock \in Nat
  BY DEF RetentionInv, TypeOK
<1>2. report'[r] = d /\ \A s \in Reports \ {r} : report'[s] = report[s]
  BY <1>1
<1>3. \A s \in Reports : Sound(report[s])
  BY DEF RetentionInv, TypeOK, NoOrphanedEvidence, Sound
<1>4. report' \in [Reports -> Report]
  BY <1>1 DEF Sound
<1> QED
  BY <1>2, <1>3, <1>4

(* The report of a run at work is in the middle of its clean-up.           *)
LEMMA AtWork ==
  ASSUME RetentionInv, NEW k \in Workers, worker[k].r \in Reports
  PROVE  LET w == worker[k] IN
         /\ w \in Worker /\ w.token \in 1..report[w.r].attempts
         /\ report[w.r] \in Report /\ ReportInv(report[w.r])
         /\ report[w.r].cleanup # "pending"
         /\ ~report[w.r].stored => report[w.r].images = "none"
         /\ w.pc = "removed" => report[w.r].images = "none"
BY DEF RetentionInv, TypeOK, WorkerInv, NoOrphanedEvidence

(* Images disappear, and never come back.                                  *)
LEMMA ImagesStep ==
  ASSUME RetentionInv, NEW k \in Workers,
         DeleteImages(k) \/ FailToDeleteImages(k)
  PROVE  /\ report' \in [Reports -> Report]
         /\ \A s \in Reports : Sound(report'[s]) /\ Advances(s)
         /\ DeleteImages(k) => report'[worker[k].r].images = "none"
<1>1. worker[k] \in Worker /\ worker[k].pc = "owned" /\ clock' = clock
  BY DEF RetentionInv, TypeOK, DeleteImages, FailToDeleteImages
<1>2. PICK r \in Reports : r = worker[k].r
  BY <1>1 DEF Worker
<1>3. PICK c \in Report : c = report[r]
  BY <1>2, AtWork
<1>4. /\ ReportInv(c) /\ c.cleanup # "pending"
      /\ ~c.stored => c.images = "none"
  BY <1>2, <1>3, AtWork
<1>5. PICK left \in {"all", "some", "none"} :
        /\ report' = [report EXCEPT ![r].images = left]
        /\ c.images = "none" => left = "none"
        /\ DeleteImages(k) => left = "none"
  BY <1>2, <1>3 DEF DeleteImages, FailToDeleteImages
<1>6. PICK d : d = [c EXCEPT !.images = left]
  OBVIOUS
<1>7. report' = [report EXCEPT ![r] = d]
  BY <1>3, <1>5, <1>6
<1>8. ReportInv(d)
  BY <1>1, <1>4, <1>6 DEF ReportInv, Due, Report
<1>9. Sound(d)
  BY <1>4, <1>5, <1>6, <1>8 DEF Sound, Report
<1>10. /\ report' \in [Reports -> Report]
       /\ \A s \in Reports : Sound(report'[s])
  BY <1>1, <1>7, <1>9, OneReport
<1>11. report'[r] = d /\ \A s \in Reports \ {r} : report'[s] = report[s]
  BY <1>7 DEF RetentionInv, TypeOK
<1>12. \A s \in Reports : Advances(s)
  BY <1>3, <1>4, <1>5, <1>6, <1>11 DEF Advances, Report
<1> QED
  BY <1>2, <1>5, <1>6, <1>10, <1>11, <1>12 DEF Report

(* A report is deleted only when no image is left.                         *)
LEMMA DeleteStep ==
  ASSUME RetentionInv, NEW k \in Workers, DeleteReport(k), report' # report
  PROVE  /\ report' \in [Reports -> Report]
         /\ \A s \in Reports : Sound(report'[s]) /\ Advances(s)
<1>1. worker[k] \in Worker /\ worker[k].pc = "removed" /\ clock' = clock
  BY DEF RetentionInv, TypeOK, DeleteReport
<1>2. PICK r \in Reports : r = worker[k].r
  BY <1>1 DEF Worker
<1>3. PICK c \in Report : c = report[r]
  BY <1>2, AtWork
<1>4. ReportInv(c) /\ c.images = "none" /\ c.cleanup # "pending"
  BY <1>1, <1>2, <1>3, AtWork
<1>5. PICK d : d = [c EXCEPT !.stored = FALSE]
  OBVIOUS
<1>6. report' = [report EXCEPT ![r] = d]
  BY <1>2, <1>3, <1>5 DEF DeleteReport
<1>7. ReportInv(d)
  BY <1>1, <1>4, <1>5 DEF ReportInv, Due, Report
<1>8. Sound(d)
  BY <1>4, <1>5, <1>7 DEF Sound, Report
<1>9. report'[r] = d /\ \A s \in Reports \ {r} : report'[s] = report[s]
  BY <1>6 DEF RetentionInv, TypeOK
<1>10. \A s \in Reports : Advances(s)
  BY <1>3, <1>4, <1>5, <1>9 DEF Advances, Report
<1> QED
  BY <1>1, <1>6, <1>8, <1>10, OneReport

(* A released claim has failed, or is given to a person.                   *)
LEMMA ReleaseStep ==
  ASSUME RetentionInv, NEW k \in Workers, Release(k), report' # report
  PROVE  /\ report' \in [Reports -> Report]
         /\ \A s \in Reports : Sound(report'[s]) /\ Advances(s)
<1>1. worker[k] \in Worker /\ worker[k].pc = "failing" /\ clock' = clock
  BY DEF RetentionInv, TypeOK, Release
<1>2. PICK r \in Reports : r = worker[k].r
  BY <1>1 DEF Worker
<1>3. PICK c \in Report : c = report[r]
  BY <1>2, AtWork
<1>4. PICK token : token = worker[k].token
  OBVIOUS
<1>5. /\ report' = [report EXCEPT ![r] = Released(@, token)]
      /\ c.stored /\ c.cleanup = "processing" /\ c.token = token
  BY <1>2, <1>3, <1>4 DEF Release, Mine
<1>6. ReportInv(c) /\ clock \in Nat
  BY <1>2, <1>3, AtWork DEF RetentionInv, TypeOK
<1>7. PICK d : d = Released(c, token)
  OBVIOUS
<1>8. report' = [report EXCEPT ![r] = d]
  BY <1>3, <1>5, <1>7
<1>9. token = c.attempts /\ c.attempts \in Nat
  BY <1>5, <1>6 DEF ReportInv, Report
<1>10. /\ d \in Report
       /\ d.stored = c.stored /\ d.status = c.status
       /\ d.terminalAt = c.terminalAt /\ d.attempts = c.attempts
       /\ d.images = c.images /\ d.token = 0
       /\ \/ d.cleanup = "manual_review" /\ d.lockedUntil = NoTime
          \/ /\ d.cleanup = "failed" /\ d.lockedUntil = clock + RetryDelay
             /\ c.attempts < MaxAttempts
  <2>1. CASE token >= MaxAttempts
    <3>1. d = ToManualReview(c)
      BY <1>7, <2>1 DEF Released
    <3> QED
      BY <3>1 DEF ToManualReview, Report, Time
  <2>2. CASE ~(token >= MaxAttempts)
    <3>1. d = [c EXCEPT !.cleanup = "failed",
                        !.lockedUntil = clock + RetryDelay, !.token = 0]
      BY <1>7, <2>2 DEF Released
    <3>2. c.attempts < MaxAttempts /\ clock + RetryDelay \in Nat
      BY <1>6, <1>9, <2>2, LimitsAssumption, TimesAssumption
    <3> QED
      BY <3>1, <3>2 DEF Report, Time
  <2> QED
    BY <2>1, <2>2
<1>11. ReportInv(d)
  <2>1. /\ d.attempts <= MaxAttempts /\ d.attempts > 0
        /\ d.status \in Terminal <=> d.terminalAt # NoTime
        /\ d.terminalAt <= clock
        /\ Due([d EXCEPT !.stored = TRUE], clock)
    BY <1>5, <1>6, <1>9, <1>10, <1>3 DEF ReportInv, Due, Report
  <2>2. d.lockedUntil <= clock + LockTime + RetryDelay
    BY <1>6, <1>10, TimesAssumption DEF NoTime
  <2>3. Due([d EXCEPT !.stored = TRUE], clock')
    BY <1>1, <2>1
  <2> QED
    BY <1>1, <1>10, <2>1, <2>2, <2>3 DEF ReportInv
<1>12. Sound(d)
  BY <1>5, <1>10, <1>11 DEF Sound
<1>13. report'[r] = d /\ \A s \in Reports \ {r} : report'[s] = report[s]
  BY <1>8 DEF RetentionInv, TypeOK
<1>14. \A s \in Reports : Advances(s)
  BY <1>3, <1>10, <1>13 DEF Advances
<1> QED
  BY <1>1, <1>8, <1>12, <1>14, OneReport

(* A report nobody changed is sound.                                       *)
LEMMA UnchangedSound ==
  ASSUME RetentionInv, NEW r \in Reports, report'[r] = report[r]
  PROVE  Sound(report'[r]) /\ Advances(r)
<1>1. Sound(report[r])
  BY DEF RetentionInv, TypeOK, NoOrphanedEvidence, Sound
<1>2. Advances(r)
  BY DEF Advances
<1> QED
  BY <1>1, <1>2

(* What is left to a person has used all of its attempts.                  *)
LEMMA ReconcileStep ==
  ASSUME RetentionInv, NEW k \in Workers, Reconcile(k)
  PROVE  /\ report' \in [Reports -> Report]
         /\ \A s \in Reports : Sound(report'[s]) /\ Advances(s)
<1>1. /\ clock' = clock /\ clock \in Nat /\ worker[k].now \in Nat
      /\ worker[k].now <= clock /\ report \in [Reports -> Report]
  BY DEF RetentionInv, TypeOK, WorkerInv, Reconcile, Worker
<1>2. PICK rs \in SUBSET {r \in Reports : Exhausted(report[r], worker[k].now)} :
        report' = [r \in Reports |-> IF r \in rs THEN ToManualReview(report[r])
                                                ELSE report[r]]
  BY DEF Reconcile
<1>3. ASSUME NEW s \in Reports
      PROVE  Sound(report'[s]) /\ Advances(s)
  <2>1. CASE s \notin rs
    BY <1>1, <1>2, <2>1, UnchangedSound
  <2>2. CASE s \in rs
    <3>1. PICK c \in Report : c = report[s]
      BY <1>1
    <3>2. PICK d : d = ToManualReview(c)
      OBVIOUS
    <3>3. report'[s] = d
      BY <1>2, <2>2, <3>1, <3>2
    <3>4. /\ Exhausted(c, worker[k].now) /\ ReportInv(c)
      BY <1>2, <2>2, <3>1 DEF RetentionInv
    <3>5. /\ d \in Report /\ d.cleanup = "manual_review"
          /\ d.stored = c.stored /\ d.status = c.status
          /\ d.terminalAt = c.terminalAt /\ d.attempts = c.attempts
          /\ d.images = c.images /\ d.token = 0 /\ d.lockedUntil = NoTime
      BY <3>2 DEF ToManualReview, Report, Time
    <3>6. /\ c.stored /\ c.cleanup # "pending" /\ c.attempts > 0
          /\ c.status \in Terminal
          /\ c.terminalAt # NoTime /\ c.terminalAt < clock - Retention
      BY <1>1, <3>4, TimesAssumption, LimitsAssumption
      DEF Exhausted, Due, Report, Time, NoTime
    <3>7. ReportInv(d)
      BY <1>1, <3>4, <3>5, <3>6, TimesAssumption
      DEF ReportInv, Due, Report, Time, NoTime
    <3>8. Sound(d)
      BY <3>5, <3>6, <3>7 DEF Sound
    <3>9. Advances(s)
      BY <3>1, <3>3, <3>5, <3>6 DEF Advances
    <3> QED
      BY <3>3, <3>8, <3>9
  <2> QED
    BY <2>1, <2>2
<1>4. report' \in [Reports -> Report]
  BY <1>2, <1>3 DEF Sound
<1> QED
  BY <1>3, <1>4

(* A claim is a new attempt, within the limit.                             *)
LEMMA ClaimStep ==
  ASSUME RetentionInv, NEW k \in Workers, NEW r \in Reports,
         Eligible(report[r], worker[k].now), clock' = clock,
         report' = [report EXCEPT ![r].cleanup = "processing",
                                  ![r].lockedUntil = worker[k].now + LockTime,
                                  ![r].token = report[r].attempts + 1,
                                  ![r].attempts = report[r].attempts + 1]
  PROVE  /\ report' \in [Reports -> Report]
         /\ \A s \in Reports : Sound(report'[s])
<1>1. /\ clock \in Nat /\ worker[k].now \in Nat /\ worker[k].now <= clock
      /\ report \in [Reports -> Report]
  BY DEF RetentionInv, TypeOK, WorkerInv, Worker
<1>2. PICK c \in Report : c = report[r]
  BY <1>1
<1>3. PICK t \in Nat : t = worker[k].now
  BY <1>1
<1>4. PICK d : d = [c EXCEPT !.cleanup = "processing", !.lockedUntil = t + LockTime,
                             !.token = c.attempts + 1, !.attempts = c.attempts + 1]
  OBVIOUS
<1>5. report' = [report EXCEPT ![r] = d]
  BY <1>1, <1>2, <1>3, <1>4
<1>6. /\ d \in Report /\ d.cleanup = "processing" /\ d.lockedUntil = t + LockTime
      /\ d.stored = c.stored /\ d.status = c.status
      /\ d.terminalAt = c.terminalAt /\ d.attempts = c.attempts + 1
      /\ d.images = c.images /\ d.token = c.attempts + 1
  <2>1. t + LockTime \in Time /\ c.attempts + 1 \in Nat
    BY TimesAssumption DEF Report, Time
  <2> QED
    BY <1>4, <2>1 DEF Report
<1>7. /\ c.stored /\ c.status \in Terminal /\ c.attempts < MaxAttempts
      /\ c.terminalAt # NoTime /\ c.terminalAt < clock - Retention
      /\ c.attempts \in Nat /\ c.terminalAt \in Time
  BY <1>1, <1>2, <1>3, TimesAssumption
  DEF Eligible, Due, Report, Time, NoTime
<1>8. ReportInv(d)
  BY <1>1, <1>3, <1>6, <1>7, TimesAssumption, LimitsAssumption
  DEF ReportInv, Due, Report, Time, NoTime
<1>9. Sound(d)
  BY <1>6, <1>7, <1>8 DEF Sound
<1> QED
  BY <1>5, <1>9, OneReport

(* A status changes only before the clean-up has begun.                    *)
LEMMA ChangeStep ==
  ASSUME RetentionInv, NEW a \in Admins, ChangeStatus(a)
  PROVE  /\ report' \in [Reports -> Report]
         /\ \A s \in Reports : Sound(report'[s]) /\ Advances(s)
<1>1. /\ clock' = clock /\ clock \in Nat /\ report \in [Reports -> Report]
      /\ edit[a] \in Edit /\ edit[a].r \in Reports
  BY DEF RetentionInv, TypeOK, ChangeStatus
<1>2. PICK r \in Reports, next \in Statuses : r = edit[a].r /\ next = edit[a].next
  BY <1>1 DEF Edit
<1>3. PICK c \in Report : c = report[r]
  BY <1>1
<1>4. PICK d : d = [c EXCEPT !.status = next,
                             !.terminalAt = IF next \in Terminal THEN clock
                                                                 ELSE NoTime]
  OBVIOUS
<1>5. report' = [report EXCEPT ![r] = d]
  BY <1>1, <1>2, <1>3, <1>4 DEF ChangeStatus
<1>6. c.cleanup = "pending" /\ c.stored /\ ReportInv(c)
  BY <1>2, <1>3 DEF ChangeStatus, StillAsRead, RetentionInv
<1>7. /\ d \in Report /\ d.status = next
      /\ d.terminalAt = IF next \in Terminal THEN clock ELSE NoTime
      /\ d.stored = c.stored /\ d.cleanup = c.cleanup /\ d.token = c.token
      /\ d.attempts = c.attempts /\ d.images = c.images
      /\ d.lockedUntil = c.lockedUntil
  BY <1>1, <1>4 DEF Report, Time
<1>8. ReportInv(d)
  BY <1>1, <1>6, <1>7 DEF ReportInv, NoTime
<1>9. Sound(d)
  BY <1>6, <1>7, <1>8 DEF Sound
<1>10. report'[r] = d /\ \A s \in Reports \ {r} : report'[s] = report[s]
  BY <1>1, <1>5
<1>11. \A s \in Reports : Advances(s)
  BY <1>3, <1>7, <1>10 DEF Advances
<1> QED
  BY <1>1, <1>5, <1>9, <1>11, OneReport

-----------------------------------------------------------------------------
(* What each step does to the runs                                         *)

Fields ==
  [pc : {"idle", "reconcile", "claim", "claimed", "owned", "removed", "failing"},
   r : Reports \cup {NoReport}, token : Nat, now : Nat, left : Nat]

(* When a record is that of a run.                                         *)
LEMMA WorkerIs ==
  \A v : v \in Worker <=>
        /\ v \in Fields
        /\ v.r \in Reports <=> v.pc \in {"claimed", "owned", "removed", "failing"}
BY DEF Worker, Fields

(* What the steps of a run that claims nothing assign to its record.       *)
LEMMA WorkerStep ==
  ASSUME RetentionInv, NEW k \in Workers,
         \/ StartRun(k) \/ Reconcile(k) \/ EndRun(k) \/ CheckOwned(k)
         \/ DeleteImages(k) \/ FailToDeleteImages(k) \/ DeleteReport(k)
         \/ FailInTry(k) \/ Release(k) \/ Crash(k)
  PROVE  /\ worker' \in [Workers -> Worker]
         /\ \A j \in Workers \ {k} : worker'[j] = worker[j]
         /\ worker'[k] \in Worker
         /\ worker'[k].now <= clock
         /\ worker'[k].r \in Reports =>
              /\ worker'[k].r = worker[k].r
              /\ worker'[k].token = worker[k].token
              /\ worker'[k].left = worker[k].left
         /\ worker'[k].pc = "removed" => DeleteImages(k)
<1>1. /\ worker \in [Workers -> Worker] /\ clock \in Nat
      /\ worker[k].now \in Nat /\ worker[k].now <= clock
  BY DEF RetentionInv, TypeOK, WorkerInv, Worker
<1>2. PICK w \in Worker : w = worker[k]
  BY <1>1
<1>3. /\ w.now \in Nat /\ w.now <= clock /\ w.left \in Nat
      /\ w.pc \in {"claimed", "owned", "removed", "failing"} => w.left > 0
  BY <1>1, <1>2 DEF RetentionInv, WorkerInv, Worker
<1>4. ASSUME NEW v, v \in Worker, worker' = [worker EXCEPT ![k] = v],
             v.now <= clock,
             v.r \in Reports => v.r = w.r /\ v.token = w.token /\ v.left = w.left,
             v.pc = "removed" => DeleteImages(k)
      PROVE  /\ worker' \in [Workers -> Worker]
             /\ \A j \in Workers \ {k} : worker'[j] = worker[j]
             /\ worker'[k] \in Worker
             /\ worker'[k].now <= clock
             /\ worker'[k].r \in Reports =>
                  /\ worker'[k].r = worker[k].r
                  /\ worker'[k].token = worker[k].token
                  /\ worker'[k].left = worker[k].left
             /\ worker'[k].pc = "removed" => DeleteImages(k)
  <2>1. worker'[k] = v /\ \A j \in Workers \ {k} : worker'[j] = worker[j]
    BY <1>1, <1>4
  <2>2. worker' \in [Workers -> Worker]
    BY <1>1, <1>4
  <2> QED
    BY <1>2, <1>4, <2>1, <2>2
<1>5. CASE StartRun(k)
  <2>1. PICK v : v = [IdleWorker EXCEPT !.pc = "reconcile", !.now = clock]
    OBVIOUS
  <2>2. v \in Worker /\ v.now = clock /\ v.r = NoReport /\ v.pc = "reconcile"
    BY <1>1, <2>1, NoReportAssumption DEF IdleWorker, Worker
  <2> QED
    BY <1>1, <1>4, <1>5, <2>1, <2>2, NoReportAssumption DEF StartRun
<1>6. CASE Reconcile(k)
  <2>1. PICK left \in 0..Budget :
          worker' = [worker EXCEPT ![k].pc = "claim", ![k].left = left]
    BY <1>6 DEF Reconcile
  <2>2. w.pc = "reconcile"
    BY <1>2, <1>6 DEF Reconcile
  <2>3. PICK v : v = [w EXCEPT !.pc = "claim", !.left = left]
    OBVIOUS
  <2>4. v \in Worker /\ v.now = w.now /\ v.r \notin Reports /\ v.pc = "claim"
    <3>1. w \in Fields /\ w.r \notin Reports /\ left \in Nat
      BY <2>1, <2>2, WorkerIs, LimitsAssumption
    <3>2. /\ v \in Fields /\ v.now = w.now /\ v.r = w.r /\ v.pc = "claim"
      BY <2>3, <3>1 DEF Fields
    <3> QED
      BY <3>1, <3>2, WorkerIs
  <2>5. worker' = [worker EXCEPT ![k] = v]
    BY <1>1, <1>2, <2>1, <2>3
  <2> QED
    BY <1>3, <1>4, <2>4, <2>5
<1>7. CASE EndRun(k) \/ Crash(k)
  BY <1>1, <1>4, <1>7, IdleIsWorker DEF EndRun, Crash, IdleWorker
<1>8. CASE /\ w.pc \in {"claimed", "owned", "removed", "failing"}
           /\ NextDocument(k)
  <2>1. PICK v : v = [w EXCEPT !.pc = "claim", !.r = NoReport, !.token = 0,
                               !.left = @ - 1]
    OBVIOUS
  <2>2. v \in Worker /\ v.now = w.now /\ v.r = NoReport /\ v.pc = "claim"
    <3>1. w \in Fields /\ w.left - 1 \in Nat
      BY <1>3, <1>8, WorkerIs
    <3>2. v \in Fields /\ v.now = w.now /\ v.r = NoReport /\ v.pc = "claim"
      BY <2>1, <3>1 DEF Fields
    <3> QED
      BY <3>2, WorkerIs, NoReportAssumption
  <2>3. worker' = [worker EXCEPT ![k] = v]
    BY <1>1, <1>2, <1>8, <2>1 DEF NextDocument
  <2> QED
    BY <1>3, <1>4, <2>2, <2>3, NoReportAssumption
<1>9. ASSUME NEW pc \in {"owned", "removed", "failing"},
             w.pc \in {"claimed", "owned", "removed", "failing"},
             Goto(k, pc), pc = "removed" => DeleteImages(k)
      PROVE  /\ worker' \in [Workers -> Worker]
             /\ \A j \in Workers \ {k} : worker'[j] = worker[j]
             /\ worker'[k] \in Worker
             /\ worker'[k].now <= clock
             /\ worker'[k].r \in Reports =>
                  /\ worker'[k].r = worker[k].r
                  /\ worker'[k].token = worker[k].token
                  /\ worker'[k].left = worker[k].left
             /\ worker'[k].pc = "removed" => DeleteImages(k)
  <2>1. PICK v : v = [w EXCEPT !.pc = pc]
    OBVIOUS
  <2>2. /\ v \in Worker /\ v.now = w.now /\ v.r = w.r /\ v.token = w.token
        /\ v.left = w.left /\ v.pc = pc
    BY <1>9, <2>1 DEF Worker
  <2>3. worker' = [worker EXCEPT ![k] = v]
    BY <1>1, <1>2, <1>9, <2>1 DEF Goto
  <2> QED
    BY <1>3, <1>4, <1>9, <2>2, <2>3
<1>10. CASE CheckOwned(k)
  BY <1>2, <1>8, <1>9, <1>10 DEF CheckOwned
<1>11. CASE DeleteImages(k)
  BY <1>2, <1>9, <1>11 DEF DeleteImages
<1>12. CASE FailToDeleteImages(k)
  BY <1>2, <1>9, <1>12 DEF FailToDeleteImages
<1>13. CASE FailInTry(k)
  BY <1>2, <1>9, <1>13 DEF FailInTry
<1>14. CASE DeleteReport(k) \/ Release(k)
  BY <1>2, <1>8, <1>14 DEF DeleteReport, Release
<1> QED
  BY <1>5, <1>6, <1>7, <1>10, <1>11, <1>12, <1>13, <1>14

(* The token of a claim is larger than every one drawn for its report.     *)
LEMMA ClaimWorkers ==
  ASSUME RetentionInv, NEW k \in Workers, NEW r \in Reports,
         worker[k].pc = "claim", worker[k].left > 0, clock' = clock,
         worker' = [worker EXCEPT ![k].pc = "claimed", ![k].r = r,
                                  ![k].token = report[r].attempts + 1],
         \A s \in Reports \ {r} : report'[s] = report[s],
         report'[r].attempts = report[r].attempts + 1,
         report'[r].cleanup = "processing",
         report'[r].images = report[r].images
  PROVE  /\ worker' \in [Workers -> Worker]
         /\ \A j \in Workers : WorkerInv(j)'
<1>1. /\ worker \in [Workers -> Worker] /\ worker[k] \in Worker /\ clock \in Nat
      /\ report[r].attempts \in Nat
      /\ \A j \in Workers : WorkerInv(j) /\ worker[j] \in Worker
  BY DEF RetentionInv, TypeOK, Report
<1>2. PICK w \in Worker : w = worker[k]
  BY <1>1
<1>3. PICK n \in Nat : n = report[r].attempts
  BY <1>1
<1>4. PICK v : v = [w EXCEPT !.pc = "claimed", !.r = r, !.token = n + 1]
  OBVIOUS
<1>5. /\ v \in Worker /\ v.r = r /\ v.token = n + 1 /\ v.pc = "claimed"
      /\ v.left > 0 /\ v.now <= clock
  <2>1. w.left > 0 /\ w.now <= clock
    BY <1>1, <1>2 DEF WorkerInv
  <2>2. w \in Fields
    BY WorkerIs
  <2>3. /\ v \in Fields /\ v.r = r /\ v.token = n + 1 /\ v.pc = "claimed"
        /\ v.left = w.left /\ v.now = w.now
    <3>1. n + 1 \in Nat /\ r \in Reports \cup {NoReport}
      OBVIOUS
    <3>2. PICK t : t = n + 1
      OBVIOUS
    <3>3. t \in Nat /\ v = [w EXCEPT !.pc = "claimed", !.r = r, !.token = t]
      BY <1>4, <3>1, <3>2
    <3> QED
      BY <2>2, <3>1, <3>2, <3>3 DEF Fields
  <2> QED
    BY <2>1, <2>3, WorkerIs
<1>6. worker' = [worker EXCEPT ![k] = v]
  BY <1>1, <1>2, <1>3, <1>4
<1>7. worker'[k] = v /\ \A j \in Workers \ {k} : worker'[j] = worker[j]
  BY <1>1, <1>6
<1>8. worker' \in [Workers -> Worker]
  BY <1>1, <1>5, <1>6
<1>9. \A j \in Workers \ {k} : worker[j].r = r =>
        worker[j].token \in Nat /\ worker[j].token <= n /\ worker[j].token # n + 1
  BY <1>1, <1>3 DEF WorkerInv
<1>10. report'[r].attempts = n + 1
  BY <1>3
<1>11. WorkerInv(k)'
  <2>1. worker'[k].now <= clock'
    BY <1>5, <1>7
  <2>2. /\ worker'[k].token \in 1..report'[worker'[k].r].attempts
        /\ worker'[k].left > 0
        /\ report'[worker'[k].r].cleanup # "pending"
    BY <1>5, <1>7, <1>10
  <2>3. \A j \in Workers : worker'[j].r = worker'[k].r
                             /\ worker'[j].token = worker'[k].token => j = k
    <3>1. worker'[k].r = r /\ worker'[k].token = n + 1
      BY <1>5, <1>7
    <3>2. \A j \in Workers \ {k} : worker'[j].r = r => worker'[j].token # n + 1
      BY <1>7, <1>9
    <3> QED
      BY <3>1, <3>2
  <2>4. worker'[k].pc # "removed"
    BY <1>5, <1>7
  <2> QED
    BY <2>1, <2>2, <2>3, <2>4 DEF WorkerInv
<1>12. ASSUME NEW j \in Workers \ {k}
       PROVE  WorkerInv(j)'
  <2>1. PICK u \in Worker : u = worker[j]
    BY <1>1
  <2>2. worker'[j] = u
    BY <1>7, <2>1
  <2>3. /\ u.now <= clock
        /\ u.r \in Reports =>
             /\ u.token \in 1..report[u.r].attempts
             /\ u.left > 0
             /\ report[u.r].cleanup # "pending"
             /\ \A i \in Workers : worker[i].r = u.r /\ worker[i].token = u.token
                                     => i = j
        /\ u.pc = "removed" => report[u.r].images = "none"
    BY <1>1, <2>1 DEF WorkerInv
  <2>4. ASSUME u.r \in Reports
        PROVE  /\ u.token \in 1..report'[u.r].attempts
               /\ report'[u.r].cleanup # "pending"
               /\ \A i \in Workers : worker'[i].r = u.r /\ worker'[i].token = u.token
                                       => i = j
    <3>1. CASE u.r = r
      <4>1. u.token \in 1..(n + 1) /\ u.token # n + 1
        BY <1>3, <2>3, <3>1
      <4>2. \A i \in Workers : worker'[i].r = u.r /\ worker'[i].token = u.token
                              => i = j
        <5>1. worker'[k].token = n + 1
          BY <1>5, <1>7
        <5>2. \A i \in Workers \ {k} : worker'[i] = worker[i]
          BY <1>7
        <5> QED
          BY <2>3, <2>4, <4>1, <5>1, <5>2
      <4> QED
        BY <1>10, <3>1, <4>1, <4>2
    <3>2. CASE u.r # r
      BY <1>5, <1>7, <2>3, <2>4, <3>2
    <3> QED
      BY <3>1, <3>2
  <2>5. u.pc = "removed" => report'[u.r].images = "none"
    BY <2>3 DEF Worker
  <2> QED
    BY <2>2, <2>3, <2>4, <2>5 DEF WorkerInv
<1> QED
  BY <1>8, <1>11, <1>12

-----------------------------------------------------------------------------
(* The invariant                                                           *)

LEMMA RetentionInit == Init => RetentionInv
<1> SUFFICES ASSUME Init PROVE RetentionInv
  OBVIOUS
<1>1. PICK d : d = [stored |-> TRUE, status |-> "pending", terminalAt |-> NoTime,
                    cleanup |-> "pending", lockedUntil |-> NoTime, token |-> 0,
                    attempts |-> 0, images |-> "all"]
  OBVIOUS
<1>2. /\ clock = 0 /\ report = [r \in Reports |-> d]
      /\ worker = [k \in Workers |-> IdleWorker]
      /\ edit = [a \in Admins |-> NoEdit]
  BY <1>1 DEF Init
<1>3. d \in Report /\ d.stored
  BY <1>1 DEF Report, Time, Statuses
<1>4. ReportInv(d)
  BY <1>1, <1>2, TimesAssumption, LimitsAssumption DEF ReportInv, Terminal, NoTime
<1>5. \A k \in Workers : WorkerInv(k)
  BY <1>2, NoReportAssumption DEF WorkerInv, IdleWorker
<1>6. NoEdit \in Edit
  BY DEF NoEdit, Edit, Statuses, Time
<1>7. TypeOK
  BY <1>2, <1>3, <1>6, IdleIsWorker DEF TypeOK
<1> QED
  BY <1>2, <1>3, <1>4, <1>5, <1>7 DEF RetentionInv, NoOrphanedEvidence

(* The reports and runs of the next state make up the invariant.           *)
LEMMA Assemble ==
  ASSUME RetentionInv, clock' = clock, edit' \in [Admins -> Edit],
         report' \in [Reports -> Report], worker' \in [Workers -> Worker],
         \A s \in Reports : Sound(report'[s]),
         \A k \in Workers : WorkerInv(k)'
  PROVE  RetentionInv'
<1>1. TypeOK'
  BY DEF RetentionInv, TypeOK
<1>2. ASSUME NEW s \in Reports
      PROVE  /\ ReportInv(report[s])'
             /\ ~report'[s].stored => report'[s].images = "none"
  <2>1. PICK d : d = report'[s]
    OBVIOUS
  <2>2. ReportInv(d) /\ (~d.stored => d.images = "none")
    BY <2>1 DEF Sound
  <2>3. ReportInv(d)'
    BY <2>2 DEF ReportInv, Due
  <2> QED
    BY <2>1, <2>2, <2>3
<1> QED
  BY <1>1, <1>2 DEF RetentionInv, NoOrphanedEvidence

LEMMA RetentionStep == RetentionInv /\ [Next]_vars => RetentionInv'
<1> SUFFICES ASSUME RetentionInv, [Next]_vars PROVE RetentionInv'
  OBVIOUS
<1>t. /\ worker \in [Workers -> Worker] /\ report \in [Reports -> Report]
      /\ edit \in [Admins -> Edit] /\ clock \in Nat
  BY DEF RetentionInv, TypeOK
<1>1. ASSUME NEW k \in Workers,
             \/ StartRun(k) \/ Reconcile(k) \/ EndRun(k) \/ CheckOwned(k)
             \/ DeleteImages(k) \/ FailToDeleteImages(k) \/ DeleteReport(k)
             \/ FailInTry(k) \/ Release(k) \/ Crash(k)
      PROVE  RetentionInv'
  <2>1. clock' = clock /\ edit' = edit
    BY <1>1 DEF StartRun, Reconcile, EndRun, CheckOwned, DeleteImages,
                FailToDeleteImages, DeleteReport, FailInTry, Release, Crash
  <2>2. /\ report' \in [Reports -> Report]
        /\ \A s \in Reports : Sound(report'[s]) /\ Advances(s)
        /\ DeleteImages(k) => report'[worker[k].r].images = "none"
    <3>1. CASE report' = report
      <4>1. ~DeleteImages(k) \/ report'[worker[k].r].images = "none"
        BY ImagesStep
      <4> QED
        BY <1>t, <3>1, <4>1, UnchangedSound
    <3>2. CASE DeleteImages(k) \/ FailToDeleteImages(k)
      BY <3>2, ImagesStep
    <3>3. CASE report' # report /\ ~DeleteImages(k) /\ ~FailToDeleteImages(k)
      <4>1. Reconcile(k) \/ DeleteReport(k) \/ Release(k)
        BY <1>1, <3>3 DEF StartRun, EndRun, CheckOwned, FailInTry, Crash
      <4> QED
        BY <3>3, <4>1, ReconcileStep, DeleteStep, ReleaseStep
    <3> QED
      BY <3>1, <3>2, <3>3
  <2>3. /\ worker' \in [Workers -> Worker]
        /\ \A j \in Workers \ {k} : worker'[j] = worker[j]
        /\ worker'[k] \in Worker
        /\ worker'[k].now <= clock
        /\ worker'[k].r \in Reports =>
             /\ worker'[k].r = worker[k].r
             /\ worker'[k].token = worker[k].token
             /\ worker'[k].left = worker[k].left
        /\ worker'[k].pc = "removed" => DeleteImages(k)
    BY <1>1, WorkerStep
  <2>4. Continues(k)
    <3>1. worker'[k].pc = "removed" => worker'[k].r = worker[k].r
      BY <2>3, WorkerIs
    <3> QED
      BY <2>2, <2>3, <3>1 DEF Continues
  <2>5. \A j \in Workers : Continues(j)
    BY <2>2, <2>3, <2>4, OthersContinue
  <2>6. \A j \in Workers : WorkerInv(j)'
    BY <1>t, <2>1, <2>2, <2>5, WorkersContinue
  <2> QED
    BY <1>t, <2>1, <2>2, <2>3, <2>6, Assemble
<1>2. ASSUME NEW k \in Workers, Claim(k)
      PROVE  RetentionInv'
  <2>1. PICK r \in Reports :
          /\ Eligible(report[r], worker[k].now)
          /\ report' = [report EXCEPT
               ![r].cleanup = "processing",
               ![r].lockedUntil = worker[k].now + LockTime,
               ![r].token = report[r].attempts + 1,
               ![r].attempts = report[r].attempts + 1]
          /\ worker' = [worker EXCEPT ![k].pc = "claimed", ![k].r = r,
                                      ![k].token = report[r].attempts + 1]
    BY <1>2 DEF Claim
  <2>2. /\ clock' = clock /\ edit' = edit
        /\ worker[k].pc = "claim" /\ worker[k].left > 0
    BY <1>2 DEF Claim
  <2>3. /\ report' \in [Reports -> Report]
        /\ \A s \in Reports : Sound(report'[s])
    BY <2>1, <2>2, ClaimStep
  <2>4. /\ \A s \in Reports \ {r} : report'[s] = report[s]
        /\ report'[r].attempts = report[r].attempts + 1
        /\ report'[r].cleanup = "processing"
        /\ report'[r].images = report[r].images
    BY <1>t, <2>1 DEF Report
  <2>5. /\ worker' \in [Workers -> Worker]
        /\ \A j \in Workers : WorkerInv(j)'
    BY <2>1, <2>2, <2>4, ClaimWorkers
  <2> QED
    BY <1>t, <2>2, <2>3, <2>5, Assemble
<1>3. CASE UNCHANGED worker /\ clock' = clock /\ edit' \in [Admins -> Edit]
            /\ \/ report' = report
               \/ \E a \in Admins : ChangeStatus(a)
  <2>1. /\ report' \in [Reports -> Report]
        /\ \A s \in Reports : Sound(report'[s]) /\ Advances(s)
    BY <1>t, <1>3, ChangeStep, UnchangedSound
  <2>2. \A j \in Workers : Continues(j)
    BY <1>3, <2>1, OthersContinue
  <2>3. \A j \in Workers : WorkerInv(j)'
    BY <1>t, <1>3, <2>1, <2>2, WorkersContinue
  <2> QED
    BY <1>t, <1>3, <2>1, <2>3, Assemble
<1>4. ASSUME NEW a \in Admins,
             \/ \E r \in Reports, next \in Statuses : ReadStatus(a, r, next)
             \/ ChangeStatus(a) \/ RefuseChange(a)
      PROVE  RetentionInv'
  <2>1. edit' \in [Admins -> Edit]
    <3>1. NoEdit \in Edit
      BY DEF NoEdit, Edit, Statuses, Time
    <3>2. ASSUME NEW r \in Reports, NEW next \in Statuses, ReadStatus(a, r, next)
          PROVE  edit' \in [Admins -> Edit]
      <4>1. [r |-> r, status |-> report[r].status,
             terminalAt |-> report[r].terminalAt, next |-> next] \in Edit
        BY <1>t DEF Edit, Report
      <4> QED
        BY <1>t, <3>2, <4>1 DEF ReadStatus
    <3> QED
      BY <1>t, <1>4, <3>1, <3>2 DEF ChangeStatus, RefuseChange
  <2> QED
    BY <1>3, <1>4, <2>1 DEF ReadStatus, ChangeStatus, RefuseChange
<1>5. CASE Tick
  <2>1. /\ clock' \in Nat /\ clock <= clock' /\ report' = report
        /\ worker' = worker /\ edit' = edit
    BY <1>t, <1>5 DEF Tick
  <2>2. \A s \in Reports : ReportInv(report[s])'
    BY <2>1, ReportLater
  <2>3. \A s \in Reports : Advances(s)
    BY <2>1, UnchangedSound
  <2>4. \A j \in Workers : Continues(j)
    BY <2>1, <2>3, OthersContinue
  <2>5. \A j \in Workers : WorkerInv(j)'
    BY <2>1, <2>3, <2>4, WorkersContinue
  <2> QED
    BY <1>t, <2>1, <2>2, <2>5 DEF RetentionInv, TypeOK, NoOrphanedEvidence
<1>6. CASE UNCHANGED vars
  BY <1>3, <1>t, <1>6 DEF vars
<1> QED
  BY <1>1, <1>2, <1>4, <1>5, <1>6 DEF Next, RunStep

(* Types, and what every run and every report have in common at all times. *)
THEOREM RetentionCorrect == Spec => []RetentionInv
  BY RetentionInit, RetentionStep, PTL DEF Spec

(* No image is left without its report: an image that could not be deleted *)
(* keeps the report that names it (throwOnError).                          *)
THEOREM NoOrphanedEvidenceCorrect == Spec => []NoOrphanedEvidence
<1>1. RetentionInv => NoOrphanedEvidence
  BY DEF RetentionInv
<1> QED
  BY <1>1, RetentionCorrect, PTL

(* A report that lost evidence is closed for good: a change of status that *)
(* read it before the clean-up began does not commit after it.             *)
THEOREM EvidenceKeptCorrect == Spec => []EvidenceKept
<1>1. RetentionInv => EvidenceKept
  <2> SUFFICES ASSUME RetentionInv, NEW r \in Reports,
                      report[r].stored, report[r].images # "all"
               PROVE  report[r].cleanup # "pending" /\ Due(report[r], clock)
    BY DEF EvidenceKept
  <2>1. report[r] \in Report /\ ReportInv(report[r])
    BY DEF RetentionInv, TypeOK
  <2>2. PICK d \in Report : d = report[r]
    BY <2>1
  <2>3. d.cleanup # "pending" /\ Due(d, clock)
    BY <2>1, <2>2 DEF ReportInv, Due, Report
  <2> QED
    BY <2>2, <2>3
<1> QED
  BY <1>1, RetentionCorrect, PTL

(* Every report that is due is taken sooner or later, or is with a person: *)
(* the filters of the clean-up and of its reconciliation leave no gap.     *)
THEOREM NoReportStrandedCorrect == Spec => []NoReportStranded
<1>1. RetentionInv => NoReportStranded
  <2> SUFFICES ASSUME RetentionInv, NEW r \in Reports,
                      report[r].stored, report[r].status \in Terminal,
                      report[r].cleanup # "manual_review"
               PROVE  LET later == clock + LockTime + RetryDelay + Retention + 1
                      IN  \/ Eligible(report[r], later)
                          \/ Exhausted(report[r], later)
    BY DEF NoReportStranded
  <2>1. report[r] \in Report /\ ReportInv(report[r]) /\ clock \in Nat
    BY DEF RetentionInv, TypeOK
  <2>2. PICK d \in Report : d = report[r]
    BY <2>1
  <2>3. /\ d.terminalAt # NoTime /\ d.terminalAt <= clock
        /\ d.lockedUntil <= clock + LockTime + RetryDelay
        /\ d.attempts \in Nat /\ d.attempts <= MaxAttempts
        /\ d.cleanup = "pending" => d.attempts = 0
        /\ d.cleanup = "failed" => d.attempts < MaxAttempts
        /\ d.cleanup \in {"pending", "processing", "failed"}
        /\ d.terminalAt \in Nat /\ d.lockedUntil \in Time
    BY <2>1, <2>2 DEF ReportInv, Report, Time
  <2>4. PICK later \in Nat : later = clock + LockTime + RetryDelay + Retention + 1
    BY <2>1, TimesAssumption
  <2>5. Due(d, later)
    BY <2>1, <2>2, <2>3, <2>4, TimesAssumption DEF Due
  <2>6. Passed(d.lockedUntil, later)
    BY <2>1, <2>3, <2>4, TimesAssumption DEF Passed, Time, NoTime
  <2>7. CASE d.attempts < MaxAttempts
    BY <2>2, <2>3, <2>4, <2>5, <2>6, <2>7 DEF Eligible
  <2>8. CASE ~(d.attempts < MaxAttempts)
    <3>1. d.attempts >= MaxAttempts /\ d.cleanup = "processing"
      BY <2>3, <2>8, LimitsAssumption
    <3> QED
      BY <2>2, <2>4, <2>5, <2>6, <3>1 DEF Exhausted
  <2> QED
    BY <2>7, <2>8
<1> QED
  BY <1>1, RetentionCorrect, PTL

-----------------------------------------------------------------------------
(* What a step may not do                                                  *)

(* A report changes only in one of five ways.                              *)
LEMMA ReportChanges ==
  ASSUME RetentionInv, [Next]_vars, NEW r \in Reports, report'[r] # report[r]
  PROVE  \/ /\ report[r].cleanup = "pending"
            /\ report'[r].cleanup = "pending"
         \/ \E k \in Workers : Exhausted(report[r], worker[k].now)
         \/ \E k \in Workers : Eligible(report[r], worker[k].now)
         \/ \E left \in {"all", "some", "none"} :
              /\ report'[r] = [report[r] EXCEPT !.images = left]
              /\ left = "all" => report[r].images = "all"
         \/ \E k \in Workers :
              /\ worker[k].r = r /\ worker[k].token = report[r].token
              /\ report[r].cleanup = "processing"
              /\ worker'[k].pc = "claim"
<1>t. /\ report \in [Reports -> Report] /\ worker \in [Workers -> Worker]
  BY DEF RetentionInv, TypeOK
<1>1. ASSUME NEW a \in Admins, ChangeStatus(a)
      PROVE  report[r].cleanup = "pending" /\ report'[r].cleanup = "pending"
  BY <1>1, <1>t DEF ChangeStatus, StillAsRead, Report
<1>2. ASSUME NEW k \in Workers, Reconcile(k)
      PROVE  Exhausted(report[r], worker[k].now)
  BY <1>2 DEF Reconcile
<1>3. ASSUME NEW k \in Workers, Claim(k)
      PROVE  Eligible(report[r], worker[k].now)
  <2>1. PICK s \in Reports :
          /\ Eligible(report[s], worker[k].now)
          /\ \A q \in Reports \ {s} : report'[q] = report[q]
    BY <1>3, <1>t DEF Claim
  <2> QED
    BY <2>1
<1>4. ASSUME NEW k \in Workers, DeleteImages(k) \/ FailToDeleteImages(k)
      PROVE  \E left \in {"all", "some", "none"} :
               /\ report'[r] = [report[r] EXCEPT !.images = left]
               /\ left = "all" => report[r].images = "all"
  <2>1. PICK left \in {"all", "some", "none"} :
          /\ report' = [report EXCEPT ![worker[k].r].images = left]
          /\ left = "all" => report[worker[k].r].images = "all"
    <3>1. CASE DeleteImages(k)
      BY <3>1 DEF DeleteImages
    <3>2. CASE FailToDeleteImages(k)
      BY <3>2 DEF FailToDeleteImages
    <3> QED
      BY <1>4, <3>1, <3>2
  <2>2. worker[k].r = r
    BY <1>t, <2>1
  <2> QED
    BY <1>t, <2>1, <2>2
<1>5. ASSUME NEW k \in Workers, DeleteReport(k) \/ Release(k)
      PROVE  /\ worker[k].r = r /\ worker[k].token = report[r].token
             /\ report[r].cleanup = "processing"
             /\ worker'[k].pc = "claim"
  <2>1. Mine(worker[k])
    BY <1>5 DEF DeleteReport, Release
  <2>2. \A s \in Reports : s # worker[k].r => report'[s] = report[s]
    BY <1>5, <1>t DEF DeleteReport, Release
  <2>3. worker'[k].pc = "claim"
    BY <1>5, <1>t DEF DeleteReport, Release, NextDocument, Worker
  <2> QED
    BY <2>1, <2>2, <2>3 DEF Mine
<1> QED
  BY <1>1, <1>2, <1>3, <1>4, <1>5
  DEF Next, vars, RunStep, StartRun, EndRun, CheckOwned, FailInTry, Crash,
      ReadStatus, RefuseChange, Tick

(* While a lease lasts, only the holder of its token decides.              *)
LEMMA LeaseStep == RetentionInv /\ [Next]_vars => Honoured
<1> SUFFICES ASSUME RetentionInv, [Next]_vars, NEW r \in Reports,
                    report[r].stored, report[r].cleanup = "processing",
                    report[r].lockedUntil > clock, report'[r] # report[r]
             PROVE  \/ \E left \in {"some", "none"} :
                         report'[r] = [report[r] EXCEPT !.images = left]
                    \/ \E k \in Workers :
                         /\ worker[k].r = r /\ worker[k].token = report[r].token
                         /\ worker'[k].pc = "claim"
  BY DEF Honoured
<1>1. \A k \in Workers : worker[k].now <= clock /\ worker[k].now \in Nat
  BY DEF RetentionInv, TypeOK, WorkerInv, Worker
<1>2. /\ clock \in Nat /\ report[r] \in Report
      /\ report[r].lockedUntil \in Time
  BY DEF RetentionInv, TypeOK, Report
<1>3. \A k \in Workers : /\ ~Exhausted(report[r], worker[k].now)
                          /\ ~Eligible(report[r], worker[k].now)
  BY <1>1, <1>2 DEF Exhausted, Eligible, Passed, Time, NoTime
<1>4. \A left \in {"all", "some", "none"} :
        /\ report'[r] = [report[r] EXCEPT !.images = left]
        /\ left = "all" => report[r].images = "all"
        => left # "all"
  BY <1>2 DEF Report
<1> QED
  BY <1>3, <1>4, ReportChanges

(* No run takes back what was left to a person.                            *)
LEMMA ManualStep == RetentionInv /\ [Next]_vars => Stays
<1> SUFFICES ASSUME RetentionInv, [Next]_vars, NEW r \in Reports,
                    report[r].stored, report[r].cleanup = "manual_review",
                    report'[r] # report[r]
             PROVE  report'[r].stored /\ report'[r].cleanup = "manual_review"
  BY DEF Stays
<1>1. \A k \in Workers : /\ ~Exhausted(report[r], worker[k].now)
                          /\ ~Eligible(report[r], worker[k].now)
  BY DEF Exhausted, Eligible
<1>2. report[r] \in Report
  BY DEF RetentionInv, TypeOK
<1>3. PICK left : report'[r] = [report[r] EXCEPT !.images = left]
  BY <1>1, ReportChanges
<1> QED
  BY <1>2, <1>3 DEF Report

(* A report that may be open again has its evidence, and a deleted one has *)
(* left none (data-retention.service.ts:643).                              *)
THEOREM EvidenceCorrect == Spec => []EvidenceFollowsReport
  BY EvidenceKeptCorrect, NoOrphanedEvidenceCorrect, PTL DEF EvidenceFollowsReport

(* Nobody but the holder of a lease, or a person, decides about a report   *)
(* (data-retention.service.ts:665).                                        *)
THEOREM DecisionsHonouredCorrect == Spec => DecisionsHonoured
<1>1. RetentionInv /\ [Next]_vars => [Honoured /\ Stays]_vars
  BY LeaseStep, ManualStep
<1> QED
  BY <1>1, RetentionCorrect, PTL DEF Spec, DecisionsHonoured
=============================================================================
