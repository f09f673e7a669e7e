----------------------- MODULE WeeklyRecapJob_proofs -----------------------
(***************************************************************************)
(* The weekly recap job keeps its promises for every set of weeks and      *)
(* workers, and every number of faults: proofs of the safety properties of *)
(* WeeklyRecapJob.  That every week is resolved is left to TLC.            *)
(***************************************************************************)
EXTENDS WeeklyRecapJob, TLAPS

(* The week of a worker that is at work is a week.                         *)
AtWeek(j) == j.pc # "idle" => j.week \in Weeks

(* What RecapInv says of one worker, apart from its type.                  *)
Honest(j) ==
  /\ AtWeek(j)
  /\ j.pc \in {"complete", "targets", "notify", "marknotified"} =>
       recap[j.week] = "all"
  /\ j.pc = "notify" => j.targets = "all"
  /\ j.pc = "marknotified" => sent[j.week] = "all"

(* RecapInv in the form the steps below use.                               *)
LEMMA RecapInvIs ==
  RecapInv <=> /\ TypeOK /\ CompletedMeansDone
               /\ \A k \in Workers : Honest(job[k])
BY Zenon DEF RecapInv, Honest, AtWeek

(* A worker with nothing to do, or about to ensure the document of a week, *)
(* is a job and promises nothing.                                          *)
LEMMA FreshJob ==
  /\ Idle \in Job /\ Idle.pc = "idle"
  /\ \A w \in Weeks, todo \in SUBSET Weeks :
       LET j == [Idle EXCEPT !.pc = "ensure", !.week = w, !.todo = todo]
       IN  j \in Job /\ j.pc = "ensure" /\ j.week = w
  /\ \A w \in Weeks, force \in BOOLEAN :
       LET j == [Idle EXCEPT !.pc = "ensure", !.week = w, !.force = force]
       IN  j \in Job /\ j.pc = "ensure" /\ j.week = w
BY DEF Idle, Job, Extent

(* A step of worker k that leaves it idle or about to ensure a document.   *)
Restarts(k) ==
  /\ job' \in [Workers -> Job]
  /\ \A q \in Workers \ {k} : job'[q] = job[q]
  /\ job'[k].pc \in {"idle", "ensure"} /\ AtWeek(job'[k])

(* A worker that is given a fresh job is restarted.                        *)
LEMMA FreshRestarts ==
  ASSUME NEW k \in Workers, job \in [Workers -> Job], NEW j \in Job,
         j.pc \in {"idle", "ensure"}, AtWeek(j), job' = [job EXCEPT ![k] = j]
  PROVE  Restarts(k)
<1>1. job'[k] = j /\ \A q \in Workers \ {k} : job'[q] = job[q]
  OBVIOUS
<1> QED
  BY <1>1 DEF Restarts, AtWeek

(* Attempting a candidate restarts the worker.                             *)
LEMMA AttemptJob ==
  ASSUME TypeOK, NEW k \in Workers, NEW todo \in SUBSET Weeks,
         Attempt(k, todo)
  PROVE  Restarts(k)
<1>1. PICK w \in todo :
        job' = [job EXCEPT ![k] = [Idle EXCEPT !.pc = "ensure", !.week = w,
                                               !.todo = todo \ {w}]]
  BY DEF Attempt
<1>2. job \in [Workers -> Job] /\ todo \ {w} \in SUBSET Weeks /\ w \in Weeks
  BY DEF TypeOK
<1>3. PICK j : j = [Idle EXCEPT !.pc = "ensure", !.week = w, !.todo = todo \ {w}]
  OBVIOUS
<1>4. j \in Job /\ j.pc = "ensure" /\ j.week = w
  BY <1>2, <1>3 DEF Idle, Job, Extent
<1> QED
  BY <1>1, <1>2, <1>3, <1>4, FreshRestarts DEF AtWeek

(* So do the return of runForWeek and the end of the catch-up.             *)
LEMMA NextWeekJob ==
  ASSUME TypeOK, NEW k \in Workers, NextWeek(k) \/ Stop(k)
  PROVE  Restarts(k)
<1>1. job \in [Workers -> Job] /\ job[k].todo \in SUBSET Weeks
  BY DEF TypeOK, Job
<1>2. CASE job' = [job EXCEPT ![k] = Idle]
  BY <1>1, <1>2, FreshJob DEF AtWeek, Restarts
<1> QED
  BY <1>1, <1>2, AttemptJob DEF NextWeek, Stop

(* A step that only moves a worker that is at work.                        *)
LEMMA GotoJob ==
  ASSUME TypeOK, NEW k \in Workers, ~At(k, "idle"), AtWeek(job[k]),
         NEW pc \in {"claim", "refused", "aggregate", "write", "complete",
                     "failing", "targets", "notify", "marknotified", "rejected"},
         Goto(k, pc)
  PROVE  /\ job' \in [Workers -> Job]
         /\ \A q \in Workers \ {k} : job'[q] = job[q]
         /\ job'[k] = [job[k] EXCEPT !.pc = pc]
         /\ job'[k].pc = pc /\ job'[k].week = job[k].week
         /\ job'[k].targets = job[k].targets /\ job[k].week \in Weeks
<1>1. job \in [Workers -> Job] /\ job[k] \in Job
  BY DEF TypeOK
<1>2. [job[k] EXCEPT !.pc = pc] \in Job
  BY <1>1 DEF Job
<1> QED
  BY <1>1, <1>2 DEF Goto, At, AtWeek, Job

(* A worker whose claim is granted.                                        *)
LEMMA ClaimJob ==
  ASSUME TypeOK, NEW k \in Workers,
         job' = [job EXCEPT ![k].pc = "aggregate", ![k].claimed = TRUE]
  PROVE  /\ job' \in [Workers -> Job]
         /\ \A q \in Workers \ {k} : job'[q] = job[q]
         /\ job'[k].pc = "aggregate" /\ job'[k].week = job[k].week
<1>1. job \in [Workers -> Job] /\ job[k] \in Job
  BY DEF TypeOK
<1> QED
  BY <1>1 DEF Job

(* A worker that fails to notify is done with the week, or rejected.       *)
LEMMA FailToNotifyJob ==
  ASSUME TypeOK, NEW k \in Workers, AtWeek(job[k]), FailToNotify(k)
  PROVE  \/ Restarts(k)
         \/ /\ job' \in [Workers -> Job]
            /\ \A q \in Workers \ {k} : job'[q] = job[q]
            /\ job'[k].pc = "rejected" /\ job'[k].week = job[k].week
            /\ job[k].week \in Weeks
            /\ job[k].pc \in {"targets", "notify", "marknotified"}
<1>1. /\ job[k].pc \in {"targets", "notify", "marknotified"}
      /\ NextWeek(k) \/ Stop(k) \/ Goto(k, "rejected")
  BY DEF FailToNotify
<1>2. CASE NextWeek(k) \/ Stop(k)
  BY <1>2, NextWeekJob
<1>3. CASE Goto(k, "rejected")
  BY <1>1, <1>3, GotoJob DEF At
<1> QED
  BY <1>1, <1>2, <1>3

-----------------------------------------------------------------------------
(* The inductive invariant: one step per action                            *)

(* What the other workers promise lasts as long as no recap and no         *)
(* notification is taken back.                                             *)
LEMMA StepHonest ==
  ASSUME NEW k \in Workers, \A q \in Workers \ {k} : job'[q] = job[q],
         \A q \in Workers : Honest(job[q]),
         \A w \in Weeks : recap[w] = "all" => recap'[w] = "all",
         \A w \in Weeks : sent[w] = "all" => sent'[w] = "all",
         Honest(job[k])'
  PROVE  \A q \in Workers : Honest(job[q])'
<1>1. \A q \in Workers \ {k} : Honest(job[q])'
  BY DEF Honest, AtWeek
<1> QED
  BY <1>1

(* A restarted worker promises nothing.                                    *)
LEMMA RestartHonest ==
  ASSUME NEW k \in Workers, Restarts(k),
         \A q \in Workers : Honest(job[q]),
         UNCHANGED recap, \A w \in Weeks : sent[w] = "all" => sent'[w] = "all"
  PROVE  \A q \in Workers : Honest(job[q])'
<1>1. Honest(job[k])'
  BY DEF Restarts, Honest, AtWeek
<1> QED
  BY <1>1, StepHonest DEF Restarts

(* The documents, within their types.                                      *)
Documents ==
  /\ events \subseteq Weeks /\ run \in [Weeks -> Run]
  /\ recap \in [Weeks -> Extent] /\ sent \in [Weeks -> Extent]
  /\ contested \subseteq Weeks

(* The counters, within their bounds.                                      *)
Counters == faults \in 0..MaxFaults /\ forced \in 0..MaxForced

(* These and the jobs are all of TypeOK.                                   *)
LEMMA TypeIs ==
  TypeOK <=> Documents /\ Counters /\ job \in [Workers -> Job]
BY Zenon DEF TypeOK, Documents, Counters

(* TypeOK from its parts, before a step and after it.                      *)
LEMMA TypeNext ==
  Documents' /\ Counters' /\ job' \in [Workers -> Job] => TypeOK'
BY Zenon DEF TypeOK, Documents, Counters

(* A fault is counted within its bound.                                    *)
LEMMA FaultType ==
  Counters /\ Fault /\ UNCHANGED forced => Counters'
BY BoundsAssumption DEF Counters, Fault

(* What has to be shown of each action.                                    *)
Kept == TypeOK' /\ CompletedMeansDone' /\ \A q \in Workers : Honest(job[q])'

(* Every step keeps RecapInv.                                              *)
LEMMA RecapStep == RecapInv /\ [Next]_vars => RecapInv'
<1> SUFFICES ASSUME TypeOK, CompletedMeansDone, \A q \in Workers : Honest(job[q]),
                    [Next]_vars
             PROVE  Kept
  BY RecapInvIs, Zenon DEF RecapInv, Honest, AtWeek, Kept
<1>t. Documents /\ Counters /\ job \in [Workers -> Job]
  BY TypeIs
<1>h. \A q \in Workers : Honest(job[q])
  OBVIOUS
<1>1. ASSUME NEW k \in Workers, CatchUp(k)
      PROVE  Kept
  <2>1. Restarts(k)
    BY <1>1, AttemptJob DEF CatchUp, Oldest
  <2>2. Documents' /\ Counters' /\ CompletedMeansDone'
    BY <1>1, <1>t DEF CatchUp, Documents, Counters, CompletedMeansDone
  <2>3. UNCHANGED <<recap, sent>>
    BY <1>1 DEF CatchUp
  <2> QED
    BY <2>1, <2>2, <2>3, RestartHonest, TypeNext DEF Kept, Restarts
<1>2. ASSUME NEW k \in Workers, NEW force \in BOOLEAN, RunScript(k, force)
      PROVE  Kept
  <2>1. PICK w \in Weeks :
          job' = [job EXCEPT ![k] = [Idle EXCEPT !.pc = "ensure", !.week = w,
                                                 !.force = force]]
    BY <1>2 DEF RunScript
  <2>a. PICK j : j = [Idle EXCEPT !.pc = "ensure", !.week = w, !.force = force]
    OBVIOUS
  <2>b. j \in Job /\ j.pc = "ensure" /\ j.week = w
    BY <2>a, FreshJob
  <2>2. Restarts(k)
    BY <2>1, <2>a, <2>b, <1>t, FreshRestarts DEF AtWeek
  <2>3. UNCHANGED <<events, run, recap, sent, contested, faults>>
    BY <1>2 DEF RunScript
  <2>4. forced' = forced + 1 /\ forced < MaxForced
    BY <1>2 DEF RunScript
  <2>5. Documents' /\ CompletedMeansDone'
    BY <2>3, <1>t DEF Documents, CompletedMeansDone
  <2>6. Counters'
    BY <2>3, <2>4, <1>t, BoundsAssumption DEF Counters
  <2> QED
    BY <2>2, <2>3, <2>5, <2>6, RestartHonest, TypeNext DEF Kept, Restarts
<1>3. ASSUME NEW k \in Workers, EnsureRunDocument(k) \/ ClaimRun(k)
      PROVE  Kept
  <2>1. /\ ~At(k, "idle") /\ AtWeek(job[k]) /\ job[k].week \in Weeks
        /\ UNCHANGED <<events, recap, sent, faults, forced>>
    BY <1>3 DEF EnsureRunDocument, ClaimRun, At, AtWeek, Honest
  <2>2. \/ \E pc \in {"claim", "refused"} : Goto(k, pc)
        \/ job' = [job EXCEPT ![k].pc = "aggregate", ![k].claimed = TRUE]
    BY <1>3 DEF EnsureRunDocument, ClaimRun
  <2>3. /\ job' \in [Workers -> Job]
        /\ job'[k].pc \in {"claim", "refused", "aggregate"}
        /\ \A q \in Workers \ {k} : job'[q] = job[q]
        /\ job'[k].week \in Weeks
    BY <2>1, <2>2, GotoJob, ClaimJob
  <2>4. run' \in [Weeks -> Run] /\ contested' \subseteq Weeks
    <3>1. PICK d \in Run : d = run[job[k].week]
      BY <1>t, <2>1 DEF Documents
    <3>2. /\ [d EXCEPT !.status = IF @ = "absent" THEN "pending" ELSE @] \in Run
          /\ [d EXCEPT !.status = "running", !.lock = "fresh"] \in Run
      BY DEF Run
    <3>3. CASE EnsureRunDocument(k)
      BY <1>t, <2>1, <3>1, <3>2, <3>3 DEF EnsureRunDocument, Documents
    <3>4. CASE ClaimRun(k)
      BY <1>t, <2>1, <3>1, <3>2, <3>4 DEF ClaimRun, Documents
    <3> QED
      BY <1>3, <3>3, <3>4
  <2>5. \A w \in Weeks : /\ run'[w].status = "completed" => run[w].status = "completed"
                         /\ run'[w].notified = run[w].notified
    BY <1>3, <1>t, <2>1 DEF EnsureRunDocument, ClaimRun, Documents, Run
  <2>6. CompletedMeansDone'
    BY <2>1, <2>5 DEF CompletedMeansDone
  <2>7. Honest(job[k])'
    BY <2>3 DEF Honest, AtWeek
  <2>8. Documents' /\ Counters'
    BY <2>1, <2>4, <1>t DEF Documents, Counters
  <2> QED
    BY <1>h, <2>1, <2>3, <2>6, <2>7, <2>8, StepHonest, TypeNext DEF Kept
<1>4. ASSUME NEW k \in Workers, ReadRefused(k)
      PROVE  Kept
  <2>1. UNCHANGED <<events, run, recap, sent, contested, faults, forced>>
    BY <1>4 DEF ReadRefused
  <2>2. Documents' /\ Counters' /\ CompletedMeansDone'
    BY <2>1, <1>t DEF Documents, Counters, CompletedMeansDone
  <2>3. CASE Stop(k) \/ NextWeek(k)
    <3>1. Restarts(k)
      BY <2>3, NextWeekJob
    <3> QED
      BY <3>1, <2>1, <2>2, RestartHonest, TypeNext DEF Kept, Restarts
  <2>4. CASE Goto(k, "targets") /\ run[job[k].week].status = "completed"
    <3>1. ~At(k, "idle") /\ AtWeek(job[k])
      BY <1>4 DEF ReadRefused, At, Honest
    <3>2. /\ job' \in [Workers -> Job] /\ job'[k].pc = "targets"
          /\ \A q \in Workers \ {k} : job'[q] = job[q]
          /\ job'[k].week = job[k].week /\ job[k].week \in Weeks
      BY <2>4, <3>1, GotoJob
    <3>3. recap'[job'[k].week] = "all"
      BY <2>1, <2>4, <3>2 DEF CompletedMeansDone
    <3>4. Honest(job[k])'
      BY <3>2, <3>3 DEF Honest, AtWeek
    <3> QED
      BY <1>h, <2>1, <2>2, <3>2, <3>4, StepHonest, TypeNext DEF Kept
  <2> QED
    BY <1>4, <2>3, <2>4, Zenon DEF ReadRefused
<1>5. ASSUME NEW k \in Workers, WriteSome(k) \/ WriteRest(k)
      PROVE  Kept
  <2>1. /\ ~At(k, "idle") /\ AtWeek(job[k]) /\ job[k].week \in Weeks
        /\ UNCHANGED <<events, run, sent, contested, faults, forced>>
    BY <1>5 DEF WriteSome, WriteRest, At, AtWeek, Honest
  <2>2. /\ recap' \in [Weeks -> Extent]
        /\ \A w \in Weeks : recap[w] = "all" => recap'[w] = "all"
    BY <1>5, <1>t, <2>1 DEF WriteSome, WriteRest, Documents, Extent
  <2>3. Documents' /\ Counters' /\ CompletedMeansDone'
    BY <2>1, <2>2, <1>t DEF Documents, Counters, CompletedMeansDone
  <2>4. CASE WriteSome(k)
    <3>1. /\ job' \in [Workers -> Job] /\ job'[k].pc = "write"
          /\ \A q \in Workers \ {k} : job'[q] = job[q]
          /\ job'[k].week \in Weeks
      BY <2>1, <2>4, GotoJob DEF WriteSome
    <3>2. Honest(job[k])'
      BY <3>1 DEF Honest, AtWeek
    <3> QED
      BY <1>h, <2>1, <2>2, <2>3, <3>1, <3>2, StepHonest, TypeNext DEF Kept
  <2>5. CASE WriteRest(k)
    <3>1. /\ job' \in [Workers -> Job] /\ job'[k].pc = "complete"
          /\ \A q \in Workers \ {k} : job'[q] = job[q]
          /\ job'[k].week = job[k].week
      BY <2>1, <2>5, GotoJob DEF WriteRest
    <3>2. recap'[job'[k].week] = "all"
      BY <1>t, <2>1, <2>5, <3>1 DEF WriteRest, Documents
    <3>3. Honest(job[k])'
      BY <2>1, <3>1, <3>2 DEF Honest, AtWeek
    <3> QED
      BY <1>h, <2>1, <2>2, <2>3, <3>1, <3>3, StepHonest, TypeNext DEF Kept
  <2> QED
    BY <1>5, <2>4, <2>5
<1>6. ASSUME NEW k \in Workers, MarkCompleted(k)
      PROVE  Kept
  <2>1. /\ ~At(k, "idle") /\ AtWeek(job[k]) /\ job[k].week \in Weeks
        /\ recap[job[k].week] = "all"
        /\ UNCHANGED <<events, recap, sent, contested, faults, forced>>
    BY <1>6 DEF MarkCompleted, At, AtWeek, Honest
  <2>2. /\ job' \in [Workers -> Job] /\ job'[k].pc = "targets"
        /\ \A q \in Workers \ {k} : job'[q] = job[q]
        /\ job'[k].week = job[k].week
    BY <1>6, <2>1, GotoJob DEF MarkCompleted
  <2>3. run' \in [Weeks -> Run]
    BY <1>6, <1>t, <2>1 DEF MarkCompleted, Documents, Run
  <2>4. \A w \in Weeks :
          /\ run'[w].notified = run[w].notified
          /\ w # job[k].week => run'[w] = run[w]
    BY <1>6, <1>t, <2>1 DEF MarkCompleted, Documents, Run
  <2>5. CompletedMeansDone'
    BY <2>1, <2>4 DEF CompletedMeansDone
  <2>6. Honest(job[k])'
    BY <2>1, <2>2 DEF Honest, AtWeek
  <2>7. Documents' /\ Counters'
    BY <2>1, <2>3, <1>t DEF Documents, Counters
  <2> QED
    BY <1>h, <2>1, <2>2, <2>5, <2>6, <2>7, StepHonest, TypeNext DEF Kept
<1>7. ASSUME NEW k \in Workers, MarkFailed(k)
      PROVE  Kept
  <2>1. /\ job[k].week \in Weeks /\ Restarts(k)
        /\ UNCHANGED <<events, recap, sent, contested, faults, forced>>
    BY <1>7, NextWeekJob DEF MarkFailed, At, AtWeek, Honest
  <2>2. run' \in [Weeks -> Run]
    <3>1. PICK d \in Run : d = run[job[k].week]
      BY <1>t, <2>1 DEF Documents
    <3>2. [d EXCEPT !.status = "failed", !.lock = "none"] \in Run
      BY DEF Run
    <3> QED
      BY <1>7, <1>t, <2>1, <3>1, <3>2 DEF MarkFailed, Documents
  <2>3. \A w \in Weeks : /\ run'[w].status = "completed" => run[w].status = "completed"
                         /\ run'[w].notified = run[w].notified
    BY <1>7, <1>t, <2>1 DEF MarkFailed, Documents, Run
  <2>4. Documents' /\ Counters' /\ CompletedMeansDone'
    BY <2>1, <2>2, <2>3, <1>t DEF Documents, Counters, CompletedMeansDone
  <2> QED
    BY <2>1, <2>4, RestartHonest, TypeNext DEF Kept, Restarts
<1>8. ASSUME NEW k \in Workers, ReadTargets(k)
      PROVE  Kept
  <2>1. /\ job[k].week \in Weeks /\ recap[job[k].week] = "all"
        /\ UNCHANGED <<events, run, recap, sent, contested, faults, forced>>
    BY <1>8 DEF ReadTargets, At, AtWeek, Honest
  <2>2. /\ job' \in [Workers -> Job] /\ job'[k].pc = "notify"
        /\ \A q \in Workers \ {k} : job'[q] = job[q]
        /\ job'[k].week = job[k].week /\ job'[k].targets = "all"
    <3>1. PICK j \in Job : j = job[k]
      BY <1>t
    <3>2. PICK i : i = [j EXCEPT !.pc = "notify", !.targets = "all"]
      OBVIOUS
    <3>3. i \in Job /\ i.pc = "notify" /\ i.week = j.week /\ i.targets = "all"
      BY <3>2 DEF Job, Extent
    <3>4. job' = [job EXCEPT ![k] = i]
      BY <1>8, <1>t, <2>1, <3>1, <3>2 DEF ReadTargets
    <3> QED
      BY <1>t, <3>1, <3>3, <3>4
  <2>3. Honest(job[k])'
    BY <2>1, <2>2 DEF Honest, AtWeek
  <2>4. Documents' /\ Counters' /\ CompletedMeansDone'
    BY <2>1, <1>t DEF Documents, Counters, CompletedMeansDone
  <2> QED
    BY <1>h, <2>1, <2>2, <2>3, <2>4, StepHonest, TypeNext DEF Kept
<1>9. ASSUME NEW k \in Workers, SendNotifications(k)
      PROVE  Kept
  <2>1. /\ ~At(k, "idle") /\ AtWeek(job[k]) /\ job[k].week \in Weeks
        /\ recap[job[k].week] = "all" /\ job[k].targets = "all"
        /\ UNCHANGED <<events, run, recap, contested, faults, forced>>
    BY <1>9 DEF SendNotifications, At, AtWeek, Honest
  <2>2. /\ job' \in [Workers -> Job] /\ job'[k].pc = "marknotified"
        /\ \A q \in Workers \ {k} : job'[q] = job[q]
        /\ job'[k].week = job[k].week
    BY <1>9, <2>1, GotoJob DEF SendNotifications
  <2>3. /\ sent' \in [Weeks -> Extent] /\ sent'[job[k].week] = "all"
        /\ \A w \in Weeks : sent[w] = "all" => sent'[w] = "all"
    BY <1>9, <1>t, <2>1 DEF SendNotifications, Documents, Extent
  <2>4. Honest(job[k])'
    BY <2>1, <2>2, <2>3 DEF Honest, AtWeek
  <2>5. Documents' /\ Counters' /\ CompletedMeansDone'
    BY <2>1, <2>3, <1>t DEF Documents, Counters, CompletedMeansDone
  <2> QED
    BY <1>h, <2>1, <2>2, <2>3, <2>4, <2>5, StepHonest, TypeNext DEF Kept
<1>10. ASSUME NEW k \in Workers, MarkNotified(k)
       PROVE  Kept
  <2>1. /\ job[k].week \in Weeks /\ sent[job[k].week] = "all" /\ Restarts(k)
        /\ UNCHANGED <<events, recap, sent, contested, faults, forced>>
    BY <1>10, NextWeekJob DEF MarkNotified, At, AtWeek, Honest
  <2>2. run' \in [Weeks -> Run]
    BY <1>10, <1>t, <2>1 DEF MarkNotified, Documents, Run
  <2>3. \A w \in Weeks : /\ run'[w].status = run[w].status
                         /\ run'[w].notified => run[w].notified \/ w = job[k].week
    BY <1>10, <1>t, <2>1 DEF MarkNotified, Documents, Run
  <2>4. Documents' /\ Counters' /\ CompletedMeansDone'
    BY <2>1, <2>2, <2>3, <1>t DEF Documents, Counters, CompletedMeansDone
  <2> QED
    BY <2>1, <2>4, RestartHonest, TypeNext DEF Kept, Restarts
<1>11. ASSUME NEW k \in Workers, FailInTry(k)
       PROVE  Kept
  <2>1. /\ ~At(k, "idle") /\ AtWeek(job[k]) /\ Goto(k, "failing")
        /\ UNCHANGED <<events, run, recap, sent, contested>>
    BY <1>11 DEF FailInTry, At, Honest
  <2>2. /\ job' \in [Workers -> Job] /\ job'[k].pc = "failing"
        /\ \A q \in Workers \ {k} : job'[q] = job[q]
        /\ job'[k].week \in Weeks
    BY <2>1, GotoJob
  <2>3. Honest(job[k])'
    BY <2>2 DEF Honest, AtWeek
  <2>4. Documents' /\ CompletedMeansDone'
    BY <2>1, <1>t DEF Documents, CompletedMeansDone
  <2>5. Counters'
    BY <1>11, <1>t, FaultType DEF FailInTry
  <2> QED
    BY <1>h, <2>1, <2>2, <2>3, <2>4, <2>5, StepHonest, TypeNext DEF Kept
<1>12. ASSUME NEW k \in Workers, FailToNotify(k)
       PROVE  Kept
  <2>1. UNCHANGED <<events, run, recap, contested>>
    BY <1>12 DEF FailToNotify
  <2>2. /\ sent' \in [Weeks -> Extent]
        /\ \A w \in Weeks : sent[w] = "all" => sent'[w] = "all"
    BY <1>12, <1>t DEF FailToNotify, Documents, Extent
  <2>3. Documents' /\ CompletedMeansDone'
    BY <2>1, <2>2, <1>t DEF Documents, CompletedMeansDone
  <2>4. Counters'
    BY <1>12, <1>t, FaultType DEF FailToNotify
  <2>5. CASE Restarts(k)
    BY <2>1, <2>2, <2>3, <2>4, <2>5, RestartHonest, TypeNext DEF Kept, Restarts
  <2>6. CASE ~Restarts(k)
    <3>1. /\ job' \in [Workers -> Job]
          /\ \A q \in Workers \ {k} : job'[q] = job[q]
          /\ job'[k].pc = "rejected" /\ job'[k].week \in Weeks
      BY <1>12, <2>6, FailToNotifyJob DEF Honest
    <3>2. Honest(job[k])'
      BY <3>1 DEF Honest, AtWeek
    <3> QED
      BY <1>h, <2>1, <2>2, <2>3, <2>4, <3>1, <3>2, StepHonest, TypeNext DEF Kept
  <2> QED
    BY <2>5, <2>6
<1>13. ASSUME NEW k \in Workers, Abandon(k)
       PROVE  Kept
  <2>1. Restarts(k) /\ UNCHANGED <<events, run, recap, sent, contested>>
    BY <1>13, NextWeekJob DEF Abandon
  <2>2. Documents' /\ CompletedMeansDone'
    BY <2>1, <1>t DEF Documents, CompletedMeansDone
  <2>3. Counters'
    BY <1>13, <1>t, FaultType DEF Abandon
  <2> QED
    BY <2>1, <2>2, <2>3, RestartHonest, TypeNext DEF Kept, Restarts
<1>14. ASSUME NEW w \in Weeks, LeaseExpires(w)
       PROVE  Kept
  <2>1. UNCHANGED <<events, recap, sent, job, faults, forced>>
    BY <1>14 DEF LeaseExpires
  <2>2. run' \in [Weeks -> Run] /\ contested' \subseteq Weeks
    BY <1>14, <1>t DEF LeaseExpires, Documents, Run
  <2>3. \A v \in Weeks : /\ run'[v].status = run[v].status
                         /\ run'[v].notified = run[v].notified
    BY <1>14, <1>t DEF LeaseExpires, Documents, Run
  <2>4. Documents' /\ Counters' /\ CompletedMeansDone'
    BY <2>1, <2>2, <2>3, <1>t DEF Documents, Counters, CompletedMeansDone
  <2>5. \A q \in Workers : Honest(job[q])'
    BY <1>h, <2>1 DEF Honest, AtWeek
  <2> QED
    BY <1>t, <2>1, <2>4, <2>5, TypeNext DEF Kept
<1>15. CASE UNCHANGED vars
  <2>1. Documents' /\ Counters' /\ CompletedMeansDone'
    BY <1>15, <1>t DEF vars, Documents, Counters, CompletedMeansDone
  <2>2. \A q \in Workers : Honest(job[q])'
    BY <1>h, <1>15 DEF vars, Honest, AtWeek
  <2>3. job' = job
    BY <1>15 DEF vars
  <2> QED
    BY <1>t, <2>1, <2>2, <2>3, TypeNext DEF Kept
<1> QED
  BY <1>1, <1>2, <1>3, <1>4, <1>5, <1>6, <1>7, <1>8, <1>9, <1>10, <1>11, <1>12,
     <1>13, <1>14, <1>15 DEF Next, Step

(* The initial states satisfy it.                                          *)
LEMMA RecapInit == Init => RecapInv
<1> SUFFICES ASSUME Init PROVE RecapInv
  OBVIOUS
<1>d. Documents
  BY DEF Init, Documents, Run, Extent
<1>c. Counters
  BY BoundsAssumption DEF Init, Counters
<1>1. Documents /\ Counters /\ job \in [Workers -> Job]
  BY <1>d, <1>c, FreshJob, Zenon DEF Init
<1>2. CompletedMeansDone
  BY DEF Init, CompletedMeansDone
<1>3. \A k \in Workers : Honest(job[k])
  BY FreshJob DEF Init, Honest, AtWeek
<1> QED
  BY <1>1, <1>2, <1>3, TypeIs, RecapInvIs

(* The invariant that ties runs, recaps and notifications to what the      *)
(* workers have done holds of every week-by-week interleaving of workers   *)
(* that are late, fail, crash or are forced.                               *)
THEOREM RecapCorrect == Spec => []RecapInv
BY RecapInit, RecapStep, PTL DEF Spec

(* COMPLETED and notified never lie about the recaps and notifications     *)
(* written (markCompleted and createRecapReadyNotifications).              *)
THEOREM CompletedMeansDoneCorrect == Spec => []CompletedMeansDone
<1>1. RecapInv => CompletedMeansDone
  BY DEF RecapInv
<1> QED
  BY <1>1, RecapCorrect, PTL

-----------------------------------------------------------------------------
(* The lease                                                               *)

(* A step that starts no work, leaves the status and the lease of a run    *)
(* that is being worked on, and keeps completed what others rely on, of    *)
(* every week that is not contested.                                       *)
Quiet ==
  \A w \in Weeks \ contested', k \in Workers :
    /\ w \notin contested
    /\ Working(k, w)' => /\ Working(k, w)
                         /\ run'[w].status = run[w].status
                         /\ run'[w].lock = run[w].lock
    /\ Telling(k, w)' => run'[w].status = "completed"

(* Such a step keeps the lease exclusive.                                  *)
LEMMA QuietStep == LeaseInv /\ Quiet => LeaseInv'
<1> SUFFICES ASSUME LeaseInv, Quiet PROVE LeaseInv'
  OBVIOUS
<1>1. ASSUME NEW w \in Weeks, w \notin contested', NEW k1 \in Workers,
             NEW k2 \in Workers, Working(k1, w)', Working(k2, w)'
      PROVE  k1 = k2
  <2>1. w \in Weeks \ contested /\ Working(k1, w) /\ Working(k2, w)
    BY <1>1 DEF Quiet
  <2> QED
    BY <2>1 DEF LeaseInv, LeaseIsExclusive
<1>2. ASSUME NEW w \in Weeks, w \notin contested', NEW k \in Workers, Working(k, w)'
      PROVE  run'[w].status = "running" /\ run'[w].lock = "fresh"
  <2>1. /\ w \in Weeks \ contested /\ Working(k, w)
        /\ run'[w].status = run[w].status /\ run'[w].lock = run[w].lock
    BY <1>2 DEF Quiet
  <2> QED
    BY <2>1 DEF LeaseInv
<1>3. ASSUME NEW w \in Weeks, w \notin contested', NEW k \in Workers, Telling(k, w)'
      PROVE  run'[w].status = "completed"
  BY <1>3 DEF Quiet
<1>4. LeaseIsExclusive'
  BY <1>1 DEF LeaseIsExclusive
<1> QED
  BY <1>2, <1>3, <1>4 DEF LeaseInv

(* A step that leaves the runs alone, in which nobody starts work and only *)
(* a completed run is told about.                                          *)
LEMMA NoWork ==
  ASSUME LeaseInv, NEW k \in Workers, \A q \in Workers \ {k} : job'[q] = job[q],
         UNCHANGED <<run, contested>>,
         \A w \in Weeks : Working(k, w)' => Working(k, w),
         \A w \in Weeks :
           Telling(k, w)' => Telling(k, w) \/ run[w].status = "completed"
  PROVE  LeaseInv'
<1>1. \A q \in Workers, w \in Weeks :
        /\ Working(q, w)' => Working(q, w)
        /\ Telling(q, w)' => Telling(q, w) \/ run[w].status = "completed"
  BY DEF Working, Telling
<1>2. Quiet
  BY <1>1 DEF Quiet, LeaseInv
<1> QED
  BY <1>2, QuietStep

(* Every step keeps LeaseInv.                                              *)
LEMMA LeaseStep == RecapInv /\ LeaseInv /\ [Next]_vars => LeaseInv'
<1> SUFFICES ASSUME TypeOK, \A q \in Workers : Honest(job[q]), LeaseInv,
                    [Next]_vars
             PROVE  LeaseInv'
  BY RecapInvIs
<1>t. Documents /\ job \in [Workers -> Job]
  BY TypeIs
<1>r. ASSUME NEW k \in Workers, Restarts(k)
      PROVE  /\ \A q \in Workers \ {k} : job'[q] = job[q]
             /\ \A w \in Weeks : ~Working(k, w)' /\ ~Telling(k, w)'
  BY <1>r DEF Restarts, Working, Telling
<1>g. ASSUME NEW k \in Workers, ~At(k, "idle"),
             NEW pc \in {"claim", "refused", "write", "complete", "failing",
                         "targets", "notify", "marknotified", "aggregate"},
             Goto(k, pc)
      PROVE  /\ job[k].week \in Weeks
             /\ \A q \in Workers \ {k} : job'[q] = job[q]
             /\ job'[k].pc = pc /\ job'[k].week = job[k].week
  BY <1>g, GotoJob DEF Honest
<1>1. ASSUME NEW k \in Workers, CatchUp(k)
      PROVE  LeaseInv'
  <2>1. Restarts(k) /\ UNCHANGED <<run, contested>>
    BY <1>1, AttemptJob DEF CatchUp, Oldest
  <2> QED
    BY <2>1, <1>r, NoWork
<1>2. ASSUME NEW k \in Workers, NEW force \in BOOLEAN, RunScript(k, force)
      PROVE  LeaseInv'
  <2>1. PICK w \in Weeks :
          job' = [job EXCEPT ![k] = [Idle EXCEPT !.pc = "ensure", !.week = w,
                                                 !.force = force]]
    BY <1>2 DEF RunScript
  <2>2. UNCHANGED <<run, contested>>
    BY <1>2 DEF RunScript
  <2>3. /\ \A q \in Workers \ {k} : job'[q] = job[q]
        /\ job'[k].pc = "ensure"
    BY <2>1, <1>t DEF Idle
  <2> QED
    BY <2>2, <2>3, NoWork DEF Working, Telling
<1>3. ASSUME NEW k \in Workers, EnsureRunDocument(k)
      PROVE  LeaseInv'
  <2>1. /\ job[k].week \in Weeks /\ job'[k].pc = "claim" /\ contested' = contested
        /\ \A q \in Workers \ {k} : job'[q] = job[q]
    BY <1>3, <1>g DEF EnsureRunDocument, At
  <2>2. \A w \in Weeks : /\ run'[w].lock = run[w].lock
                         /\ run[w].status # "absent" =>
                              run'[w].status = run[w].status
    BY <1>3, <1>t, <2>1 DEF EnsureRunDocument, Documents, Run
  <2>3. \A q \in Workers, w \in Weeks :
          /\ Working(q, w)' => Working(q, w)
          /\ Telling(q, w)' => Telling(q, w)
    BY <2>1 DEF Working, Telling
  <2>4. Quiet
    BY <2>1, <2>2, <2>3 DEF Quiet, LeaseInv
  <2> QED
    BY <2>4, QuietStep
<1>4. ASSUME NEW k \in Workers, ClaimRun(k)
      PROVE  LeaseInv'
  <2>1. ~At(k, "idle") /\ job[k].week \in Weeks
    BY <1>4 DEF ClaimRun, At, Honest, AtWeek
  <2>2. CASE ~Claimable(run[job[k].week], job[k].force)
    <3>1. /\ job'[k].pc = "refused" /\ UNCHANGED <<run, contested>>
          /\ \A q \in Workers \ {k} : job'[q] = job[q]
      BY <1>4, <1>g, <2>1, <2>2 DEF ClaimRun
    <3> QED
      BY <3>1, NoWork DEF Working, Telling
  <2>3. CASE Claimable(run[job[k].week], job[k].force)
    <3> PICK w \in Weeks : w = job[k].week
      BY <2>1
    <3>a. /\ job' = [job EXCEPT ![k].pc = "aggregate", ![k].claimed = TRUE]
          /\ run' = [run EXCEPT ![w].status = "running", ![w].lock = "fresh"]
          /\ contested' = IF run[w].status = "completed" THEN contested \cup {w}
                                                        ELSE contested
      BY <1>4, <2>3 DEF ClaimRun
    <3>1. /\ job'[k].pc = "aggregate" /\ job'[k].week = w
          /\ \A q \in Workers \ {k} : job'[q] = job[q]
      BY <3>a, ClaimJob
    <3>2. /\ run'[w].status = "running" /\ run'[w].lock = "fresh"
          /\ \A v \in Weeks \ {w} : run'[v] = run[v]
      BY <3>a, <1>t DEF Documents, Run
    <3>3. w \notin contested => \A q \in Workers : ~Working(q, w)
      BY <2>3 DEF LeaseInv, Claimable
    <3>c. /\ contested \subseteq contested'
          /\ w \notin contested' => run[w].status # "completed"
      BY <3>a
    <3>4. \A q \in Workers, v \in Weeks :
            /\ v # w /\ Working(q, v)' => Working(q, v)
            /\ Telling(q, v)' => Telling(q, v)
      BY <3>1 DEF Working, Telling
    <3>5. \A q \in Workers : w \notin contested /\ Working(q, w)' => q = k
      BY <3>1, <3>3 DEF Working
    <3>6. ASSUME NEW v \in Weeks, v \notin contested', NEW q \in Workers, Working(q, v)'
          PROVE  run'[v].status = "running" /\ run'[v].lock = "fresh"
      BY <3>c, <3>2, <3>4, <3>6 DEF LeaseInv
    <3>7. ASSUME NEW v \in Weeks, v \notin contested', NEW k1 \in Workers,
                 NEW k2 \in Workers, Working(k1, v)', Working(k2, v)'
          PROVE  k1 = k2
      BY <3>c, <3>4, <3>5, <3>7 DEF LeaseInv, LeaseIsExclusive
    <3>9. ASSUME NEW v \in Weeks, v \notin contested', NEW q \in Workers, Telling(q, v)'
          PROVE  run'[v].status = "completed"
      BY <3>c, <3>2, <3>4, <3>9 DEF LeaseInv
    <3>8. LeaseIsExclusive'
      BY <3>7 DEF LeaseIsExclusive
    <3> QED
      BY <3>6, <3>8, <3>9 DEF LeaseInv
  <2> QED
    BY <2>2, <2>3
<1>5. ASSUME NEW k \in Workers, ReadRefused(k)
      PROVE  LeaseInv'
  <2>1. UNCHANGED <<run, contested>> /\ ~At(k, "idle")
    BY <1>5 DEF ReadRefused, At
  <2>2. CASE Stop(k) \/ NextWeek(k)
    BY <2>1, <2>2, <1>r, NextWeekJob, NoWork
  <2>3. CASE Goto(k, "targets") /\ run[job[k].week].status = "completed"
    <3>1. /\ job'[k].pc = "targets" /\ job'[k].week = job[k].week
          /\ \A q \in Workers \ {k} : job'[q] = job[q]
      BY <1>g, <2>1, <2>3
    <3> QED
      BY <2>1, <2>3, <3>1, NoWork DEF Working, Telling
  <2> QED
    BY <1>5, <2>2, <2>3, Zenon DEF ReadRefused
<1>6. ASSUME NEW k \in Workers, WriteSome(k) \/ WriteRest(k) \/ FailInTry(k)
      PROVE  LeaseInv'
  <2>1. PICK pc \in {"write", "complete", "failing"} : Goto(k, pc)
    BY <1>6 DEF WriteSome, WriteRest, FailInTry
  <2>2. /\ UNCHANGED <<run, contested>> /\ ~At(k, "idle")
        /\ job[k].pc \in {"aggregate", "write", "complete", "failing"}
    BY <1>6 DEF WriteSome, WriteRest, FailInTry, At
  <2>3. /\ \A q \in Workers \ {k} : job'[q] = job[q]
        /\ job'[k].week = job[k].week /\ job'[k].pc = pc
    BY <1>g, <2>1, <2>2
  <2> QED
    BY <2>2, <2>3, NoWork DEF Working, Telling
<1>7. ASSUME NEW k \in Workers, MarkCompleted(k) \/ MarkFailed(k)
      PROVE  LeaseInv'
  <2>1. /\ contested' = contested /\ ~At(k, "idle") /\ job[k].week \in Weeks
    BY <1>7 DEF MarkCompleted, MarkFailed, At, Honest, AtWeek
  <2> PICK w \in Weeks : w = job[k].week
    BY <2>1
  <2>2. \A v \in Weeks \ {w} : run'[v] = run[v]
    BY <1>7, <1>t DEF MarkCompleted, MarkFailed, Documents, Run
  <2>3. /\ \A q \in Workers \ {k} : job'[q] = job[q]
        /\ \A v \in Weeks : ~Working(k, v)'
        /\ \A v \in Weeks : Telling(k, v)' => v = w /\ MarkCompleted(k)
    <3>1. CASE MarkCompleted(k)
      BY <3>1, <1>g, <2>1 DEF MarkCompleted, Working, Telling
    <3>2. CASE MarkFailed(k)
      BY <3>2, <1>r, NextWeekJob DEF MarkFailed
    <3> QED
      BY <1>7, <3>1, <3>2
  <2>4. \A q \in Workers, v \in Weeks :
          /\ Working(q, v)' => q # k /\ Working(q, v)
          /\ q # k /\ Telling(q, v)' => Telling(q, v)
    BY <2>3 DEF Working, Telling
  <2>5. CASE w \in contested
    <3>1. Quiet
      BY <2>1, <2>2, <2>3, <2>4, <2>5 DEF Quiet, LeaseInv
    <3> QED
      BY <3>1, QuietStep
  <2>6. CASE w \notin contested /\ Telling(k, w)
    <3>1. run[w].status = "completed" /\ MarkFailed(k)
      BY <1>7, <2>6 DEF LeaseInv, Telling, MarkCompleted, At
    <3>2. run' = run
      BY <3>1, <1>t DEF MarkFailed, Documents, Run
    <3> QED
      BY <2>1, <2>3, <3>1, <3>2, NoWork
  <2>7. CASE w \notin contested /\ Working(k, w)
    <3>1. run[w].status = "running"
      BY <2>7 DEF LeaseInv
    <3>2. \A q \in Workers : ~Telling(q, w)
      BY <3>1, <2>7 DEF LeaseInv
    <3>3. \A q \in Workers, v \in Weeks \ contested : Working(q, v)' => v # w
      BY <2>4, <2>7 DEF LeaseInv, LeaseIsExclusive
    <3>4. MarkCompleted(k) => run'[w].status = "completed"
      BY <3>1, <1>t DEF MarkCompleted, Documents, Run
    <3>5. \A q \in Workers, v \in Weeks \ contested :
            Telling(q, v)' => run'[v].status = "completed"
      BY <2>2, <2>3, <2>4, <3>2, <3>4 DEF LeaseInv
    <3>6. Quiet
      BY <2>1, <2>2, <2>4, <3>3, <3>5 DEF Quiet
    <3> QED
      BY <3>6, QuietStep
  <2>8. Working(k, w) \/ Telling(k, w)
    BY <1>7 DEF MarkCompleted, MarkFailed, At, Working, Telling
  <2> QED
    BY <2>5, <2>6, <2>7, <2>8
<1>8. ASSUME NEW k \in Workers, ReadTargets(k) \/ SendNotifications(k)
      PROVE  LeaseInv'
  <2>1. UNCHANGED <<run, contested>> /\ job[k].pc \in {"targets", "notify"}
    BY <1>8 DEF ReadTargets, SendNotifications, At
  <2>2. /\ \A q \in Workers \ {k} : job'[q] = job[q]
        /\ job'[k].pc \in {"notify", "marknotified"} /\ job'[k].week = job[k].week
    BY <1>8, <1>t DEF ReadTargets, SendNotifications, Goto, Job
  <2> QED
    BY <2>1, <2>2, NoWork DEF Working, Telling
<1>9. ASSUME NEW k \in Workers, MarkNotified(k)
      PROVE  LeaseInv'
  <2>1. Restarts(k) /\ contested' = contested /\ job[k].week \in Weeks
    BY <1>9, NextWeekJob DEF MarkNotified, Honest, AtWeek, At
  <2>2. \A w \in Weeks : /\ run'[w].status = run[w].status
                         /\ run'[w].lock = run[w].lock
    BY <1>9, <1>t, <2>1 DEF MarkNotified, Documents, Run
  <2>3. \A q \in Workers, w \in Weeks : /\ Working(q, w)' => Working(q, w)
                                        /\ Telling(q, w)' => Telling(q, w)
    BY <2>1, <1>r DEF Working, Telling
  <2>4. Quiet
    BY <2>1, <2>2, <2>3 DEF Quiet, LeaseInv
  <2> QED
    BY <2>4, QuietStep
<1>10. ASSUME NEW k \in Workers, FailToNotify(k)
       PROVE  LeaseInv'
  <2>1. UNCHANGED <<run, contested>>
    BY <1>10 DEF FailToNotify
  <2>2. CASE Restarts(k)
    BY <2>1, <2>2, <1>r, NoWork
  <2>3. CASE ~Restarts(k)
    <3>1. /\ \A q \in Workers \ {k} : job'[q] = job[q]
          /\ job'[k].pc = "rejected" /\ job'[k].week = job[k].week
          /\ job[k].pc \in {"targets", "notify", "marknotified"}
      BY <1>10, <2>3, FailToNotifyJob DEF Honest
    <3> QED
      BY <2>1, <3>1, NoWork DEF Working, Telling
  <2> QED
    BY <2>2, <2>3
<1>13. ASSUME NEW k \in Workers, Abandon(k)
       PROVE  LeaseInv'
  <2>1. Restarts(k) /\ UNCHANGED <<run, contested>>
    BY <1>13, NextWeekJob DEF Abandon
  <2> QED
    BY <2>1, <1>r, NoWork
<1>11. ASSUME NEW w \in Weeks, LeaseExpires(w)
       PROVE  LeaseInv'
  <2>1. contested' = contested \cup {w} /\ job' = job
    BY <1>11 DEF LeaseExpires
  <2>2. \A v \in Weeks \ {w} : run'[v] = run[v]
    BY <1>11, <1>t DEF LeaseExpires, Documents, Run
  <2>3. \A q \in Workers, v \in Weeks : /\ Working(q, v)' => Working(q, v)
                                        /\ Telling(q, v)' => Telling(q, v)
    BY <2>1 DEF Working, Telling
  <2>4. Quiet
    BY <2>1, <2>2, <2>3 DEF Quiet, LeaseInv
  <2> QED
    BY <2>4, QuietStep
<1>12. CASE UNCHANGED vars
  <2>1. UNCHANGED <<run, contested, job>>
    BY <1>12 DEF vars
  <2>2. \A q \in Workers, v \in Weeks : /\ Working(q, v)' => Working(q, v)
                                        /\ Telling(q, v)' => Telling(q, v)
    BY <2>1 DEF Working, Telling
  <2>3. Quiet
    BY <2>1, <2>2 DEF Quiet, LeaseInv
  <2> QED
    BY <2>3, QuietStep
<1> QED
  BY <1>1, <1>2, <1>3, <1>4, <1>5, <1>6, <1>7, <1>8, <1>9, <1>10, <1>11, <1>12,
     <1>13
  DEF Next, Step

(* Nobody is at work in an initial state.                                  *)
LEMMA LeaseInit == Init => LeaseInv
<1> SUFFICES ASSUME Init PROVE LeaseInv
  OBVIOUS
<1>1. \A k \in Workers : job[k].pc = "idle"
  BY FreshJob DEF Init
<1>2. \A k \in Workers, w \in Weeks : ~Working(k, w) /\ ~Telling(k, w)
  BY <1>1 DEF Working, Telling
<1> QED
  BY <1>2 DEF LeaseInv, LeaseIsExclusive

(* While no lease of a week has run out and no completed run of it was     *)
(* reopened, at most one worker at a time is between its claim and its     *)
(* mark (claimRun's filter on lockedUntil).                                *)
THEOREM LeaseIsExclusiveCorrect == Spec => []LeaseIsExclusive
<1>1. LeaseInv => LeaseIsExclusive
  BY DEF LeaseInv
<1> QED
  BY <1>1, RecapCorrect, LeaseInit, LeaseStep, PTL DEF Spec

-----------------------------------------------------------------------------
(* Completion                                                              *)

(* The forced claim is the only step that takes a completed run back.      *)
TakenBack ==
  \A w \in Weeks :
    run[w].status = "completed" /\ run'[w].status # "completed" =>
      /\ run'[w].status = "running"
      /\ \E k \in Workers : job[k].force /\ job[k].week = w /\ At(k, "claim")

(* Every step keeps to it.                                                 *)
LEMMA CompletedStep == RecapInv /\ [Next]_vars => TakenBack
<1> SUFFICES ASSUME RecapInv, [Next]_vars PROVE TakenBack
  OBVIOUS
<1>t. /\ run \in [Weeks -> Run]
      /\ \A k \in Workers : ~At(k, "idle") => job[k].week \in Weeks
  BY DEF RecapInv, TypeOK, At
<1>1. CASE UNCHANGED run
  BY <1>1 DEF TakenBack
<1>2. ASSUME NEW k \in Workers, ClaimRun(k)
      PROVE  TakenBack
  <2>1. job[k].week \in Weeks
    BY <1>2, <1>t DEF ClaimRun, At
  <2>2. CASE Claimable(run[job[k].week], job[k].force)
    <3>1. run' = [run EXCEPT ![job[k].week].status = "running",
                             ![job[k].week].lock = "fresh"]
      BY <1>2, <2>2 DEF ClaimRun
    <3>2. /\ \A w \in Weeks \ {job[k].week} : run'[w] = run[w]
          /\ run'[job[k].week].status = "running"
      BY <3>1, <2>1, <1>t DEF Run
    <3>3. run[job[k].week].status = "completed" => job[k].force
      BY <2>2 DEF Claimable
    <3>4. At(k, "claim")
      BY <1>2 DEF ClaimRun
    <3> QED
      BY <3>2, <3>3, <3>4 DEF TakenBack
  <2> QED
    BY <1>1, <1>2, <2>2 DEF ClaimRun
<1>3. ASSUME NEW k \in Workers,
             EnsureRunDocument(k) \/ MarkCompleted(k) \/ MarkFailed(k)
               \/ MarkNotified(k)
      PROVE  TakenBack
  <2>1. job[k].week \in Weeks
    BY <1>3, <1>t DEF EnsureRunDocument, MarkCompleted, MarkFailed, MarkNotified, At
  <2>2. \A w \in Weeks :
          run[w].status = "completed" => run'[w].status = "completed"
    BY <1>3, <1>t, <2>1
    DEF EnsureRunDocument, MarkCompleted, MarkFailed, MarkNotified, Run
  <2> QED
    BY <2>2 DEF TakenBack
<1>4. ASSUME NEW w \in Weeks, LeaseExpires(w)
      PROVE  TakenBack
  BY <1>4, <1>t DEF LeaseExpires, TakenBack, Run
<1>5. CASE UNCHANGED vars
  BY <1>1, <1>5 DEF vars
<1> QED
  BY <1>1, <1>2, <1>3, <1>4, <1>5
  DEF Next, Step, CatchUp, RunScript, ReadRefused, WriteSome, WriteRest,
      ReadTargets, SendNotifications, FailInTry, FailToNotify, Abandon

(* A worker that outlived its lease and failed cannot undo what another    *)
(* completed (markFailed's filter on status RUNNING).                      *)
THEOREM CompletedIsKeptCorrect == Spec => CompletedIsKept
<1>1. RecapInv /\ [Next]_vars => TakenBack
  BY CompletedStep
<1>2. RecapInv /\ [Next]_vars => [TakenBack]_vars
  BY <1>1
<1> QED
  BY <1>2, RecapCorrect, PTL DEF Spec, CompletedIsKept, TakenBack
=============================================================================
