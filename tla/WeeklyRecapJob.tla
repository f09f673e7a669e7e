--------------------------- MODULE WeeklyRecapJob ---------------------------
(***************************************************************************)
(* The weekly recap job: one weekly_recap_runs document per completed week *)
(* is claimed under a lease of 30 minutes, the recaps of the week are      *)
(* aggregated from the engagement events, and their owners are notified.   *)
(*                                                                         *)
(*   src/src/modules/recap/services/weekly-recap-job.service.ts            *)
(*   src/src/modules/recap/services/recap.service.ts                       *)
(*   src/src/modules/cron/services/tasks.service.ts                        *)
(*   src/src/scripts/run-weekly-recap-job.ts                               *)
(*                                                                         *)
(* A worker is a process that runs the catch-up (the cron of an instance   *)
(* of the API, or its script) or the script for one week.  Nothing in the  *)
(* run document names the worker that claimed it, so one that outlives its *)
(* lease goes on writing.                                                  *)
(***************************************************************************)
EXTENDS Integers, FiniteSets

CONSTANTS
  Weeks,      \* completed weeks inside the lookback, by their order in time
  Workers,
  NoWeek,
  MaxWeeks,   \* weeks one catch-up attempts at most
  MaxFaults,  \* bound: failures and crashes
  MaxForced   \* bound: runs of the script for one week

ASSUME WeeksAssumption == Weeks \subseteq Int /\ IsFiniteSet(Weeks) /\ Weeks # {}
ASSUME NoWeekAssumption == NoWeek \in Int \ Weeks
ASSUME MaxWeeksAssumption == MaxWeeks \in Nat \ {0}
ASSUME BoundsAssumption == MaxFaults \in Nat /\ MaxForced \in Nat

VARIABLES
  events,  \* weeks that have engagement events
  run,     \* weekly_recap_runs collection
  recap,   \* how much of a week's recaps is written
  sent,    \* how many owners of a week's recaps have their notification
  job,     \* what each worker is doing
  contested,  \* ghost: weeks of which a lease ran out, or that were reopened
  faults, forced

vars == <<events, run, recap, sent, job, contested, faults, forced>>

Extent == {"none", "some", "all"}

Run == [status   : {"absent", "pending", "running", "completed", "failed"},
        lock     : {"none", "fresh", "expired"},  \* lockedUntil
        notified : BOOLEAN]                       \* notificationsCreatedAt

Idle == [pc |-> "idle", week |-> NoWeek, todo |-> {}, force |-> FALSE,
         claimed |-> FALSE, targets |-> "none"]

Job == [pc      : {"idle", "ensure", "claim", "refused", "aggregate", "write",
                   "complete", "failing", "targets", "notify", "marknotified",
                   "rejected"},
        week    : Weeks \cup {NoWeek},
        todo    : SUBSET Weeks,  \* candidates the catch-up has still to attempt
        force   : BOOLEAN,
        claimed : BOOLEAN,       \* runForWeek is inside its try
        targets : Extent]        \* the recaps found when notifying began

TypeOK ==
  /\ events \subseteq Weeks
  /\ run \in [Weeks -> Run]
  /\ recap \in [Weeks -> Extent]
  /\ sent \in [Weeks -> Extent]
  /\ job \in [Workers -> Job]
  /\ contested \subseteq Weeks
  /\ faults \in 0..MaxFaults
  /\ forced \in 0..MaxForced

At(k, pc) == job[k].pc = pc

Goto(k, pc) == job' = [job EXCEPT ![k].pc = pc]

(* runForWeek is called for the oldest of the candidates.                  *)
Attempt(k, todo) ==
  \E w \in todo :
    /\ \A v \in todo : w <= v
    /\ job' = [job EXCEPT ![k] = [Idle EXCEPT !.pc = "ensure", !.week = w,
                                             !.todo = todo \ {w}]]

(* runForWeek returns: the catch-up goes on to its next candidate.         *)
NextWeek(k) ==
  \/ Attempt(k, job[k].todo)
  \/ job[k].todo = {} /\ job' = [job EXCEPT ![k] = Idle]

(* runForWeek throws or reports FAILED: the catch-up stops.                *)
Stop(k) == job' = [job EXCEPT ![k] = Idle]

-----------------------------------------------------------------------------
(* What there is to do                                                     *)

(* Faulty variant: a completed run whose owners were not told is done.     *)
IsCatchUpCandidateUnnotified(w) ==
  LET r == run[w] IN
  \/ r.status = "absent" /\ w \in events
  \/ r.status \in {"pending", "failed"}
  \/ r.status = "running" /\ r.lock # "fresh"

IsCatchUpCandidate(w) ==
  LET r == run[w] IN
  \/ r.status = "absent" /\ w \in events
  \/ r.status \in {"pending", "failed"}
  \/ r.status = "running" /\ r.lock # "fresh"
  \/ r.status = "completed" /\ ~r.notified

(* The first n of a set of weeks.                                          *)
Oldest(ws, n) == {w \in ws : Cardinality({v \in ws : v < w}) < n}

(* runCatchUpForCompletedWeeks: discover, then attempt the oldest.         *)
CatchUp(k) ==
  /\ At(k, "idle")
  /\ Attempt(k, Oldest({w \in Weeks : IsCatchUpCandidate(w)}, MaxWeeks))
  /\ UNCHANGED <<events, run, recap, sent, contested, faults, forced>>

(* The script for the week before a date, with or without --force.         *)
RunScript(k, force) ==
  /\ At(k, "idle")
  /\ forced < MaxForced
  /\ forced' = forced + 1
  /\ \E w \in Weeks :
       job' = [job EXCEPT ![k] = [Idle EXCEPT !.pc = "ensure", !.week = w,
                                              !.force = force]]
  /\ UNCHANGED <<events, run, recap, sent, contested, faults>>

-----------------------------------------------------------------------------
(* runForWeek                                                              *)

EnsureRunDocument(k) ==
  LET w == job[k].week IN
  /\ At(k, "ensure")
  /\ run' = [run EXCEPT ![w].status = IF @ = "absent" THEN "pending" ELSE @]
  /\ Goto(k, "claim")
  /\ UNCHANGED <<events, recap, sent, contested, faults, forced>>

(* Faulty variant: the lease is not looked at.                             *)
ClaimableWhileRunning(r, force) ==
  \/ r.status \in {"pending", "failed", "running"}
  \/ force /\ r.status = "completed"

Claimable(r, force) ==
  \/ r.status \in {"pending", "failed"}
  \/ force /\ r.status = "completed"
  \/ r.status = "running" /\ r.lock # "fresh"

ClaimRun(k) ==
  LET w == job[k].week IN
  /\ At(k, "claim")
  /\ IF Claimable(run[w], job[k].force)
     THEN /\ run' = [run EXCEPT ![w].status = "running", ![w].lock = "fresh"]
          /\ job' = [job EXCEPT ![k].pc = "aggregate", ![k].claimed = TRUE]
          /\ contested' = IF run[w].status = "completed" THEN contested \cup {w}
                                                        ELSE contested
     ELSE /\ Goto(k, "refused")
          /\ UNCHANGED <<run, contested>>
  /\ UNCHANGED <<events, recap, sent, faults, forced>>

(* The claim was refused.  A completed run whose owners were not told is   *)
(* taken up at the notifications.                                          *)
ReadRefused(k) ==
  LET r == run[job[k].week] IN
  /\ At(k, "refused")
  /\ \/ r.status = "completed" /\ ~r.notified /\ Goto(k, "targets")
     \/ r.status = "failed" /\ Stop(k)
     \/ /\ r.status # "failed"
        /\ ~(r.status = "completed" /\ ~r.notified)
        /\ NextWeek(k)
  /\ UNCHANGED <<events, run, recap, sent, contested, faults, forced>>

(* aggregateWeeklyRecap upserts the recaps in chunks.                      *)
WriteSome(k) ==
  LET w == job[k].week IN
  /\ At(k, "aggregate")
  /\ recap' = [recap EXCEPT ![w] = IF @ = "none" THEN "some" ELSE @]
  /\ Goto(k, "write")
  /\ UNCHANGED <<events, run, sent, contested, faults, forced>>

WriteRest(k) ==
  /\ At(k, "write")
  /\ recap' = [recap EXCEPT ![job[k].week] = "all"]
  /\ Goto(k, "complete")
  /\ UNCHANGED <<events, run, sent, contested, faults, forced>>

(* No fencing: whichever worker holds the lease, a running run completes.  *)
MarkCompleted(k) ==
  LET w == job[k].week IN
  /\ At(k, "complete")
  /\ run' = [run EXCEPT ![w] = IF @.status = "running"
                               THEN [@ EXCEPT !.status = "completed",
                                              !.lock = "none"]
                               ELSE @]
  /\ Goto(k, "targets")
  /\ UNCHANGED <<events, recap, sent, contested, faults, forced>>

(* Faulty variant: the filter leaves out status RUNNING.                   *)
MarkFailedAnyStatus(k) ==
  /\ At(k, "failing") \/ At(k, "rejected")
  /\ run' = [run EXCEPT ![job[k].week] = [@ EXCEPT !.status = "failed",
                                                   !.lock = "none"]]
  /\ Stop(k)
  /\ UNCHANGED <<events, recap, sent, contested, faults, forced>>

(* No fencing here either.                                                 *)
MarkFailed(k) ==
  /\ At(k, "failing") \/ At(k, "rejected")
  /\ run' = [run EXCEPT ![job[k].week] = IF @.status = "running"
                                         THEN [@ EXCEPT !.status = "failed",
                                                        !.lock = "none"]
                                         ELSE @]
  /\ Stop(k)
  /\ UNCHANGED <<events, recap, sent, contested, faults, forced>>

-----------------------------------------------------------------------------
(* createRecapReadyNotifications                                           *)

ReadTargets(k) ==
  /\ At(k, "targets")
  /\ job' = [job EXCEPT ![k].pc = "notify", ![k].targets = recap[job[k].week]]
  /\ UNCHANGED <<events, run, recap, sent, contested, faults, forced>>

(* One upsert per target, keyed by owner and week.                         *)
SendNotifications(k) ==
  /\ At(k, "notify")
  /\ sent' = [sent EXCEPT ![job[k].week] = IF @ = "all" THEN @ ELSE job[k].targets]
  /\ Goto(k, "marknotified")
  /\ UNCHANGED <<events, run, recap, contested, faults, forced>>

MarkNotified(k) ==
  /\ At(k, "marknotified")
  /\ run' = [run EXCEPT ![job[k].week].notified = TRUE]
  /\ NextWeek(k)
  /\ UNCHANGED <<events, recap, sent, contested, faults, forced>>

-----------------------------------------------------------------------------
(* Failures and time                                                       *)

Fault == faults < MaxFaults /\ faults' = faults + 1

(* Faulty variant: an error while aggregating is swallowed.                *)
FailInTrySwallowed(k) ==
  /\ job[k].pc \in {"aggregate", "write", "complete"}
  /\ Fault
  /\ Goto(k, "complete")
  /\ UNCHANGED <<events, run, recap, sent, contested, forced>>

(* The aggregation or the completion throws inside runForWeek's try.       *)
FailInTry(k) ==
  /\ job[k].pc \in {"aggregate", "write", "complete"}
  /\ Fault
  /\ Goto(k, "failing")
  /\ UNCHANGED <<events, run, recap, sent, contested, forced>>

(* Notifying throws, perhaps with some of the chunks written.  The error   *)
(* is recorded and runForWeek returns; if recording it throws as well, the *)
(* try of a run that was claimed here goes on to markFailed.               *)
FailToNotify(k) ==
  /\ job[k].pc \in {"targets", "notify", "marknotified"}
  /\ Fault
  /\ \/ UNCHANGED sent
     \/ /\ At(k, "notify")
        /\ sent' = [sent EXCEPT ![job[k].week] =
                      IF @ = "none" /\ job[k].targets # "none" THEN "some" ELSE @]
  /\ \/ NextWeek(k)
     \/ job[k].claimed /\ Goto(k, "rejected")
     \/ ~job[k].claimed /\ Stop(k)
  /\ UNCHANGED <<events, run, recap, contested, forced>>

(* The process crashes, or an error leaves runForWeek with nothing marked. *)
Abandon(k) ==
  /\ ~At(k, "idle")
  /\ Fault
  /\ Stop(k)
  /\ UNCHANGED <<events, run, recap, sent, contested, forced>>

LeaseExpires(w) ==
  /\ run[w].lock = "fresh"
  /\ run' = [run EXCEPT ![w].lock = "expired"]
  /\ contested' = contested \cup {w}
  /\ UNCHANGED <<events, recap, sent, job, faults, forced>>

-----------------------------------------------------------------------------
Init ==
  /\ events \in SUBSET Weeks
  /\ run = [w \in Weeks |-> [status |-> "absent", lock |-> "none",
                             notified |-> FALSE]]
  /\ recap = [w \in Weeks |-> "none"]
  /\ sent = [w \in Weeks |-> "none"]
  /\ job = [k \in Workers |-> Idle]
  /\ contested = {}
  /\ faults = 0
  /\ forced = 0

Step(k) ==
  \/ EnsureRunDocument(k) \/ ClaimRun(k) \/ ReadRefused(k)
  \/ WriteSome(k) \/ WriteRest(k) \/ MarkCompleted(k) \/ MarkFailed(k)
  \/ ReadTargets(k) \/ SendNotifications(k) \/ MarkNotified(k)

Next ==
  \/ \E k \in Workers :
       \/ CatchUp(k) \/ Step(k)
       \/ \E force \in BOOLEAN : RunScript(k, force)
       \/ FailInTry(k) \/ FailToNotify(k) \/ Abandon(k)
  \/ \E w \in Weeks : LeaseExpires(w)

(* The scheduler starts the catch-up every day, in a process that is       *)
(* restarted when it crashed; a request to MongoDB is answered or fails;   *)
(* the clock runs.  Nobody has to run the script.                          *)
Fairness ==
  /\ \A k \in Workers : WF_vars(CatchUp(k)) /\ WF_vars(Step(k))
  /\ \A w \in Weeks : WF_vars(LeaseExpires(w))

Spec == Init /\ [][Next]_vars

FairSpec == Spec /\ Fairness

-----------------------------------------------------------------------------
(* Properties                                                              *)

(* A run says COMPLETED only once every recap of its week is written, and  *)
(* notified only once every owner of one was: by a worker on time, one     *)
(* that outlived its lease, or a rerun.                                    *)
CompletedMeansDone ==
  \A w \in Weeks :
    /\ run[w].status = "completed" => recap[w] = "all"
    /\ run[w].notified => sent[w] = "all"

(* Why: a worker past the aggregation has written every recap, and one     *)
(* about to mark the run notified has notified every owner.  A type        *)
(* invariant goes with it, for a worker at work is at a week.              *)
RecapInv ==
  /\ TypeOK
  /\ CompletedMeansDone
  /\ \A k \in Workers :
       LET j == job[k] IN
       /\ j.pc # "idle" => j.week \in Weeks
       /\ j.pc \in {"complete", "targets", "notify", "marknotified"} =>
            recap[j.week] = "all"
       /\ j.pc = "notify" => j.targets = "all"
       /\ j.pc = "marknotified" => sent[j.week] = "all"

(* While no lease of a week ran out and its completed run was not reopened *)
(* by force, one worker at a time is between its claim and its mark.  (A   *)
(* reopened run may be marked failed by the worker that completed it, when *)
(* that one fails to notify and to record it.)                             *)
Working(k, w) ==
  job[k].week = w /\ job[k].pc \in {"aggregate", "write", "complete", "failing"}

Telling(k, w) ==
  job[k].week = w /\ job[k].pc \in {"targets", "notify", "marknotified", "rejected"}

LeaseIsExclusive ==
  \A w \in Weeks \ contested :
    \A k1, k2 \in Workers : Working(k1, w) /\ Working(k2, w) => k1 = k2

(* Why: until then, the worker at work holds the lease, and whoever is     *)
(* past its mark left the run completed.                                   *)
LeaseInv ==
  /\ LeaseIsExclusive
  /\ \A w \in Weeks \ contested, k \in Workers :
       /\ Working(k, w) => run[w].status = "running" /\ run[w].lock = "fresh"
       /\ Telling(k, w) => run[w].status = "completed"

(* A completed run is only ever taken back by a forced claim: a worker     *)
(* that outlived its lease and failed cannot undo what another completed.  *)
CompletedIsKept ==
  [][\A w \in Weeks :
       run[w].status = "completed" /\ run'[w].status # "completed" =>
         /\ run'[w].status = "running"
         /\ \E k \in Workers : job[k].force /\ job[k].week = w /\ At(k, "claim")
    ]_vars

(* Every week with events is in the end completed and its owners notified, *)
(* whatever step of an earlier attempt failed or crashed, once attempts    *)
(* stop failing (the comment at weekly-recap-job.service.ts:800 names one  *)
(* of these cases).                                                        *)
EveryWeekResolved ==
  \A w \in Weeks :
    w \in events ~> [](run[w].status = "completed" /\ run[w].notified)
=============================================================================
