# Betta server: specifications

A verification project for the API server under `src/src`: TLA+ modules translated from its
services, TLC runs on small instances, and TLAPS proofs for every instance.

The server is a NestJS application on MongoDB (Mongoose), with Cloudinary for images, a mail
provider and Google sign-in. It keeps no shared state in memory. What makes it hard is that every
HTTP request, cron job and script is a process that reads, awaits (bcrypt, Google, Cloudinary,
MongoDB) and writes later, that several instances may run at once, and that any of them may crash
between two awaits. The models are about these interleavings.

## 1. Inventory

Paths below `src/src/modules/` unless given in full. "CAS" is an update whose filter repeats what
was read.

| Component | State it keeps | Operations | What is hard | What makes it correct |
|---|---|---|---|---|
| Refresh-token sessions (`auth/services/auth-session.service.ts`) | `auth_sessions`: owner, tokenVersion, token hash, expiry, revokedAt and reason | create, refresh with rotation and replay detection, logout, revoke one, revoke all, TTL purge | two refreshes with one token; a refresh against a revocation; audit inside a transaction that may run again | one answer per token, a race is no replay, revocation is final and audited once |
| Accounts and passwords (`auth/services/auth.service.ts`) | `users`: password hash, status, failed logins, lock, one-time code | register, login, change, forgot, verify, reset | state read before bcrypt and used after it | no session outlives the password or the account it was issued for |
| Google accounts (`auth/services/google-oauth-*.service.ts`, `oauth-identity.service.ts`) | `oauth_identities` | sign in, register, link, unlink | identity resolved before the transaction that relies on it | a sign-in commits only while the identity is linked |
| Google one-time documents (transaction, continuation grant, session handoff) | state, grant and handoff documents with a TTL | create, consume once by CAS | consumed in a transaction that may be aborted; answer lost after consumption | each is consumed at most once, and only by its browser |
| Rate limits (`auth-rate-limit.service.ts`, `reports/services/report-rate-limit.service.ts`) | counters of fixed windows | count and refuse | two first requests of a window | no more than the limit per window |
| Social graph (`relationshipModule/services/*`) | `relationships`, `blocks`, two counters per user | follow, unfollow, block, unblock | follow and block of one pair write different collections; counters of third parties | no follow across a block; counters are cardinalities |
| Profiles and deletion (`users/services/users.service.ts`) | `users`, and what deletion removes elsewhere | edit, avatar, settings, softDeleteUser | one transaction over nine collections against every other operation | nothing of a deleted account is left or comes back |
| Weekly recap job (`recap/services/weekly-recap-job.service.ts`) | `weekly_recap_runs`: status, lease, notificationsCreatedAt | discover weeks, claim, aggregate, complete, notify, retry, rerun by hand | crash at every step, leases that run out, no fencing of writes, cron on several instances | COMPLETED means done; every week is resolved in the end |
| Recap contents (`recap/services/recap.service.ts`) | `weekly_recaps`, `engagement_events` | record events, aggregate, list targets | events that arrive after the week was aggregated | idempotent per owner and week |
| Notifications (`notifications/services/notifications.service.ts`) | `notifications` | create (upsert by key), read, mark | bulk creation that fails in the middle | one per owner and cause |
| Posts and shares (`posts/services/posts.service.ts`) | `posts`, `postsCount`, share windows, images | create idempotently, delete, share, list | compensation after a partial failure, counters raised in a second step | postsCount and shareCount match |
| Reactions (`reactions/services/reaction.service.ts`) | `reactions`, likeCount | react, change, remove | checks before the transaction; deletion of posts and accounts | likeCount is the number of reactions |
| Expired posts (`cron/services/expired-post-cleanup.service.ts`) | clean-up status and attempts of a post | claim, delete images, mark | claims without an owner | a cleaned post has no images |
| Reaction clean-up (`reactions/services/reaction-cleanup.service.ts`) | cursor over completed weeks | revalidate, delete in batches | posts that revalidation keeps fill the batch | nothing is deleted that a recap still needs |
| Streaks (`streak/services/streak.service.ts`) | streakCount, one history row per day | record a post, decay | decay and award of one day, two instances | one award and one decay per day, count equals history |
| Reports (`reports/services/*`) | `reports`, `system_reports`, cooldowns | report, change status | two reports of one target at once; status against clean-up | one report per cooldown; evidence of an open report is kept |
| Data retention (`retention/data-retention.service.ts`) | clean-up status, lease, token and attempts of a system report | reconcile, claim, delete evidence, delete, release | leases that run out, partial deletion, crash in the last attempt | no orphaned image, no stranded report |
| Scheduler (`cron/services/tasks.service.ts`) | one flag per job, per process | start the jobs | the flags do not exclude other instances | see the jobs |
| Uploads, mail, cookies, HTTP layer, migrations | none, or an operator's single run | | | not modelled, see section 8 |

Components interact through MongoDB only. The transactions of sign-in, password change, deletion,
follow and block meet in the user document; the recap job, the notifications and the reaction
clean-up meet in the run document; posts, reactions, expiry and deletion meet in the post document.

`PROJECT.json` lists every component with its status, and every hazard at its line with the
properties that cover it or the reason why none does.

## 2. Modules

| Module | Models | Extends or instantiates |
|---|---|---|
| `AuthSessions` | accounts, passwords, sessions, Google identity, account deletion as it meets sessions | |
| `AtomicSocialGraph` | what the social graph promises: each operation is one step | |
| `SocialGraph` | follow, unfollow, block, unblock and deletion as transactions | implements `AtomicSocialGraph` |
| `WeeklyRecapJob` | the run document and its workers, catch-up and script | |
| `SystemReportRetention` | claims, evidence and manual review of system reports, against status changes | |
| `AtomicPosts` | what readers of posts are promised: a post, its likers and the number beside it change in one step | |
| `PostEngagement` | creation, deletion, reactions, account deletion and clean-up of posts, with their counters and images | implements `AtomicPosts` |
| `DailyStreak` | what a streak promises: a book with one entry per account and day, with which alone the count moves | |
| `StreakLedger` | awards, decay runs and deletion as transactions on accounts and their history | implements `DailyStreak` |
| `OneTimeGrants` | state, grant and handoff documents of Google sign-in, from the redirect to the tokens, with browsers, identities and accounts | |
| `ReportSubmission` | reports of posts, accounts and issues: counters of fixed windows, cooldowns, keys of issues and their evidence | |
| `PasswordRecovery` | the counters in front of login and recovery, failed logins and the lock, the code and its attempts | |
| `MC...` | the instance for TLC of each, with its symmetry | |
| `..._proofs` | the theorems of each and their proofs | |

In every module a request, worker or run is a record with a `pc`; its actions are the stretches of
code between two awaits that other processes can notice. A definition written as a "faulty
variant" is not part of the specification: it is the mutant a property is tried against.

**MongoDB** is modelled from how the code uses it (`runInTransaction`,
`runAuthSecurityTransaction`, `withTransaction`): a transaction reads the snapshot of its first
statement; the first to write a document holds it until it commits (`Held`, `Holds`); a write to a
document that was written since the snapshot is a conflict, which aborts the transaction and runs
its callback again (`stale`, `Conflict`; `Written` marks the snapshots that a write makes out of date). A transaction that fails for another reason leaves nothing
behind (`Fail`). Statements after the claim of the user document, and the commit, are one step: they
touch only what the claim protects, or would conflict. `findOneAndUpdate`, `updateOne` and
`deleteOne` outside a transaction are atomic on one document.

**AuthSessions.** `user` and `session` are the two collections, projected; `req` holds what each
request has read. A password is its version, a refresh token is (session, version). `audited`,
`rotations` and `replaySeen` are ghosts that count what was answered and logged. A login is
`LoginRead` (find and bcrypt), `ClaimFirst` (the claim in `claimLoginAccount`, whose filter repeats
password hash, status and lock), `IssueCommit`. A Google sign-in and `softDeleteUser` read first
and claim later: `Snapshot`, `ClaimLater`. A refresh is `RefreshRead`, `RefreshReadUser`, then
`Rotate` or `RotateLose` or one of the revocations. `users.status` is written by nothing under
`src/`: an operator changes it (`SetStatus`). A reset starts from a
verified code; how it came to be one is in `PasswordRecovery`.

**SocialGraph.** `Start` resolves the target before the transaction; `LockFirst` and `LockSecond`
write the two user documents in the order of their ids (`acquireSocialGraphPairLock`) and fix the
snapshot; the commits check and write. `Unblock` has neither lock nor transaction.
`softDeleteUser` reads (`DeleteSnapshot`), claims and commits over all neighbours. In
`AtomicSocialGraph` each is one step, and `AtomicGraph` is the refinement.

**WeeklyRecapJob.** `run` is the run document with its lease (`lock`: none, fresh, or expired);
`recap` and `sent` say how many of the week's recaps and notifications exist (none, some, all);
`job` is a worker's position in `runForWeek` with the weeks its catch-up has left. `WriteSome`
leaves a chunk boundary visible. Fencing is modelled as it is: `markCompleted` and `markFailed`
name a status, not an owner. `FailInTry`, `FailToNotify` and `Abandon` are the exceptions and the
crash. `contested` is a ghost: weeks with a lease that ran out, or a completed run reopened by
force.

**SystemReportRetention.** `report` is a document with its images in Cloudinary; `worker` a run of
the script between its start (whose time it keeps using as `now`) and its end; `edit` a status
change between its read and its CAS. Time is a counter. The random token of a claim is represented
by the attempt it was drawn for, which is unique per report because each claim raises
`retentionAttempts` in the same update. `FailToDeleteImages` leaves any part of the images, none
included (the answer was lost).

**PostEngagement.** `user`, `post` and `reaction` are the three collections, `image` how much of a
post's images is in Cloudinary. A post goes through one life: `unused`, `drawn` (its images are
uploaded), `stored`, and one of four ends named for who removed it. `createPost` is `StartCreate`,
`Insert`, `CountPost`, `FinishCreate`, with `NotInserted`, `FailCreate`, `Compensate` and
`DeleteItsImages` for its `catch`; `deletePost` is `StartDelete`, `DeletePost`,
`DecrementPostCount`, `DeleteItsImages`. A reaction is `StartReaction` (`assertCanReact`, before the
transaction), `BeginReaction` (the snapshot), then `AddReaction`, `RemoveReaction` or `Conflict`.
`softDeleteUser` is `DeleteSnapshot`, `DeleteCommit`, and `PurgeImages` after the transaction. No
transaction here holds a document between its first write and its commit: the writes and the commit
are one step, and whoever commits second conflicts. A run of the clean-up is `Claim`,
`DeleteImages`, `RemoveExpired`, `DecrementAuthor`; `FailToDeleteImages`, `NotRemoved` and
`MarkFailed` are its failures, `Crash` may come at any point. The claim names no owner, as in the
code: a run whose lock ran out (`LockRunsOut`) goes on. `counted` is a ghost. Left out are the checks
that only refuse a request (status, follow, block), the emoji, shares, and the admin's flag
`isDeletedByAdmin`, which nothing under `src/` writes.

**StreakLedger.** `user` and `row` are the accounts and their history, by day. A post is `CreatePost`
and `CountPost`, then the transaction of `recordPostCreated`: `OpenAward` is its first statement, the
upsert of the row, which fixes the snapshot; `CommitAward` the rest. A run of the decay reads a page
of candidates after its cursor (`ReadPage`), and takes them one by one: `SkipUser`, or `OpenDecay` and
`CommitDecay`. Whatever writes the user document makes the open transactions on it stale (`Written`),
`ConflictAward` and `ConflictDecay` run them again, and the `Fail...` actions are other errors and
crashes, after which nothing is resumed. Accounts are numbers, in the order of their `_id`; the
decrement is in integers, which is the same as `Math.ceil(0.2 * n)` in floating point for every count
up to two million. `latest`, `start` and `excused` are ghosts: the last row committed, the count to begin
with, and whom a run passed because there was nothing to take, or counted as failed.

**OneTimeGrants.** `doc` is the state of the three documents of a flow: none, live, lapsed, consumed
or gone. `grant` is what the grant says (purpose, subject, account), `by` the browser that began the
flow, `cookie` what each browser holds, `call` a request. A secret, its hash and its cookie are named by
their flow. `Start` is `beginAuthorization`; `Callback`, `Consume`, `Exchange`, `ResolveIdentity`,
`ResolveByEmail` and `SignIn` or `IssueGrant` are the stretches of the callback, which ends in
`AnswerCallback` or `FailCallback`. Link and registration are a request, `OpenLink` or
`OpenRegistration` for what the transaction reads, `CommitLink` or `CommitRegistration`, with
`RunAgain` after a conflict and `RefuseGrant`. `Redeem`, `ConsumeHandoff`, `Deliver` and
`RefuseHandoff` hand out the tokens. `Lose` loses an answer or crashes a request at any point; `Lapse` is
the time limit of a document, `Purge` the TTL index. `Bar`, `Unlink` and `Register` change the accounts
meanwhile. A sign-in and an unlink are one step here, because `AuthSessions` has their overlaps.
`exchanges`, `verified`, `effects`, `made` and `delivered` are ghosts.

**ReportSubmission.** `call` is a request and where it is; `counter` the fixed-window documents, `cooldown`
and `reports` the stored cooldowns and reports, `image` the requests whose evidence is in Cloudinary. `consume` counts at the
account, then the address if there is one, then the targets of the account: each is the upsert of
`incrementCounter`, which finds a counter (`Hit`), or finds none and inserts it (`MissCounter`, `Hit`), or
is refused by the unique key and tries again (`DuplicateCounter`, `Hit`). A report of a post or an account
reads its cooldown (`ReportContent`), takes it in a transaction that holds the document until the report is
stored (`Acquire`, `CommitReport`), and runs again after a conflict. An issue is checked for a recent one,
counted, uploaded and stored under its key (`CheckIssue`, `UploadEvidence`, `StoreIssue`); `NotStored` and
`CleanEvidence` are its `catch`. `DeleteAccount` removes the cooldowns of an account. The counters stay as
long as a request of their window may come, a minute more than the window, and a cooldown that is over
says the same as none, so the TTL removals are left out. A request that passed a counter is in its
`passed`, one that was stopped in its `refused`; these sets are ghosts beside the count.

**PasswordRecovery.** `account` has the paths of the user document that guard the password; `count` the
counters of the account in `auth_rate_limits`. A request is counted first (`Arrive`, `MissCounter`,
`DuplicateCounter`, `Hit`), and the TTL index may remove a counter under it (`PurgeCounter`). A login reads
(`FindLogin`) and after bcrypt records a failure or signs in; both are updates whose filters repeat
what was read. `forgotPassword` and a wrong code save a Mongoose document that was read before the mail or
bcrypt: the save writes the paths the handler changed, whatever is stored by then (`SaveCode`,
`Withdraw`, `SaveWrong`, `SaveExhausted`). It also writes the schema's default into paths that were
selected and found missing: Mongoose gives a document its defaults when it reads it, and saves them. Of
the handlers only `resetPassword` selects such paths, the two of the lock with default null
(user.schema.ts:139-152), which are missing after every failure that made no lock and after every successful login
(`account.missing`, what a request found missing, and `Defaulted`). That is Mongoose's behaviour as the
code uses it, not code of the repository. A reset is an update with a filter (`Takes`). A code is
the name of the request that made it. What a reset does to sessions is in `AuthSessions`; the
counters of addresses are counted the same way and left out. `passed`, `refused`, `failures`,
`guesses`, `resets` and `latest` are ghosts.

## 3. Runs

| Run | Instance | Question | States, time |
|---|---|---|---|
| `MCAuthSignIn` | 1 account, 2 sessions, 2 requests, passwords to version 2 | sign-ins against everything that changes the account | 359 thousand, 30 s |
| `MCAuthRefresh` | 1 account, 2 sessions, 2 requests, token versions to 2 | refresh, replay, logout, revocation, deletion | 1.4 million, 70 s |
| `MCSocial` | 2 accounts, 3 requests, all operations | races on one pair, counters; refinement of the atomic graph | 120 thousand, 10 s |
| `MCRecap` | 2 weeks, 2 workers, catch-up of 1 week, 1 fault, 1 run by hand | late workers, claims and reruns; is every week resolved? | 277 thousand, 40 s |
| `MCRetention` | 1 report, 2 runs, 1 status change, 2 attempts, time to 6 | evidence, leases, manual review | 911 thousand, 50 s |
| `MCPostLikes` | 1 post, 2 accounts, 3 requests, all operations, no clean-up | reactions, removals and deletions at once; refinement of atomic posts | 1.3 million, 90 s |
| `MCPostExpiry` | 2 posts of one author with one key, 1 request, 2 runs, 2 attempts | creation, retry, deletion, deletion by overtaken runs; is every expired post resolved? | 207 thousand, 45 s |
| `MCStreak` | 2 accounts, 1 post, 2 servers, 2 days, pages of 1 | award, decay, deletion, status at once, the same day decayed twice, pages that change under the run; refinement of the daily book | 1.6 million, 115 s |
| `MCOneTimeGrants` | 2 flows of 1 Google account, 2 browsers, 2 requests, 2 accounts | documents used once, by their browser, for their account | 858 thousand, 70 s |
| `MCReports` | 2 accounts, 1 address, 1 target, 2 issues, 2 requests, time to 3 | racing counters, cooldowns and keys over two windows | 1.3 million, 30 s |
| `MCRecovery` | 1 account, 3 requests, 1 wrong code, 2 failures, time to 4 | codes, locks and windows with saves of stale documents | 1.9 million, 110 s |
| `MCRecoveryLock` | 1 account, 4 requests at one moment | does a lock stand? It does not: a violation is expected | 5 s |

What the properties say:

* `CredentialBinding`: a live session was issued under the password its account has now, and the
  account is not deleted. `IssuedToEligible`: a sign-in commits only for an active, unlocked account,
  and a Google one only while the identity is linked. These fail when a claim forgets one of the
  fields it repeats.
* `RotatedOncePerToken`: a refresh token is traded once. `ReplayOnlyIfSuperseded`: a lost race is not
  taken for a replay. `RevocationIsFinal`, `AuditedExactlyOnce`: no path revokes a session again, or
  audits its revocation twice.
* `NoFollowAcrossBlock`; `CountersMatch`: the counters are the numbers of edges. `AtomicGraph`: the
  refinement. That a deleted account has no edges is proved (`NoEdgesOfDeleted`).
* `CompletedMeansDone`: COMPLETED means every recap is written, notified that every owner was told.
  `LeaseIsExclusive`, `CompletedIsKept`, and `EveryWeekResolved`, which needs fairness.
* `EvidenceFollowsReport`: a stored report that lost evidence is closed, past its retention, and stays so;
  a deleted one leaves no image. `NoReportStranded`: the eligibility filter, the exhausted filter and
  manual review together cover every report that is due. `DecisionsHonoured`: while a lease lasts only
  its holder decides about the report, and no run takes back what was given to a person.
* `LikesMatch`: the `likeCount` of a visible post is the number of reactions on it.
  `NoReactionsOnPurged`: a deleted account leaves no reaction on its posts, also none whose
  transaction had begun. `ReadersSeeAtomicPosts`: the refinement of `AtomicPosts`.
* `ImagesFollowPosts`: a visible post has its images, and one the clean-up removed has none: a post is
  deleted before its images by whoever gives it up, and after them by the clean-up.
* `PostsCountNotTooLow`: no post is counted off twice. The count may be too high: a decrement that
  fails is only logged, a creation that fails after the increment does not take it back
  (posts.service.ts:222), and a decrement may come before its increment.
  An account that was deleted is left out: its count was reset and is not shown any more.
* `ExpiredIsResolved`: every expired post is removed, or all its attempts were made.
* `LedgerBalances`: the count of an account is what it started with and the points of its rows.
  `NobodySkipped`: whoever is behind the cursor of a decay run has a row, had nothing to lose, or was counted as failed.
  `KeepsTheBook`: the refinement of `DailyStreak`. None of these promises that a day of posting earns
  its point: the award is given up when it fails, and a post stored before midnight whose award comes
  after the decay of its day finds the row of the missed day and earns nothing.
* `SecretsUsedOnce`: a state buys one exchange with Google, and the tokens of a handoff are in one
  answer at most. `BoundToBrowser`: a browser holds only secrets of flows that were answered to it.
  `GrantIsItsEffect`: a grant is consumed if and only if its link or registration is committed, once.
  `OneToOne`: identities, accounts and emails. `AsGranted`: an account has an identity only if Google
  answered it in a flow whose grant is for that account, or for a new one.
* `QuotaExact`: a counter lets through what its policy says and refuses nobody before, though requests
  race to insert it. `AddressSpared`: no account takes more of the quota of a shared address than its own
  quota. `OneReportPerCooldown`: two reports of one target are a cooldown apart, unless an account was
  deleted and the cooldown with it. `IssuesApart`: two reports of one issue are a window apart, or were
  under way together and checked in different windows: the key changes with the window, and the search
  for a recent issue comes before the upload, so these two the code does not tell apart.
* `WindowExact`: `QuotaExact` for the auth counters, while a window lasts. `GuessesBounded`: a code is
  answered `MaxAttempts` wrong guesses, and as many again for each guess that saved a stale document:
  the counter is read before bcrypt and written after it, so guesses that overlap count as one.
  `OneResetPerCode`: and only with the code stored last. `LockMeansFailures`: a lock is made of
  `MaxFailed` failures under way in one window since the last success. `LoginsKeepLock`: no login moves
  or lifts a lock while it lasts, however long ago it read the time; a reset and the deletion of the
  account lift it, and one save does. `CooldownMeansCode`: a request for a code is put off only while
  there is one, though a failed mail withdraws whatever code is stored by then.
* `LockStands`, which the code violates: a lock is lifted by a reset or a deletion only, so that
  `lockedUntil` is the time from which the account may log in again (user.schema.ts:146). In the run a code
  is mailed and a wrong password removes `lockedUntil`; then a `resetPassword` reads the account and compares a wrong
  code, a second wrong password locks the account, and the save of the reset
  (auth.service.ts:790) writes the null that Mongoose put into its document. The save at 774 does the
  same. The counter of `resetPassword` limits how often this may happen. An update of
  `forgotPasswordAttempts` with a filter, or a `select` without the paths of the lock, which `resetPassword`
  does not use, would leave the lock alone.

The inductive invariants of the proofs (`SessionInv`, `GraphInv`, `RecapInv`, `RetentionInv`, `PostInv`,
`StreakInv`, `GrantsInv`, `ReportInv`) hold on these instances as well. They are not listed in the runs,
because the proofs say it of every instance.

**Bounds.** The accounts, sessions, requests and documents of an instance are few, because a race in
this code is between two or three requests on one or two documents: two requests on one account see
every pair of operations; the third request in `MCSocial` lets an unblock or a status change
run between the steps of two transactions; a third account, a neighbour whose counters a block or a
deletion changes, is covered by the proof of `CountersMatch`; two workers in `MCRecap` are a
late worker and its successor, each of whom may come back. `MaxPw` and `MaxVersion` cap how often a
password changes or a session rotates; 2 lets a request be overtaken twice. `MaxFaults` and
`MaxForced` cap failures and runs by hand. In `MCRetention` a lease of 1, a delay of 2 and a clock to
6 let both attempts run out and the reconciliation take over, with a status change before and in
between. In `MCPostLikes` two requests are two
reactions, or a reaction and a deletion, and the third undoes one of them before the other commits;
in `MCPostExpiry` the second post is the one a retry stores after the first was deleted or its request
abandoned, and a second attempt is enough for a run to be overtaken by another; that two creations or deletions
overlap is left to the proofs of `ImagesFollowPosts` and `PostsCountNotTooLow`. In `MCStreak`
starting counts of 1 and 6 give a decrement of one point and of more than one; pages of one account
change while the run goes on to the second. Two servers, each with its own run, share no state but the database.
In `MCOneTimeGrants` two flows meet in one browser (the second overwrites the cookies of the first) or
come from two for the same Google account, and two requests are two tries of one flow or one of each; a
second Google account would add flows that meet in nothing but the accounts. In `MCReports` reports have limits
of 1, so that the second of an account or an address is one too many; issues have limits of 2, so that both
get to the same target or another; two windows and a cooldown of 2 let a request begin in one window and
end in the next. In `MCRecovery` two requests race and the third changes the code, the lock or the password
between their steps; the clock reaches the third window, and one login in it is later than the lock the
first two made. A save that meets a lock takes four requests: one for the code, two failures, and the
wrong code between them. That is `MCRecoveryLock`; the proof of `LoginsKeepLock` is for any number. The
safety properties that hold are all proved without these bounds (section 5).

`LeaseIsExclusive` excludes contested weeks because it does not hold of them, and the code does not
promise it: a worker whose lease of 30 minutes ran out goes on beside its successor, and a worker
that completed a run and then fails both to notify and to record it reaches `markFailed`
(weekly-recap-job.service.ts:375), which may hit a rerun another worker forced. `CompletedMeansDone`
covers these behaviours too: the recaps and notifications are upserts.

Deadlock is not checked: every system here may stop (an instance runs out of sessions, every week is
resolved, every account is deleted).

## 4. Fairness

`EveryWeekResolved` and `ExpiredIsResolved` need it. In `WeeklyRecapJob` it is weak fairness of a worker's
steps and of its catch-up, and of the clock. The scheduler starts the catch-up every day
(`cron/services/tasks.service.ts:68`) in a process that is restarted when it crashed; a request to MongoDB
is answered or fails; a lease runs out because time passes. Nothing forces the script an operator may
run, and nothing forces a failure. Failures are bounded by `MaxFaults`: with a week that fails every
time the later ones are never attempted, since the catch-up stops at its first failure; this is
listed among the hazards.

In `PostEngagement` it is weak fairness of the steps of each run and of the locks: the scheduler
starts the clean-up every minute (`cron/services/tasks.service.ts:26`), in a process that is
restarted when it crashed, and a lock of five minutes runs out. Failures and crashes are not bounded:
the attempts are. Nothing is assumed of requests.

## 5. Proofs

For all values of the constants, under the named assumptions of the modules only:

| Module | Inductive invariant | Theorems |
|---|---|---|
| `Auth_proofs` on `AuthSessions` | `TypeOK`, `SessionInv` | the type invariant and all six properties of the two runs |
| `Auth_proofs` on `PasswordRecovery` | `RecoveryInv` | the type invariant and all six properties of `MCRecovery` |
| `SocialGraph_proofs` | `GraphInv` | `NoFollowAcrossBlock`, `NoEdgesOfDeleted`, `CountersMatch`, the refinement `AtomicGraph` |
| `WeeklyRecapJob_proofs` | `RecapInv`, `LeaseInv` | `CompletedMeansDone`, `LeaseIsExclusive`, `CompletedIsKept` |
| `SystemReportRetention_proofs` | `RetentionInv` | all three properties of the run |
| `PostEngagement_proofs` | `PostInv`, `CountInv` | `LikesMatch`, `NoReactionsOnPurged`, `ImagesFollowPosts`, `PostsCountNotTooLow`, the refinement `ReadersSeeAtomicPosts` |
| `StreakLedger_proofs` | `StreakInv` | `LedgerBalances`, `LatestRowIsCount`, `NoHistoryOfDeleted`, `NobodySkipped`, the refinement `KeepsTheBook` |
| `OneTimeGrants_proofs` | `GrantsInv` | all five properties of the run |
| `ReportSubmission_proofs` | `ReportInv` | all four properties of the run |

*Sessions.* `CredentialBinding` is not inductive: a sign-in that has claimed the account must know
that the password it verified is still there, and a revoker that it sees every session. `HolderInv`
says that one transaction at a time holds an account, which stays as the claim found it;
`SnapshotInv` says that what a snapshot has read is still so unless it is stale, and that a
revoker's snapshot contains all the live sessions of its account, because a sign-in writes the user
document to add one. `RequestInv` carries what a refresh has read.

*Social graph.* `LockInv`: no two transactions hold the same account, the accounts of a locked pair
are not deleted, and the blocks a locked pair's snapshot may have missed are only removals.
`CountersMatch` is proved on top of it from the cardinalities of sets that gain or lose one edge. For
the refinement each commit is shown to be the abstract step and every other action a stutter; the
operations' guards in the snapshot agree with the state because of `LockInv`.

*Recap job.* `RecapInv` adds to `CompletedMeansDone` what each worker knows: past the aggregation all
recaps of its week exist. `LeaseInv` adds that in an uncontested week the worker at work holds a
fresh lease, and one past its mark left the run completed.

*Retention.* The token of a claim is its attempt, tokens of runs on one report differ and are at
most `retentionAttempts`, a report being cleaned up is closed and past its retention, and a run that
is about to delete a report has seen its images go. From this the deletion and the release hit only
the run's own claim.

*Posts.* `LikesMatch` rests on what a transaction knows when it commits. `ReactionTxnOK`: unless it is
stale, its post is stored and its reaction is there or not as in its snapshot, so adding or removing
it changes the number of likers by one. `AccountTxnOK`: the deletion of an account that is not stale
has in its snapshot every reaction on the posts it deletes, since a reaction that came later would
have written one of them. The rest says that the life of a post never goes back, and that a drawn
post belongs to one request. Each step is described by what it writes (`Writes`), and one lemma
(`RequestKept`) shows that every other request, marked stale or not, keeps what it knows.

For the refinement `Same` says what readers see of a post, and the number beside it follows from
`LikesMatch`. A commit that a reader can see is then one step of `AtomicPosts` (`LikeSeen`,
`UnlikeSeen`, `DeleteCommitSeen`, `PublishSeen`, `TakeBackSeen`), and all the rest is a stutter.

`PostsCountNotTooLow` is not inductive, because a post is gone before its count is: `CountInv` adds
the posts for which a request or a run of the clean-up still owes its author a decrement. Such a post
has ended, and `OwedOnce` says that only one of them owes for it, whichever removed it. The counts are
cardinalities of finite sets, since finitely many posts have been created at any time.

*Streaks.* A transaction that is not stale still sees what it read (`AwardOK`, `RunOK`,
`DeletionOK`), because a step that writes an account marks the others on it (`WrittenKeeps`). So every
step is an entry in the book, a deletion with the whole history, a status, or leaves the book alone
(`StepKinds`), and both the invariants of the rows and the refinement follow from that. `NobodySkipped`
needs that a page is downward closed among the candidates (`LeastIsLower`, from the cardinalities of
finite sets) and that a row stays until its account is deleted (`RowsLast`).

`LedgerBalances` is inductive beside `StreakInv`: an entry goes to a day that had no row, and moves
count and sum by the same points (`BookingBalances`, `LedgerStep`). What is hard is the sum, a recursive function
over the days: that it exists and that changing one row changes it by the difference is an
induction over `0 .. MaxDay`. The library states induction with an operator as a parameter, which no
prover here can instantiate; `BoundedInduction` states it for a subset of `0 .. N` instead, and gets it
from finiteness: were k missing from the subset, its members below k, moved up by one, would stay below k and
miss 0, an injection of a finite set into a smaller one. `SumsExist` and `SumsDiffer` are its two uses.

*One-time documents.* `PendingOK` and `AloneInv`: whoever consumed a state is alone with it until its
grant or handoff is stored, so an exchange that has not happened yet is still to be counted. `OpenOK`: an
open transaction that is not stale sees grant, account and identity as they are. `FlowInv` ties the ghosts
to the documents, `LinkedInv` an identity to the flow that gave it. Lemmas sort the steps by what they
write: `QuietStep` (nothing but the request and documents nobody relies on), `AccountStep` (accounts, which
makes the open transactions stale) and `SpendStep` (the commits).

*Reports.* `QuotaExact` needs to know that a counter's number is the number of requests, or of targets,
it has seen (`CounterOK`), and that each request comes to a counter once: `IsAhead` says which counters are
still before a request. `AddressOK` says that whoever was counted at an address passed the counter of its
account. `CooldownOK`: a report that was stored is recent only while its cooldown is stored, and the
holder of a cooldown found none. `ReportsOK`: a stored issue has the key of its
request, and a request that has checked has seen every issue stored before.

*Password recovery.* The invariant is in `PasswordRecovery.tla`, in four parts. `CounterInv`: the counter
of this window is the number of requests it let through or stopped, each of which is past being
counted, and a window that is to come has no counter. A request that lost the upsert adds one to a
counter that may have been removed, but only after its window was over. `LockInv`: the failures an
account counts were under way in the window it counts them for, and a lock has enough of them. It need
not have its window: a save that met a lock may have removed either, and a failure without a window begins a new one.
A slow login may record its failure long after the time it carries; it was under way in a window if it began before
the end of it and was recorded after its start. `CodeInv`: the code that is stored is the last one, a code that is
still to be saved is nowhere yet, and one that has reset the password is gone for good.

`GuessInv` needs what a request that is about to save a wrong code knows. If nobody wrote the codes since it
read them, the attempts it read account for the guesses of its code, and one more guess is one more
attempt. If somebody did, its save may put the attempts back, by `MaxAttempts` at most: one stale
guess more pays for that (`WithinAttempts`). Finitely many requests make finitely many guesses
and failures, which is what the cardinalities need.

The proofs about both specifications of `auth/` are in one module. `PasswordRecovery` names its
specification, actions and invariant with a prefix of their own for it.

Assumptions: limits, attempts, windows and durations of login and recovery are positive natural numbers, a code
lives at least as long as its cooldown, and the requests of recovery are finitely many; limits and windows of reports are natural numbers, windows positive, and `Calls` is finite; the `Users` of streaks are a finite set of positive numbers; the `Users` of posts are a finite set; `Users` of the social graph is a finite set of integers (ids are ordered, counters are
numbers); times are natural numbers, `MaxAttempts` and `Budget` are positive; the `No...` values are
outside their sets.

## 6. Only model-checked

`EveryWeekResolved` and `ExpiredIsResolved`: liveness under fairness is out of the prover's reach.
All other properties of the passing runs, invariants, action properties and refinements, are proved.

## 7. Order and what is left

The order follows what a wrong step would cost, and how hard a test would find it to reach.

1. `AuthSessions`: proved.
2. `SocialGraph` with `AtomicSocialGraph`: proved, with the refinement.
3. `WeeklyRecapJob`: safety proved, liveness model-checked.
4. `SystemReportRetention`: proved.
5. `PostEngagement` with `AtomicPosts`: proved, with the refinement; liveness model-checked.
6. `StreakLedger` with `DailyStreak`: proved, with the sum of the rows and the refinement.
7. `OneTimeGrants`: proved.
8. `ReportSubmission`: proved.
9. `PasswordRecovery`: proved, but for `LockStands`, which is false of the code.

Worth adding to this: sharing with its windows; notifications of follows and reactions.

## 8. Not modelled

* Ranking and counting inside a recap, and the pages of listings: they read only.
* Google, Cloudinary and mail beyond their outcomes; cookies, redirects, tokens as strings, hashing.
* DTO validation, filters, interceptors and the response envelope: no state.
* Backfills and migrations: an operator runs them once, as idempotent batches with a dry run.
* The clean-up of collections by date in `data-retention.service.ts`: it keeps no state between runs.
* Metadata of audit events.
* The reaction clean-up: a script run by hand that deletes reactions of posts long past their life,
  after the week's recap is complete; no other component sees what it removes.
* Sharing: a share window and `shareCount` raised after it, by which nothing is decided.
* Recording of engagement events, and notifications of follows and reactions with their marking as read.
* Edits of profile, avatar and settings, and the folder checks of uploads: one document each, read
  by nothing else that is modelled.
* The counters of addresses and of the Google endpoints in `auth-rate-limit.service.ts`: the same
  `hit` under other keys.
