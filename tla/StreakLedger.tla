----------------------------- MODULE StreakLedger -----------------------------
(***************************************************************************)
(* The streak of an account and the history it is booked in:               *)
(*                                                                         *)
(*   src/src/modules/streak/services/streak.service.ts                     *)
(*   src/src/modules/posts/services/posts.service.ts (createPost)          *)
(*   src/src/modules/cron/services/tasks.service.ts (the cron at 00:10)    *)
(*   src/src/modules/users/services/users.service.ts (softDeleteUser)      *)
(*                                                                         *)
(* Three kinds of process write an account and its history, each in one    *)
(* transaction per account: a new post awards its day a point, the run of  *)
(* a server after midnight takes points for the day before, and deletion   *)
(* removes the history.                                                    *)
(*                                                                         *)
(* A transaction reads the snapshot of its first statement ("open") and    *)
(* commits later; every one of them writes the user document, so whatever  *)
(* commits to an account in between makes the others stale, and a stale    *)
(* transaction conflicts and runs its callback again.  A conflict with a   *)
(* transaction that is still open also runs the callback again: that is    *)
(* the transaction opened later.                                           *)
(***************************************************************************)
EXTENDS Integers, FiniteSets

CONSTANTS
  Users,        \* accounts, numbered in the order of their _id
  Posts,        \* posts that can be created
  Servers,      \* processes that run the cron
  MaxDay,       \* bound: the last day
  Starts,       \* counts an account may start with
  Batch         \* candidates per page of a decay run

ASSUME ConstantsAssumption ==
  /\ Users \subseteq Nat \ {0}
  /\ IsFiniteSet(Users)
  /\ MaxDay \in Nat \ {0}
  /\ Starts \subseteq Nat
  /\ Batch \in Nat \ {0}

VARIABLES
  user,      \* users collection: life and streakCount
  row,       \* streak_histories collection, by account and day
  today,     \* the day in Asia/Ho_Chi_Minh
  award,     \* recordPostCreated for each post
  run,       \* the decay run of each server
  deletion,  \* the deletion of each account
  latest,    \* ghost: the day of the last row committed for an account, or 0
  start,     \* ghost: the count each account started with
  excused    \* ghost: accounts with nothing to take, or failed, when a run came by

vars == <<user, row, today, award, run, deletion, latest, start, excused>>

Days == 1..MaxDay

B == INSTANCE DailyStreak WITH
       standing <- [u \in Users |-> user[u].life],
       count    <- [u \in Users |-> user[u].streak],
       book     <- row

UserDoc == [life : {"active", "suspended", "deleted"}, streak : Nat]

Row == [kind : {"none", "posted", "missed"}, change : Int, count : Nat]

NoUser == 0

Award == [pc    : {"idle", "created", "counted", "open", "done"},
          u     : Users \cup {NoUser},
          d     : 0..MaxDay,      \* the day of createdAt
          stale : BOOLEAN]

Run == [pc     : {"idle", "page", "users", "open"},
        date   : 0..MaxDay,       \* the day it takes points for
        cursor : Users \cup {NoUser},  \* lastId
        todo   : SUBSET Users,    \* candidates of the page still to come
        u      : Users \cup {NoUser},
        seen   : Nat,             \* streakCount in the snapshot
        stale  : BOOLEAN,
        fired  : 0..MaxDay]       \* the last day its cron fired

Deletion == [pc : {"idle", "open"}, days : SUBSET Days, stale : BOOLEAN]

NoAward == [pc |-> "idle", u |-> NoUser, d |-> 0, stale |-> FALSE]

NoRun == [pc |-> "idle", date |-> 0, cursor |-> NoUser, todo |-> {},
          u |-> NoUser, seen |-> 0, stale |-> FALSE, fired |-> 0]

NoDeletion == [pc |-> "idle", days |-> {}, stale |-> FALSE]

TypeOK ==
  /\ user \in [Users -> UserDoc]
  /\ row \in [Users -> [Days -> Row]]
  /\ today \in Days
  /\ award \in [Posts -> Award]
  /\ run \in [Servers -> Run]
  /\ deletion \in [Users -> Deletion]
  /\ latest \in [Users -> 0..MaxDay]
  /\ start \in [Users -> Nat]
  /\ excused \in [Servers -> SUBSET Users]

-----------------------------------------------------------------------------
Active(u) == user[u].life = "active"

HasRow(u, d) == row[u][d].kind # "none"

(* Account u is written: the open transactions on it, of the processes as  *)
(* they are in a, r and x, are stale from here on.                         *)
Written(u, a, r, x) ==
  /\ award' = [p \in Posts |-> IF a[p].pc = "open" /\ a[p].u = u
                               THEN [a[p] EXCEPT !.stale = TRUE] ELSE a[p]]
  /\ run' = [s \in Servers |-> IF r[s].pc = "open" /\ r[s].u = u
                               THEN [r[s] EXCEPT !.stale = TRUE] ELSE r[s]]
  /\ deletion' = [v \in Users |-> IF v = u /\ x[v].pc = "open"
                                  THEN [x[v] EXCEPT !.stale = TRUE] ELSE x[v]]

-----------------------------------------------------------------------------
(* A post and its point                                                    *)

(* createPost inserts the post; its author was active when it was checked. *)
CreatePost(p, u) ==
  /\ award[p].pc = "idle"
  /\ award' = [award EXCEPT ![p] = [NoAward EXCEPT !.pc = "created", !.u = u,
                                                   !.d = today]]
  /\ UNCHANGED <<user, row, today, run, deletion, latest, start, excused>>

(* postsCount and lastActive, outside of any transaction.                  *)
CountPost(p) ==
  /\ award[p].pc = "created"
  /\ Written(award[p].u, [award EXCEPT ![p].pc = "counted"], run, deletion)
  /\ UNCHANGED <<user, row, today, latest, start, excused>>

(* The upsert: a day that has its row gets no second one.  Without an      *)
(* active account the callback throws, and the failure is only logged.     *)
OpenAward(p) ==
  LET a == award[p] IN
  /\ a.pc = "counted"
  /\ award' = [award EXCEPT ![p].pc =
                 IF HasRow(a.u, a.d) \/ ~Active(a.u) THEN "done" ELSE "open",
                            ![p].stale = FALSE]
  /\ UNCHANGED <<user, row, today, run, deletion, latest, start, excused>>

(* Faulty variant: the row is not given the count.                         *)
CommitAwardUncounted(p) ==
  LET a == award[p] IN
  /\ a.pc = "open" /\ ~a.stale
  /\ user' = [user EXCEPT ![a.u].streak = @ + 1]
  /\ row' = [row EXCEPT ![a.u][a.d] = [kind |-> "posted", change |-> 1,
                                       count |-> 0]]
  /\ latest' = [latest EXCEPT ![a.u] = a.d]
  /\ Written(a.u, [award EXCEPT ![p].pc = "done"], run, deletion)
  /\ UNCHANGED <<today, start, excused>>

CommitAward(p) ==
  LET a == award[p]
      n == user[a.u].streak + 1
  IN
  /\ a.pc = "open" /\ ~a.stale
  /\ user' = [user EXCEPT ![a.u].streak = n]
  /\ row' = [row EXCEPT ![a.u][a.d] = [kind |-> "posted", change |-> 1,
                                       count |-> n]]
  /\ latest' = [latest EXCEPT ![a.u] = a.d]
  /\ Written(a.u, [award EXCEPT ![p].pc = "done"], run, deletion)
  /\ UNCHANGED <<today, start, excused>>

ConflictAward(p) ==
  /\ award[p].pc = "open" /\ award[p].stale
  /\ award' = [award EXCEPT ![p].pc = "counted", ![p].stale = FALSE]
  /\ UNCHANGED <<user, row, today, run, deletion, latest, start, excused>>

(* Any other error of recordPostCreated, a duplicate key among them, and a *)
(* crash: the post stays and its day gets no point.                        *)
FailAward(p) ==
  /\ award[p].pc \in {"created", "counted", "open"}
  /\ award' = [award EXCEPT ![p].pc = "done", ![p].stale = FALSE]
  /\ UNCHANGED <<user, row, today, run, deletion, latest, start, excused>>

-----------------------------------------------------------------------------
(* The decay run                                                           *)

(* The cron fires at 00:10, once a day, and does nothing while the last    *)
(* run of the process goes on.                                             *)
StartRun(s) ==
  /\ today > 1 /\ run[s].fired < today
  /\ \/ /\ run[s].pc = "idle"
        /\ run' = [run EXCEPT ![s] = [NoRun EXCEPT !.pc = "page",
                                                   !.date = today - 1,
                                                   !.fired = today]]
        /\ excused' = [excused EXCEPT ![s] = {}]
     \/ /\ run[s].pc # "idle"
        /\ run' = [run EXCEPT ![s].fired = today]
        /\ UNCHANGED excused
  /\ UNCHANGED <<user, row, today, award, deletion, latest, start>>

(* The n least of S.                                                       *)
Least(n, S) == {u \in S : Cardinality({v \in S : v < u}) < n}

Rest(s) == {u \in Users : u > run[s].cursor}

Candidates(s) == {u \in Rest(s) : Active(u) /\ user[u].streak > 0}

(* Faulty variant: the cursor goes on to the last candidate there is.      *)
ReadPageTooFar(s, u) ==
  /\ run[s].pc = "page"
  /\ u \in Candidates(s) /\ \A v \in Candidates(s) : v <= u
  /\ run' = [run EXCEPT ![s].pc = "users", ![s].cursor = u,
                        ![s].todo = Least(Batch, Candidates(s))]
  /\ excused' = [excused EXCEPT ![s] =
                   @ \cup {v \in Rest(s) \ Candidates(s) : v <= u}]
  /\ UNCHANGED <<user, row, today, award, deletion, latest, start>>

(* The next page of candidates, up to u; who is passed over was none.      *)
ReadPage(s, u) ==
  LET page == Least(Batch, Candidates(s)) IN
  /\ run[s].pc = "page"
  /\ u \in page /\ \A v \in page : v <= u
  /\ run' = [run EXCEPT ![s].pc = "users", ![s].todo = page, ![s].cursor = u]
  /\ excused' = [excused EXCEPT ![s] =
                   @ \cup {v \in Rest(s) \ Candidates(s) : v <= u}]
  /\ UNCHANGED <<user, row, today, award, deletion, latest, start>>

(* An empty page ends the run.                                             *)
EndRun(s) ==
  /\ run[s].pc = "page"
  /\ Candidates(s) = {}
  /\ run' = [run EXCEPT ![s].pc = "idle"]
  /\ excused' = [excused EXCEPT ![s] = @ \cup Rest(s)]
  /\ UNCHANGED <<user, row, today, award, deletion, latest, start>>

Turn(s, u) ==
  /\ run[s].pc = "users"
  /\ u \in run[s].todo
  /\ \A v \in run[s].todo : u <= v

(* The run is through with its user, the last of the page or not.          *)
NextUser(s, u) ==
  LET left == run[s].todo \ {u} IN
  [run EXCEPT ![s].pc = IF left = {} THEN "page" ELSE "users",
              ![s].todo = left, ![s].u = NoUser, ![s].seen = 0,
              ![s].stale = FALSE]

(* decayOneUserForDate finds the row of the day, or no streak to decay.    *)
SkipUser(s, u) ==
  /\ Turn(s, u)
  /\ HasRow(u, run[s].date) \/ ~Active(u) \/ user[u].streak = 0
  /\ run' = NextUser(s, u)
  /\ excused' = [excused EXCEPT ![s] =
                   IF HasRow(u, run[s].date) THEN @ ELSE @ \cup {u}]
  /\ UNCHANGED <<user, row, today, award, deletion, latest, start>>

(* Faulty variant: nobody looks for the row of the day.                    *)
OpenDecayUnchecked(s, u) ==
  /\ Turn(s, u)
  /\ Active(u) /\ user[u].streak > 0
  /\ run' = [run EXCEPT ![s].pc = "open", ![s].u = u,
                        ![s].seen = user[u].streak, ![s].stale = FALSE]
  /\ UNCHANGED <<user, row, today, award, deletion, latest, start, excused>>

OpenDecay(s, u) ==
  /\ Turn(s, u)
  /\ ~HasRow(u, run[s].date) /\ Active(u) /\ user[u].streak > 0
  /\ run' = [run EXCEPT ![s].pc = "open", ![s].u = u,
                        ![s].seen = user[u].streak, ![s].stale = FALSE]
  /\ UNCHANGED <<user, row, today, award, deletion, latest, start, excused>>

(* Faulty variant: the count is written without a transaction.             *)
CommitDecayStale(s) ==
  LET r == run[s]
      n == r.seen - B!Decrement(r.seen)
  IN
  /\ r.pc = "open"
  /\ user' = [user EXCEPT ![r.u].streak = n]
  /\ row' = [row EXCEPT ![r.u][r.date] =
               [kind |-> "missed", change |-> -B!Decrement(r.seen), count |-> n]]
  /\ latest' = [latest EXCEPT ![r.u] = r.date]
  /\ Written(r.u, award, NextUser(s, r.u), deletion)
  /\ UNCHANGED <<today, start, excused>>

CommitDecay(s) ==
  LET r == run[s]
      n == r.seen - B!Decrement(r.seen)
  IN
  /\ r.pc = "open" /\ ~r.stale
  /\ user' = [user EXCEPT ![r.u].streak = n]
  /\ row' = [row EXCEPT ![r.u][r.date] =
               [kind |-> "missed", change |-> -B!Decrement(r.seen), count |-> n]]
  /\ latest' = [latest EXCEPT ![r.u] = r.date]
  /\ Written(r.u, award, NextUser(s, r.u), deletion)
  /\ UNCHANGED <<today, start, excused>>

ConflictDecay(s) ==
  /\ run[s].pc = "open" /\ run[s].stale
  /\ run' = [run EXCEPT ![s].pc = "users", ![s].u = NoUser, ![s].seen = 0,
                        ![s].stale = FALSE]
  /\ UNCHANGED <<user, row, today, award, deletion, latest, start, excused>>

(* The transaction of one user fails: it is counted and the run goes on.   *)
FailDecay(s) ==
  /\ run[s].pc = "open"
  /\ run' = NextUser(s, run[s].u)
  /\ excused' = [excused EXCEPT ![s] = @ \cup {run[s].u}]
  /\ UNCHANGED <<user, row, today, award, deletion, latest, start>>

(* The process dies, or a page cannot be read: the run is not resumed.     *)
FailRun(s) ==
  /\ run[s].pc # "idle"
  /\ run' = [run EXCEPT ![s] = [NoRun EXCEPT !.fired = run[s].fired]]
  /\ excused' = [excused EXCEPT ![s] = {}]
  /\ UNCHANGED <<user, row, today, award, deletion, latest, start>>

-----------------------------------------------------------------------------
(* Deletion of an account, the operator and time                           *)

OpenDeletion(u) ==
  /\ deletion[u].pc = "idle" /\ Active(u)
  /\ deletion' = [deletion EXCEPT ![u] =
                    [pc |-> "open", days |-> {d \in Days : HasRow(u, d)},
                     stale |-> FALSE]]
  /\ UNCHANGED <<user, row, today, award, run, latest, start, excused>>

(* Faulty variant: the history is removed beside the transaction.          *)
CommitDeletionStale(u) ==
  /\ deletion[u].pc = "open"
  /\ user' = [user EXCEPT ![u].life = "deleted"]
  /\ row' = [row EXCEPT ![u] = [d \in Days |-> IF d \in deletion[u].days
                                               THEN B!Blank ELSE row[u][d]]]
  /\ Written(u, award, run, [deletion EXCEPT ![u] = NoDeletion])
  /\ UNCHANGED <<today, latest, start, excused>>

CommitDeletion(u) ==
  /\ deletion[u].pc = "open" /\ ~deletion[u].stale
  /\ user' = [user EXCEPT ![u].life = "deleted"]
  /\ row' = [row EXCEPT ![u] = [d \in Days |-> IF d \in deletion[u].days
                                               THEN B!Blank ELSE row[u][d]]]
  /\ Written(u, award, run, [deletion EXCEPT ![u] = NoDeletion])
  /\ UNCHANGED <<today, latest, start, excused>>

(* A conflict, a failure or a crash: the request starts over or is lost.   *)
AbortDeletion(u) ==
  /\ deletion[u].pc = "open"
  /\ deletion' = [deletion EXCEPT ![u] = NoDeletion]
  /\ UNCHANGED <<user, row, today, award, run, latest, start, excused>>

(* Nothing under src/ writes status: an operator does, in the database.    *)
SetStatus(u) ==
  /\ user[u].life # "deleted"
  /\ \E st \in {"active", "suspended"} \ {user[u].life} :
       user' = [user EXCEPT ![u].life = st]
  /\ Written(u, award, run, deletion)
  /\ UNCHANGED <<row, today, latest, start, excused>>

Midnight ==
  /\ today < MaxDay
  /\ today' = today + 1
  /\ UNCHANGED <<user, row, award, run, deletion, latest, start, excused>>

-----------------------------------------------------------------------------
Init ==
  /\ start \in [Users -> Starts]
  /\ user = [u \in Users |-> [life |-> "active", streak |-> start[u]]]
  /\ row = [u \in Users |-> B!BlankPage]
  /\ today = 1
  /\ award = [p \in Posts |-> NoAward]
  /\ run = [s \in Servers |-> NoRun]
  /\ deletion = [u \in Users |-> NoDeletion]
  /\ latest = [u \in Users |-> 0]
  /\ excused = [s \in Servers |-> {}]

AwardStep(p) ==
  \/ \E u \in Users : CreatePost(p, u)
  \/ CountPost(p) \/ OpenAward(p) \/ CommitAward(p) \/ ConflictAward(p)
  \/ FailAward(p)

RunStep(s) ==
  \/ StartRun(s) \/ EndRun(s)
  \/ \E u \in Users : ReadPage(s, u) \/ SkipUser(s, u) \/ OpenDecay(s, u)
  \/ CommitDecay(s) \/ ConflictDecay(s) \/ FailDecay(s) \/ FailRun(s)

AccountStep(u) ==
  \/ OpenDeletion(u) \/ CommitDeletion(u) \/ AbortDeletion(u) \/ SetStatus(u)

Next ==
  \/ \E p \in Posts : AwardStep(p)
  \/ \E s \in Servers : RunStep(s)
  \/ \E u \in Users : AccountStep(u)
  \/ Midnight

Spec == Init /\ [][Next]_vars

-----------------------------------------------------------------------------
(* Properties                                                              *)

(* The history explains the count: an account that is not deleted has the  *)
(* points it started with and those of its rows, however posts and the     *)
(* runs of several servers overlap (the comment at streak.schema.ts:23).   *)
PointsOf(page) ==
  LET sum[d \in 0..MaxDay] ==
        IF d = 0 THEN 0 ELSE sum[d - 1] + page[d].change
  IN  sum[MaxDay]

Booked(u) == PointsOf(row[u])

LedgerBalances ==
  \A u \in Users :
    user[u].life # "deleted" => user[u].streak = start[u] + Booked(u)

(* The row committed last holds the count the account has now, whichever   *)
(* day it is for: currentStreakCount is never taken from a stale read.     *)
LatestRowIsCount ==
  \A u \in Users :
    user[u].life # "deleted" =>
      IF latest[u] = 0 THEN user[u].streak = start[u]
      ELSE /\ HasRow(u, latest[u])
           /\ row[u][latest[u]].count = user[u].streak

(* Deletion takes the whole history, also a row that is being committed    *)
(* while the account is deleted.                                           *)
NoHistoryOfDeleted ==
  \A u \in Users : user[u].life = "deleted" => row[u] = B!BlankPage

(* A run of the decay passes over nobody: whoever is behind its cursor has *)
(* a row for the day, had nothing to lose when the run came by, or is      *)
(* counted as failed, although counts, rows and accounts change under the  *)
(* pages.                                                                  *)
Passed(s, u) ==
  run[s].pc = "idle" \/ (u <= run[s].cursor /\ u \notin run[s].todo)

Covered(s) ==
  run[s].date # 0 =>
    \A u \in Users : Passed(s, u) =>
      \/ HasRow(u, run[s].date)
      \/ u \in excused[s]
      \/ user[u].life = "deleted"

NobodySkipped == \A s \in Servers : Covered(s)

(* Why they hold.  A transaction that is not stale still sees the account  *)
(* and its rows as they are.                                               *)
AwardOK(a) ==
  /\ a.pc # "idle" => a.u \in Users /\ a.d \in 1..today
  /\ a.pc = "open" /\ ~a.stale => Active(a.u) /\ ~HasRow(a.u, a.d)

AwardInv == \A p \in Posts : AwardOK(award[p])

RunOK(r) ==
  /\ r.pc # "idle" => r.date \in 1..(today - 1)
  /\ r.date < today
  /\ r.pc = "page" => r.todo = {}
  /\ r.pc = "open" => r.u \in r.todo
  /\ r.pc = "open" /\ ~r.stale =>
       /\ Active(r.u) /\ ~HasRow(r.u, r.date)
       /\ r.seen = user[r.u].streak /\ r.seen > 0

RunInv == \A s \in Servers : RunOK(run[s])

DeletionOK(u, x) ==
  x.pc = "open" /\ ~x.stale =>
    Active(u) /\ x.days = {d \in Days : HasRow(u, d)}

DeletionInv == \A u \in Users : DeletionOK(u, deletion[u])

(* A point is earned up to today, and taken only for a day that is over.   *)
RowInv ==
  \A u \in Users : \A d \in Days :
    /\ row[u][d].kind = "none" => row[u][d] = B!Blank
    /\ row[u][d].kind = "posted" => d <= today
    /\ row[u][d].kind = "missed" => d < today

StreakInv ==
  /\ TypeOK /\ AwardInv /\ RunInv /\ DeletionInv /\ RowInv
  /\ LatestRowIsCount /\ NoHistoryOfDeleted /\ NobodySkipped

(* The service implements the daily book: the count of an account moves    *)
(* only together with the one row of a day that had none.                  *)
KeepsTheBook == B!BookSpec
=============================================================================
