---------------------------- MODULE PasswordRecovery ----------------------------
(***************************************************************************)
(* What guards the password of one account against guessing:               *)
(*                                                                         *)
(*   src/src/modules/auth/services/auth.service.ts                         *)
(*   src/src/modules/auth/services/auth-rate-limit.service.ts              *)
(*                                                                         *)
(* login counts failures and locks the account; forgotPassword, verifyOtp  *)
(* and resetPassword hand out a code by mail, count wrong codes and take   *)
(* the code; each of them is limited in fixed windows before it starts.    *)
(*                                                                         *)
(* forgotPassword and the wrong code save a Mongoose document read before  *)
(* the mail or bcrypt: the save writes the paths the handler changed, and  *)
(* those it selected and found missing, which Mongoose gave their default, *)
(* whatever is stored by then.  The locks and the reset are updates with a *)
(* filter.                                                                 *)
(*                                                                         *)
(* A code is named by the request that made it.  The counters of the       *)
(* account are here; those of addresses are counted beside them the same   *)
(* way.  What a reset does to sessions is in AuthSessions.                 *)
(***************************************************************************)
EXTENDS Naturals, FiniteSets

CONSTANTS
  Calls,                       \* requests, each of which is made once
  MaxAttempts, OtpCooldown, OtpLife,
  MaxFailed, FailureWindow, LockDuration,
  Limit, Window,               \* the policies, by action
  MaxTime,                     \* the last moment of an instance
  NoCode, NoTime

Actions == {"login", "forgot", "otp"}

ASSUME PolicyAssumption ==
  /\ Limit \in [Actions -> Nat \ {0}]
  /\ {MaxAttempts, MaxFailed, OtpLife, FailureWindow, LockDuration, Window} \subseteq Nat \ {0}
  /\ OtpCooldown \in 0 .. OtpLife
  /\ MaxTime \in Nat
  /\ NoCode \notin Calls /\ NoTime \notin Nat
  /\ IsFiniteSet(Calls)

VARIABLES
  now,
  account,
  call,
  count,      \* auth_rate_limits: by action and bucket, 0 when there is none
  audit,      \* the ACCOUNT_LOCKED events
  passed,     \* ghost: by action, the requests let through in this window
  refused,    \* ghost: and those stopped
  failures,   \* ghost: the failed logins since the last success or reset
  guesses,    \* ghost: the wrong codes that were answered
  resets,     \* ghost: the resets, with the code that was stored last
  latest      \* ghost: that code

recoveryVars == <<now, account, call, count, audit, passed, refused, failures,
                  guesses, resets, latest>>

ghosts == <<passed, refused, failures, guesses, resets, latest>>

-----------------------------------------------------------------------------
Times == 0 .. MaxTime

Buckets == 0 .. (MaxTime \div Window)

Codes == Calls \cup {NoCode}

Endpoints == {"login", "forgot", "verify", "reset"}

ActionOf == [login |-> "login", forgot |-> "forgot", verify |-> "otp", reset |-> "otp"]

(* The paths whose default is null, and which updates remove.              *)
LockPaths == {"windowStart", "lockedUntil"}

(* The paths of the account.  The password is the request that set it.  A  *)
(* path of the lock without a time is null, or missing from the document.  *)
Account == [active : BOOLEAN, password : Codes,
            otp : Codes, expiry : Nat \cup {NoTime}, attempts : Nat,
            failed : Nat, windowStart : Nat \cup {NoTime},
            lockedUntil : Nat \cup {NoTime}, missing : SUBSET LockPaths]

Fresh == [active |-> TRUE, password |-> NoCode,
          otp |-> NoCode, expiry |-> NoTime, attempts |-> 0,
          failed |-> 0, windowStart |-> NoTime, lockedUntil |-> NoTime,
          missing |-> {}]

(* A request: the time it read, and of the account what it read.           *)
Call == [pc : {"new", "count", "insert", "again", "start", "fail", "signin",
               "save", "mail", "wrong", "exhausted", "commit", "over"},
         op : Endpoints, bucket : Buckets, at : Times,
         password : Codes, otp : Codes, attempts : Nat, missing : SUBSET LockPaths,
         stale : BOOLEAN]   \* ghost: somebody wrote the codes or the count since

New == [pc |-> "new", op |-> "login", bucket |-> 0, at |-> 0, password |-> NoCode,
        otp |-> NoCode, attempts |-> 0, missing |-> {}, stale |-> FALSE]

RecoveryTypeOK ==
  /\ now \in Times
  /\ account \in Account
  /\ call \in [Calls -> Call]
  /\ count \in [Actions \X Buckets -> Nat]
  /\ audit \in Nat
  /\ passed \in [Actions -> SUBSET Calls]
  /\ refused \in [Actions -> SUBSET Calls]
  /\ failures \subseteq [call : Calls, at : Times, recorded : Times]
  /\ guesses \subseteq [call : Calls, code : Codes, stale : BOOLEAN]
  /\ resets \subseteq [call : Calls, code : Codes, latest : Codes]
  /\ latest \in Codes

-----------------------------------------------------------------------------
(* Every other request that holds a code it read has read it too early.    *)
Touched(c) ==
  [d \in Calls |-> IF d # c /\ call[d].pc \in {"wrong", "exhausted"}
                   THEN [call[d] EXCEPT !.stale = TRUE] ELSE call[d]]

(* A request is over.                                                      *)
Over == [New EXCEPT !.pc = "over"]

End(c) == call' = [call EXCEPT ![c] = Over]

EndTouching(c) == call' = [Touched(c) EXCEPT ![c] = Over]

Proceed(c, pc) == call' = [call EXCEPT ![c].pc = pc]

-----------------------------------------------------------------------------
(* The limiter: hit                                                        *)

Arrive(c, op) ==
  /\ call[c].pc = "new"
  /\ call' = [call EXCEPT ![c] = [@ EXCEPT !.pc = "count", !.op = op,
                                           !.bucket = now \div Window]]
  /\ UNCHANGED <<now, account, count, audit>> /\ UNCHANGED ghosts

Counter(r) == <<ActionOf[r.op], r.bucket>>

(* The upsert finds no counter and will insert it.                         *)
MissCounter(c) ==
  /\ call[c].pc = "count" /\ count[Counter(call[c])] = 0
  /\ Proceed(c, "insert")
  /\ UNCHANGED <<now, account, count, audit>> /\ UNCHANGED ghosts

(* Another request has inserted it since.                                  *)
DuplicateCounter(c) ==
  /\ call[c].pc = "insert" /\ count[Counter(call[c])] # 0
  /\ Proceed(c, "again")
  /\ UNCHANGED <<now, account, count, audit>> /\ UNCHANGED ghosts

(* Faulty variant: the duplicate reads the counter.                        *)
CountedOnce(r) == IF r.pc = "again" THEN count[Counter(r)] ELSE count[Counter(r)] + 1

(* What the counter is after request r.                                    *)
Counted(r) == count[Counter(r)] + 1

Writes(r) ==
  \/ r.pc = "count" /\ count[Counter(r)] # 0
  \/ r.pc = "insert" /\ count[Counter(r)] = 0
  \/ r.pc = "again" /\ count[Counter(r)] # 0   \* else it has expired: unavailable

(* A counter that was purged while a request was on its way to it starts   *)
(* again; such a request is late.                                          *)
Late(r) == r.bucket # now \div Window

Note(ghost, c) ==
  [ghost EXCEPT ![ActionOf[call[c].op]] = IF Late(call[c]) THEN @ ELSE @ \cup {c}]

Hit(c) ==
  LET r == call[c] IN
  /\ Writes(r)
  /\ count' = [count EXCEPT ![Counter(r)] = Counted(r)]
  /\ \/ /\ Counted(r) <= Limit[ActionOf[r.op]]
        /\ call' = [call EXCEPT ![c].pc = "start"]
        /\ passed' = Note(passed, c)
        /\ UNCHANGED refused
     \/ /\ Counted(r) > Limit[ActionOf[r.op]]
        /\ End(c)
        /\ refused' = Note(refused, c)
        /\ UNCHANGED passed
  /\ UNCHANGED <<now, account, audit, failures, guesses, resets, latest>>

(* The TTL index removes the counters of a window that is over.            *)
PurgeCounter(a, b) ==
  /\ count[<<a, b>>] # 0 /\ (b + 1) * Window <= now
  /\ count' = [count EXCEPT ![<<a, b>>] = 0]
  /\ UNCHANGED <<now, account, call, audit>> /\ UNCHANGED ghosts

-----------------------------------------------------------------------------
(* Failed logins and the lock                                              *)

LockedAt(t) == account.lockedUntil # NoTime /\ account.lockedUntil > t

(* login reads the time and the account; a locked one is refused (Leave).  *)
FindLogin(c) ==
  LET r == call[c] IN
  /\ r.pc = "start" /\ r.op = "login"
  /\ account.active /\ ~LockedAt(now)
  /\ \E pc \in {"fail", "signin"} :
       call' = [call EXCEPT ![c].pc = pc, ![c].at = now, ![c].password = account.password]
  /\ UNCHANGED <<now, account, count, audit>> /\ UNCHANGED ghosts

(* Faulty variant: a window never ends.                                    *)
StartsWindowOnce(t) == account.windowStart = NoTime

(* An attempt read at t begins a new window of failures.                   *)
StartsWindow(t) ==
  \/ account.windowStart = NoTime
  \/ account.windowStart + FailureWindow <= t
  \/ account.lockedUntil # NoTime /\ account.lockedUntil <= t

(* The account after a failure read at t.                                  *)
Failed(t) ==
  LET n == IF StartsWindow(t) THEN 1 ELSE account.failed + 1 IN
  [account EXCEPT !.failed = n,
                  !.windowStart = IF StartsWindow(t) THEN t ELSE @,
                  !.lockedUntil = IF n >= MaxFailed THEN t + LockDuration ELSE NoTime,
                  !.missing = IF n >= MaxFailed THEN {} ELSE {"lockedUntil"}]

(* Faulty variant: the update names the account and no more.               *)
RecordFailureAnyLock(c) ==
  LET r == call[c] IN
  /\ r.pc = "fail"
  /\ account.active
  /\ account' = Failed(r.at)
  /\ audit' = IF account'.lockedUntil # NoTime THEN audit + 1 ELSE audit
  /\ failures' = failures \cup {[call |-> c, at |-> r.at, recorded |-> now]}
  /\ End(c)
  /\ UNCHANGED <<now, count, passed, refused, guesses, resets, latest>>

(* recordFailedLoginAttempt.  An account that was locked meanwhile is left *)
(* as it is (Leave).                                                       *)
RecordFailure(c) ==
  LET r == call[c] IN
  /\ r.pc = "fail"
  /\ account.active /\ ~LockedAt(r.at)
  /\ account' = Failed(r.at)
  /\ audit' = IF account'.lockedUntil # NoTime THEN audit + 1 ELSE audit
  /\ failures' = failures \cup {[call |-> c, at |-> r.at, recorded |-> now]}
  /\ End(c)
  /\ UNCHANGED <<now, count, passed, refused, guesses, resets, latest>>

(* The transaction of a login with the right password.                     *)
SignIn(c) ==
  LET r == call[c] IN
  /\ r.pc = "signin"
  /\ account.active /\ account.password = r.password /\ ~LockedAt(r.at)
  /\ account' = [account EXCEPT !.failed = 0, !.windowStart = NoTime,
                                !.lockedUntil = NoTime, !.missing = LockPaths]
  /\ failures' = {}
  /\ End(c)
  /\ UNCHANGED <<now, count, audit, passed, refused, guesses, resets, latest>>

-----------------------------------------------------------------------------
(* The code                                                                *)

(* A code was sent less than the cooldown ago.                             *)
CoolingDown ==
  account.expiry # NoTime /\ now + OtpLife < account.expiry + OtpCooldown

(* forgotPassword reads the account.                                       *)
FindForgot(c) ==
  /\ call[c].pc = "start" /\ call[c].op = "forgot"
  /\ account.active /\ ~CoolingDown
  /\ Proceed(c, "save")
  /\ UNCHANGED <<now, account, count, audit>> /\ UNCHANGED ghosts

(* It saves a new code, and mails it.                                      *)
SaveCode(c) ==
  /\ call[c].pc = "save"
  /\ account' = [account EXCEPT !.otp = c, !.expiry = now + OtpLife, !.attempts = 0]
  /\ call' = [Touched(c) EXCEPT ![c].pc = "mail"]
  /\ latest' = c
  /\ UNCHANGED <<now, count, audit, passed, refused, failures, guesses, resets>>

(* Faulty variant: the code goes, and its time stays.                      *)
WithdrawCodeOnly(c) ==
  /\ call[c].pc = "mail"
  /\ account' = [account EXCEPT !.otp = NoCode]
  /\ End(c)
  /\ UNCHANGED <<now, count, audit>> /\ UNCHANGED ghosts

(* The mail fails: whatever code there is now goes with its time.  The     *)
(* attempts are 0 in its document already, and are not written.            *)
Withdraw(c) ==
  /\ call[c].pc = "mail"
  /\ account' = [account EXCEPT !.otp = NoCode, !.expiry = NoTime]
  /\ End(c)
  /\ UNCHANGED <<now, count, audit>> /\ UNCHANGED ghosts

(* verifyOtp takes a code to its last moment, resetPassword until then.    *)
Lives(op) ==
  /\ account.active /\ account.expiry # NoTime
  /\ IF op = "verify" THEN account.expiry >= now
     ELSE account.otp # NoCode /\ account.expiry > now

(* verifyOtp and resetPassword read the account and compare the code: it   *)
(* has used up its attempts, is wrong, or is right.  verifyOtp says so.    *)
(* Only resetPassword selects the paths of the lock.                       *)
Compare(c) ==
  LET r == call[c] IN
  /\ r.pc = "start" /\ r.op \in {"verify", "reset"}
  /\ Lives(r.op)
  /\ \E pc \in {"exhausted", "wrong", "commit"} :
       /\ pc = "exhausted" <=> account.attempts >= MaxAttempts
       /\ pc = "commit" => r.op = "reset" /\ account.otp # NoCode
       /\ call' = [call EXCEPT ![c].pc = pc, ![c].password = account.password,
                     ![c].otp = account.otp, ![c].attempts = account.attempts,
                     ![c].missing = IF r.op = "reset" THEN account.missing ELSE {}]
  /\ UNCHANGED <<now, account, count, audit>> /\ UNCHANGED ghosts

(* What the save of a document adds to what its handler changed: null, in  *)
(* the paths that it lacked when r read it.                                *)
Defaulted(r) ==
  [account EXCEPT !.windowStart = IF "windowStart" \in r.missing THEN NoTime ELSE @,
                  !.lockedUntil = IF "lockedUntil" \in r.missing THEN NoTime ELSE @,
                  !.missing = @ \ r.missing]

(* Faulty variant: a wrong code is not counted.                            *)
SaveWrongUncounted(c) ==
  LET r == call[c] IN
  /\ r.pc = "wrong"
  /\ account' = Defaulted(r)
  /\ guesses' = guesses \cup {[call |-> c, code |-> r.otp, stale |-> r.stale]}
  /\ EndTouching(c)
  /\ UNCHANGED <<now, count, audit, passed, refused, failures, resets, latest>>

(* The document with one more attempt is saved, and the answer given.      *)
SaveWrong(c) ==
  LET r == call[c] IN
  /\ r.pc = "wrong"
  /\ account' = [Defaulted(r) EXCEPT !.attempts = r.attempts + 1]
  /\ guesses' = guesses \cup {[call |-> c, code |-> r.otp, stale |-> r.stale]}
  /\ EndTouching(c)
  /\ UNCHANGED <<now, count, audit, passed, refused, failures, resets, latest>>

(* The document without its code is saved.                                 *)
SaveExhausted(c) ==
  /\ call[c].pc = "exhausted"
  /\ account' = [Defaulted(call[c]) EXCEPT !.otp = NoCode, !.expiry = NoTime, !.attempts = 0]
  /\ EndTouching(c)
  /\ UNCHANGED <<now, count, audit>> /\ UNCHANGED ghosts

(* Faulty variant: the update does not ask for the code it compared.       *)
TakesAnyCode(r) ==
  /\ account.active /\ account.password = r.password
  /\ account.expiry # NoTime /\ account.expiry > now
  /\ account.attempts < MaxAttempts

(* The filter of the reset.                                                *)
Takes(r) ==
  /\ account.active /\ account.password = r.password
  /\ account.otp = r.otp
  /\ account.expiry # NoTime /\ account.expiry > now
  /\ account.attempts < MaxAttempts

CommitReset(c) ==
  LET r == call[c] IN
  /\ r.pc = "commit" /\ Takes(r)
  /\ account' = [Fresh EXCEPT !.password = c, !.missing = LockPaths]
  /\ resets' = resets \cup {[call |-> c, code |-> r.otp, latest |-> latest]}
  /\ failures' = {}
  /\ EndTouching(c)
  /\ UNCHANGED <<now, count, audit, passed, refused, guesses, latest>>

-----------------------------------------------------------------------------
(* A request is refused, answered (the code is right, the mail is sent) or *)
(* fails.                                                                  *)
Leave(c) ==
  /\ call[c].pc \notin {"new", "over"}
  /\ End(c)
  /\ UNCHANGED <<now, account, count, audit>> /\ UNCHANGED ghosts

(* softDeleteUser.                                                         *)
DeleteAccount ==
  /\ account.active
  /\ account' = [Fresh EXCEPT !.active = FALSE, !.missing = LockPaths]
  /\ UNCHANGED <<now, call, count, audit>> /\ UNCHANGED ghosts

Nobody == [a \in Actions |-> {}]

Tick ==
  /\ now < MaxTime
  /\ now' = now + 1
  /\ IF (now + 1) % Window = 0
     THEN passed' = Nobody /\ refused' = Nobody
     ELSE UNCHANGED <<passed, refused>>
  /\ UNCHANGED <<account, call, count, audit, failures, guesses, resets, latest>>

-----------------------------------------------------------------------------
RecoveryInit ==
  /\ now = 0
  /\ account = Fresh
  /\ call = [c \in Calls |-> New]
  /\ count = [k \in Actions \X Buckets |-> 0]
  /\ audit = 0
  /\ passed = Nobody /\ refused = Nobody
  /\ failures = {} /\ guesses = {} /\ resets = {} /\ latest = NoCode

RecoveryStep(c) ==
  \/ \E op \in Endpoints : Arrive(c, op)
  \/ MissCounter(c) \/ DuplicateCounter(c) \/ Hit(c)
  \/ FindLogin(c) \/ RecordFailure(c) \/ SignIn(c)
  \/ FindForgot(c) \/ SaveCode(c) \/ Withdraw(c)
  \/ Compare(c) \/ SaveWrong(c) \/ SaveExhausted(c) \/ CommitReset(c)
  \/ Leave(c)

RecoveryNext ==
  \/ \E c \in Calls : RecoveryStep(c)
  \/ \E a \in Actions, b \in Buckets : PurgeCounter(a, b)
  \/ DeleteAccount
  \/ Tick

RecoverySpec == RecoveryInit /\ [][RecoveryNext]_recoveryVars

-----------------------------------------------------------------------------
(* Properties                                                              *)

(* While a window lasts its counter lets through as many as the policy     *)
(* says and refuses nobody before, though the first requests race for the  *)
(* upsert (hit).                                                           *)
WindowExact ==
  \A a \in Actions :
    /\ Cardinality(passed[a]) <= Limit[a]
    /\ refused[a] # {} => Cardinality(passed[a]) = Limit[a]

Guesses(k) == {g \in guesses : g.code = k}

StaleGuesses == {g \in guesses : g.stale}

(* A code is answered MaxAttempts wrong guesses, and for every guess whose *)
(* document was out of date when it was saved at most as many again        *)
(* (verifyOtp, resetPassword).                                             *)
GuessesBounded ==
  \A k \in Calls :
    Cardinality(Guesses(k)) <= MaxAttempts * (1 + Cardinality(StaleGuesses))

(* A code resets the password once, and only while it is the last one that *)
(* was stored, however requests for codes and resets overlap.              *)
OneResetPerCode ==
  \A r, s \in resets : r.code = r.latest /\ (r.code = s.code => r = s)

(* The failures that were under way in the window that begins at t.        *)
UnderWay(t) == {f \in failures : f.at < t + FailureWindow /\ f.recorded >= t}

(* A lock is made of MaxFailed failures that were under way in one window  *)
(* since the last success or reset, though each carries the time it began. *)
LockMeansFailures ==
  account.lockedUntil # NoTime =>
    \E t \in Times : Cardinality(UnderWay(t)) >= MaxFailed

(* Until lockedUntil the account may not log in, unless its password was   *)
(* reset (user.schema.ts:146): nothing else moves or lifts a lock.         *)
LockStands ==
  [][LockedAt(now) /\ account'.lockedUntil # account.lockedUntil
       => account'.password # account.password \/ ~account'.active]_recoveryVars

(* A resetPassword that found no lock in its document saves that document  *)
(* with a wrong or exhausted code.                                         *)
SavesNoLock(c) ==
  /\ call[c].pc \in {"wrong", "exhausted"}
  /\ "lockedUntil" \in call[c].missing
  /\ call'[c].pc = "over"

(* No login moves or lifts a lock while it lasts, however long ago it read *)
(* the time.  A lock goes with a reset, with the account, or with the save *)
(* of one resetPassword that read its document before the lock.            *)
LoginsKeepLock ==
  [][LockedAt(now) /\ account'.lockedUntil # account.lockedUntil
       => /\ account'.lockedUntil = NoTime
          /\ \/ account'.password # account.password
             \/ ~account'.active
             \/ \E c \in Calls : SavesNoLock(c)]_recoveryVars

(* A request for a code is put off only while there is one (Withdraw and   *)
(* SaveExhausted save documents that may be out of date).                  *)
CooldownMeansCode == CoolingDown => account.otp # NoCode

(* Why they hold.  Each request is counted once, in a bucket that is not   *)
(* to come; the counter of this window is the number of those it has seen. *)
ToCount(c) == call[c].pc \in {"new", "count", "insert", "again"}

CounterInv ==
  /\ \A c \in Calls : call[c].bucket <= now \div Window
  /\ \A a \in Actions :
       /\ \A b \in Buckets : b > now \div Window => count[<<a, b>>] = 0
       /\ count[<<a, now \div Window>>]
            = Cardinality(passed[a]) + Cardinality(refused[a])
       /\ \A c \in passed[a] \cup refused[a] : ~ToCount(c)
  /\ WindowExact

(* The failures a window counts were under way in it.  The window of a     *)
(* lock may be gone, but a failure after the lock begins a new one.        *)
LockInv ==
  /\ IsFiniteSet(failures) /\ \A f \in failures : call[f.call].pc = "over"
  /\ \A c \in Calls : call[c].at <= now
  /\ account.windowStart # NoTime =>
       /\ account.windowStart <= now
       /\ account.failed <= Cardinality(UnderWay(account.windowStart))
  /\ LockMeansFailures

(* A code is stored with its time and is the last one.  One that is still  *)
(* to be saved is nowhere, and one that has reset the password is gone.    *)
ToSave(c) == ToCount(c) \/ call[c].pc \in {"start", "save"}

CodeInv ==
  /\ account.otp # NoCode <=> account.expiry # NoTime
  /\ account.otp # NoCode => account.otp = latest
  /\ account.password # NoCode => call[account.password].pc = "over"
  /\ \A c \in Calls : call[c].pc = "commit" => call[c].otp # NoCode
  /\ \A r \in resets : r.code \in Calls \ {account.otp}
  /\ \A c \in Calls : ToSave(c) =>
       /\ account.otp # c
       /\ \A d \in Calls : call[d].otp # c
       /\ \A r \in resets : r.code # c
       /\ Guesses(c) = {}
  /\ OneResetPerCode

(* The attempts of the code there is count its guesses, but for what a     *)
(* stale one takes off them; so does what a wrong one that is not stale is *)
(* about to save.                                                          *)
WithinAttempts(k, n) ==
  Cardinality(Guesses(k)) <= n + MaxAttempts * Cardinality(StaleGuesses)

WrongOK(r) ==
  /\ r.attempts < MaxAttempts
  /\ ~r.stale =>
       /\ account.otp \in {r.otp, NoCode}
       /\ r.otp # NoCode => WithinAttempts(r.otp, r.attempts)

GuessInv ==
  /\ IsFiniteSet(guesses) /\ \A g \in guesses : call[g.call].pc = "over"
  /\ account.attempts <= MaxAttempts
  /\ account.otp # NoCode => WithinAttempts(account.otp, account.attempts)
  /\ \A c \in Calls : call[c].pc = "wrong" => WrongOK(call[c])
  /\ GuessesBounded

RecoveryInv ==
  RecoveryTypeOK /\ CounterInv /\ LockInv /\ CodeInv /\ GuessInv
=================================================================================
