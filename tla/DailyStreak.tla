----------------------------- MODULE DailyStreak -----------------------------
(***************************************************************************)
(* What a streak promises: a book with at most one entry per account and   *)
(* day.  A day of posting earns one point, a day without takes a fifth of  *)
(* the count, rounded up, and the count moves only together with its       *)
(* entry.  Closing an account throws its entries away.                     *)
(***************************************************************************)
EXTENDS Integers

CONSTANTS Users, Days

VARIABLES
  standing,  \* of each account: "active", "suspended" or "deleted"
  count,     \* its streak
  book       \* its entries by day

bookVars == <<standing, count, book>>

Blank == [kind |-> "none", change |-> 0, count |-> 0]

BlankPage == [d \in Days |-> Blank]

(* A fifth, rounded up: at least one point.                                *)
Decrement(n) == (n + 4) \div 5

BookInit ==
  /\ standing = [u \in Users |-> "active"]
  /\ count \in [Users -> Nat]
  /\ book = [u \in Users |-> BlankPage]

Enter(u, d, kind, change) ==
  /\ standing[u] = "active"
  /\ book[u][d] = Blank
  /\ count' = [count EXCEPT ![u] = @ + change]
  /\ book' = [book EXCEPT ![u][d] = [kind   |-> kind,
                                     change |-> change,
                                     count  |-> count[u] + change]]
  /\ UNCHANGED standing

Earn(u, d) == Enter(u, d, "posted", 1)

Lose(u, d) == count[u] > 0 /\ Enter(u, d, "missed", -Decrement(count[u]))

Judge(u) ==
  /\ standing[u] # "deleted"
  /\ \E s \in {"active", "suspended"} : standing' = [standing EXCEPT ![u] = s]
  /\ UNCHANGED <<count, book>>

Close(u) ==
  /\ standing[u] = "active"
  /\ standing' = [standing EXCEPT ![u] = "deleted"]
  /\ book' = [book EXCEPT ![u] = BlankPage]
  /\ UNCHANGED count

BookNext ==
  \E u \in Users :
    \/ \E d \in Days : Earn(u, d) \/ Lose(u, d)
    \/ Judge(u) \/ Close(u)

BookSpec == BookInit /\ [][BookNext]_bookVars
=============================================================================
