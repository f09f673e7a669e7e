-------------------------- MODULE StreakLedger_proofs --------------------------
(***************************************************************************)
(* Proofs about StreakLedger, for any number of accounts, posts and        *)
(* servers.                                                                *)
(***************************************************************************)
EXTENDS StreakLedger, FiniteSetTheorems, TLAPS

-----------------------------------------------------------------------------
(* Counts and pages                                                        *)

(* A missed day takes at least one point and never more than there are     *)
(* (calculateMissedDayDecrement).                                          *)
LEMMA DecrementBounds ==
  ASSUME NEW n \in Nat, n > 0
  PROVE  B!Decrement(n) \in 1..n
<1>1. PICK m \in Nat : m = n + 4
  OBVIOUS
<1>2. /\ m \div 5 \in Int
      /\ 5 * (m \div 5) <= m /\ m < 5 * (m \div 5) + 5
  BY <1>1
<1> QED
  BY <1>1, <1>2 DEF B!Decrement

(* Whoever comes before a member of a page and is a candidate is on the    *)
(* page.                                                                   *)
LEMMA LeastIsLower ==
  ASSUME NEW S \in SUBSET Users, NEW n \in Nat, NEW u \in Least(n, S),
         NEW v \in S, v <= u
  PROVE  v \in Least(n, S)
<1> DEFINE below(w) == {z \in S : z < w}
<1>1. Users \subseteq Nat
  BY ConstantsAssumption
<1>2. /\ IsFiniteSet(below(u))
      /\ below(v) \subseteq below(u)
  <2>1. IsFiniteSet(Users)
    BY ConstantsAssumption
  <2>2. below(u) \subseteq Users /\ u \in S
    BY DEF Least
  <2>3. ASSUME NEW z \in S, z < v PROVE z < u
    <3>1. z \in Nat /\ v \in Nat /\ u \in Nat
      BY <1>1, <2>2
    <3> QED
      BY <3>1, <2>3
  <2> QED
    BY <2>1, <2>2, <2>3, FS_Subset
<1>3. /\ Cardinality(below(v)) <= Cardinality(below(u))
      /\ Cardinality(below(v)) \in Nat /\ Cardinality(below(u)) \in Nat
  BY <1>2, FS_Subset, FS_CardinalityType
<1>4. Cardinality(below(u)) < n
  BY DEF Least
<1> QED
  BY <1>3, <1>4 DEF Least

(* Nobody is account 0.                                                    *)
LEMMA NoUserIsNobody ==
  NoUser \notin Users /\ NoUser \in Nat /\ Users \subseteq Nat
  BY ConstantsAssumption DEF NoUser

LEMMA DaysAreNatural == MaxDay \in Nat /\ Days \subseteq Nat /\ 1 \in Days
  BY ConstantsAssumption DEF Days

-----------------------------------------------------------------------------
(* Types of the parts of a step                                            *)

LEMMA NextUserType ==
  ASSUME TypeOK, NEW s \in Servers, NEW u \in Users
  PROVE  NextUser(s, u) \in [Servers -> Run]
<1>1. PICK r \in Run : r = run[s]
  BY DEF TypeOK
<1>2. [r EXCEPT !.pc = IF r.todo \ {u} = {} THEN "page" ELSE "users",
                !.todo = r.todo \ {u}, !.u = NoUser, !.seen = 0,
                !.stale = FALSE] \in Run
  BY DEF Run
<1> QED
  BY <1>1, <1>2 DEF NextUser, TypeOK

(* Written sets no field but stale, and only of what writes u.             *)
LEMMA WrittenEffect ==
  ASSUME NEW u \in Users, NEW a \in [Posts -> Award],
         NEW r \in [Servers -> Run], NEW x \in [Users -> Deletion],
         Written(u, a, r, x)
  PROVE  /\ award' \in [Posts -> Award]
         /\ run' \in [Servers -> Run]
         /\ deletion' \in [Users -> Deletion]
         /\ \A p \in Posts :
              award'[p] = IF a[p].pc = "open" /\ a[p].u = u
                          THEN [a[p] EXCEPT !.stale = TRUE] ELSE a[p]
         /\ \A s \in Servers :
              run'[s] = IF r[s].pc = "open" /\ r[s].u = u
                        THEN [r[s] EXCEPT !.stale = TRUE] ELSE r[s]
         /\ \A v \in Users :
              deletion'[v] = IF v = u /\ x[v].pc = "open"
                             THEN [x[v] EXCEPT !.stale = TRUE] ELSE x[v]
<1>1. /\ \A y \in Award : [y EXCEPT !.stale = TRUE] \in Award
      /\ \A y \in Run : [y EXCEPT !.stale = TRUE] \in Run
      /\ \A y \in Deletion : [y EXCEPT !.stale = TRUE] \in Deletion
  BY DEF Award, Run, Deletion
<1>2. \A p \in Posts :
        (IF a[p].pc = "open" /\ a[p].u = u
         THEN [a[p] EXCEPT !.stale = TRUE] ELSE a[p]) \in Award
  BY <1>1
<1>3. \A s \in Servers :
        (IF r[s].pc = "open" /\ r[s].u = u
         THEN [r[s] EXCEPT !.stale = TRUE] ELSE r[s]) \in Run
  BY <1>1
<1>4. \A v \in Users :
        (IF v = u /\ x[v].pc = "open"
         THEN [x[v] EXCEPT !.stale = TRUE] ELSE x[v]) \in Deletion
  BY <1>1
<1> QED
  BY <1>2, <1>3, <1>4 DEF Written

-----------------------------------------------------------------------------
(* Types                                                                   *)

(* A process that has not started.                                         *)
LEMMA BlankTypes == NoAward \in Award /\ NoRun \in Run
  BY DaysAreNatural DEF NoAward, Award, NoRun, Run

(* The records of a process at work.                                       *)
LEMMA AwardFields ==
  ASSUME TypeOK, AwardInv, NEW p \in Posts, award[p].pc # "idle"
  PROVE  /\ award[p] \in Award
         /\ award[p].u \in Users /\ award[p].d \in Days
         /\ award[p].d <= today
<1>1. /\ award[p] \in Award /\ today \in Days
      /\ award[p].u \in Users /\ award[p].d \in 1..today
  BY DEF TypeOK, AwardInv, AwardOK
<1> QED
  BY <1>1, DaysAreNatural DEF Days

LEMMA RunFields ==
  ASSUME TypeOK, RunInv, NEW s \in Servers
  PROVE  /\ run[s] \in Run
         /\ run[s].date \in 0..MaxDay /\ run[s].date < today
         /\ run[s].pc # "idle" => run[s].date \in Days
         /\ run[s].pc = "open" => run[s].u \in Users
<1>1. /\ run[s] \in Run /\ today \in Days /\ RunOK(run[s])
  BY DEF TypeOK, RunInv
<1>2. run[s].date \in 0..MaxDay /\ run[s].todo \subseteq Users
  BY <1>1 DEF Run
<1> QED
  BY <1>1, <1>2, DaysAreNatural DEF Days, RunOK

(* Who takes a turn is in the page.                                        *)
LEMMA TurnFields ==
  ASSUME NEW s \in Servers, NEW u \in Users, Turn(s, u)
  PROVE  run[s].pc = "users" /\ u \in run[s].todo
  BY DEF Turn

(* The account and the rows of u after an entry.                           *)
LEMMA BookedType ==
  ASSUME TypeOK, NEW u \in Users, NEW d \in Days, NEW n \in Nat,
         NEW k \in {"posted", "missed"}, NEW c \in Int
  PROVE  /\ [user EXCEPT ![u].streak = n] \in [Users -> UserDoc]
         /\ [row EXCEPT ![u][d] = [kind |-> k, change |-> c, count |-> n]]
              \in [Users -> [Days -> Row]]
         /\ [latest EXCEPT ![u] = d] \in [Users -> 0..MaxDay]
<1>1. PICK x \in UserDoc : x = user[u]
  BY DEF TypeOK
<1>2. [x EXCEPT !.streak = n] \in UserDoc
  BY DEF UserDoc
<1>3. [kind |-> k, change |-> c, count |-> n] \in Row
  BY DEF Row
<1>4. d \in 0..MaxDay
  BY DaysAreNatural DEF Days
<1> QED
  BY <1>1, <1>2, <1>3, <1>4 DEF TypeOK

(* The commit of an entry of kind k in the book, and the change c of u.    *)
Booking(u, d, n, k, c) ==
  /\ Active(u) /\ ~HasRow(u, d)
  /\ n = user[u].streak + c
  /\ user' = [user EXCEPT ![u].streak = n]
  /\ row' = [row EXCEPT ![u][d] = [kind |-> k, change |-> c, count |-> n]]
  /\ latest' = [latest EXCEPT ![u] = d]
  /\ today' = today /\ start' = start /\ excused' = excused

(* What CommitAward and CommitDecay write.                                 *)
LEMMA CommitAwardEffect ==
  ASSUME TypeOK, AwardInv, NEW p \in Posts, CommitAward(p)
  PROVE  \E u \in Users, d \in Days, n \in Nat :
           /\ award[p].pc = "open"
           /\ u = award[p].u /\ d = award[p].d /\ d <= today
           /\ Booking(u, d, n, "posted", 1)
           /\ Written(u, [award EXCEPT ![p].pc = "done"], run, deletion)
<1>1. award[p].pc = "open" /\ ~award[p].stale /\ AwardOK(award[p])
  BY DEF CommitAward, AwardInv
<1>2. PICK u \in Users, d \in Days :
        u = award[p].u /\ d = award[p].d /\ d <= today
  BY <1>1, AwardFields
<1>3. PICK n \in Nat : n = user[u].streak + 1
  BY DEF TypeOK, UserDoc
<1>4. Active(u) /\ ~HasRow(u, d)
  BY <1>1, <1>2 DEF AwardOK
<1>5. /\ user' = [user EXCEPT ![u].streak = n]
      /\ row' = [row EXCEPT ![u][d] =
                   [kind |-> "posted", change |-> 1, count |-> n]]
      /\ latest' = [latest EXCEPT ![u] = d]
      /\ today' = today /\ start' = start /\ excused' = excused
      /\ Written(u, [award EXCEPT ![p].pc = "done"], run, deletion)
  BY <1>2, <1>3 DEF CommitAward
<1>6. Booking(u, d, n, "posted", 1)
  BY <1>3, <1>4, <1>5 DEF Booking
<1> QED
  BY <1>1, <1>2, <1>5, <1>6

LEMMA CommitDecayEffect ==
  ASSUME TypeOK, RunInv, NEW s \in Servers, CommitDecay(s)
  PROVE  \E u \in Users, d \in Days, n \in Nat, c \in Int :
           /\ run[s].pc = "open"
           /\ u = run[s].u /\ d = run[s].date /\ d < today
           /\ user[u].streak > 0 /\ c = -B!Decrement(user[u].streak)
           /\ Booking(u, d, n, "missed", c)
           /\ Written(u, award, NextUser(s, u), deletion)
<1>1. run[s].pc = "open" /\ ~run[s].stale /\ RunOK(run[s])
  BY DEF CommitDecay, RunInv
<1>2. PICK u \in Users, d \in Days :
        u = run[s].u /\ d = run[s].date /\ d < today
  BY <1>1, RunFields
<1>3. Active(u) /\ ~HasRow(u, d) /\ run[s].seen = user[u].streak
        /\ user[u].streak > 0 /\ user[u].streak \in Nat
  BY <1>1, <1>2 DEF RunOK, TypeOK, UserDoc
<1>4. PICK k \in Nat : k = B!Decrement(user[u].streak) /\ k <= user[u].streak
  BY <1>3, DecrementBounds
<1>5. PICK c \in Int : c = -k
  OBVIOUS
<1>6. PICK n \in Nat : n = user[u].streak - k /\ n = user[u].streak + c
  BY <1>3, <1>4, <1>5
<1>7. /\ user' = [user EXCEPT ![u].streak = n]
      /\ row' = [row EXCEPT ![u][d] =
                   [kind |-> "missed", change |-> c, count |-> n]]
      /\ latest' = [latest EXCEPT ![u] = d]
      /\ today' = today /\ start' = start /\ excused' = excused
      /\ Written(u, award, NextUser(s, u), deletion)
  BY <1>2, <1>3, <1>4, <1>5, <1>6 DEF CommitDecay
<1>8. Booking(u, d, n, "missed", c)
  BY <1>3, <1>6, <1>7 DEF Booking
<1> QED
  BY <1>1, <1>2, <1>3, <1>4, <1>5, <1>7, <1>8

LEMMA TypeStep ==
  ASSUME TypeOK, AwardInv, RunInv, Next
  PROVE  TypeOK'
<1>1. ASSUME NEW p \in Posts, AwardStep(p) PROVE TypeOK'
  <2>1. ASSUME NEW u \in Users, CreatePost(p, u) PROVE TypeOK'
    <3>1. today \in 0..MaxDay
      BY DaysAreNatural DEF TypeOK, Days
    <3>2. [NoAward EXCEPT !.pc = "created", !.u = u, !.d = today] \in Award
      BY <3>1, BlankTypes DEF Award
    <3> QED
      BY <2>1, <3>2 DEF CreatePost, TypeOK
  <2>2. ASSUME CountPost(p) PROVE TypeOK'
    <3>1. award[p].u \in Users
      BY <2>2, AwardFields DEF CountPost
    <3>2. [award EXCEPT ![p].pc = "counted"] \in [Posts -> Award]
      BY ZenonT(40) DEF TypeOK, Award
    <3>3. /\ run \in [Servers -> Run] /\ deletion \in [Users -> Deletion]
      BY DEF TypeOK
    <3>4. /\ award' \in [Posts -> Award] /\ run' \in [Servers -> Run]
          /\ deletion' \in [Users -> Deletion]
      BY <2>2, <3>1, <3>2, <3>3, WrittenEffect DEF CountPost
    <3> QED
      BY <2>2, <3>4 DEF CountPost, TypeOK
  <2>3. ASSUME OpenAward(p) PROVE TypeOK'
    <3>1. PICK a \in Award : a = award[p]
      BY DEF TypeOK
    <3>2. PICK k \in {"done", "open"} :
            k = IF HasRow(a.u, a.d) \/ ~Active(a.u) THEN "done" ELSE "open"
      OBVIOUS
    <3>3. [a EXCEPT !.pc = k, !.stale = FALSE] \in Award
      BY DEF Award
    <3>4. award' = [award EXCEPT ![p] = [a EXCEPT !.pc = k, !.stale = FALSE]]
      BY <2>3, <3>1, <3>2 DEF OpenAward, TypeOK
    <3> QED
      BY ZenonT(40), <2>3, <3>3, <3>4 DEF OpenAward, TypeOK
  <2>4. ASSUME CommitAward(p) PROVE TypeOK'
    <3>1. PICK u \in Users, d \in Days, n \in Nat :
            /\ Booking(u, d, n, "posted", 1)
            /\ Written(u, [award EXCEPT ![p].pc = "done"], run, deletion)
      BY <2>4, CommitAwardEffect
    <3>2. [award EXCEPT ![p].pc = "done"] \in [Posts -> Award]
      BY ZenonT(40) DEF TypeOK, Award
    <3>3. /\ run \in [Servers -> Run] /\ deletion \in [Users -> Deletion]
      BY DEF TypeOK
    <3>4. /\ award' \in [Posts -> Award] /\ run' \in [Servers -> Run]
          /\ deletion' \in [Users -> Deletion]
      BY <3>1, <3>2, <3>3, WrittenEffect
    <3>5. /\ user' \in [Users -> UserDoc] /\ row' \in [Users -> [Days -> Row]]
          /\ latest' \in [Users -> 0..MaxDay]
      BY <3>1, BookedType DEF Booking
    <3> QED
      BY <3>1, <3>4, <3>5 DEF TypeOK, Booking
  <2>5. ASSUME ConflictAward(p) PROVE TypeOK'
    BY <2>5 DEF ConflictAward, TypeOK, Award
  <2>6. ASSUME FailAward(p) PROVE TypeOK'
    BY ZenonT(40), <2>6 DEF FailAward, TypeOK, Award
  <2> QED
    BY <1>1, <2>1, <2>2, <2>3, <2>4, <2>5, <2>6 DEF AwardStep
<1>2. ASSUME NEW s \in Servers, RunStep(s) PROVE TypeOK'
  <2>0. /\ run[s] \in Run /\ run[s].fired \in 0..MaxDay
        /\ today \in Nat /\ today \in 0..MaxDay /\ today <= MaxDay
    BY DaysAreNatural DEF TypeOK, Days, Run
  <2>1. ASSUME StartRun(s) PROVE TypeOK'
    <3>1. [NoRun EXCEPT !.pc = "page", !.date = today - 1, !.fired = today] \in Run
      <4>1. today - 1 \in 0..MaxDay
        BY <2>0, <2>1, DaysAreNatural DEF StartRun
      <4> QED
        BY <2>0, <4>1, BlankTypes DEF Run
    <3>2. [run EXCEPT ![s].fired = today] \in [Servers -> Run]
      BY <2>0 DEF TypeOK, Run
    <3>3. run' \in [Servers -> Run] /\ excused' \in [Servers -> SUBSET Users]
      BY <2>1, <3>1, <3>2 DEF StartRun, TypeOK
    <3> QED
      BY <2>1, <3>3 DEF StartRun, TypeOK
  <2>2. ASSUME EndRun(s) PROVE TypeOK'
    BY ZenonT(40), <2>2 DEF EndRun, TypeOK, Run, Rest
  <2>3. ASSUME NEW u \in Users, ReadPage(s, u) PROVE TypeOK'
    <3>1. Least(Batch, Candidates(s)) \subseteq Users
      BY DEF Least, Candidates, Rest
    <3>2. PICK r \in Run : r = run[s]
      BY <2>0
    <3>3. [r EXCEPT !.pc = "users", !.todo = Least(Batch, Candidates(s)),
                    !.cursor = u] \in Run
      BY <3>1 DEF Run
    <3>4. run' = [run EXCEPT ![s] =
                    [r EXCEPT !.pc = "users", !.cursor = u,
                              !.todo = Least(Batch, Candidates(s))]]
      BY <2>3, <3>2 DEF ReadPage, TypeOK
    <3>5. run' \in [Servers -> Run]
      BY <3>3, <3>4 DEF TypeOK
    <3>6. excused' \in [Servers -> SUBSET Users]
      BY <2>3 DEF ReadPage, TypeOK, Rest
    <3> QED
      BY <2>3, <3>5, <3>6 DEF ReadPage, TypeOK
  <2>4. ASSUME NEW u \in Users, SkipUser(s, u) PROVE TypeOK'
    <3>1. NextUser(s, u) \in [Servers -> Run]
      BY NextUserType
    <3>2. excused' \in [Servers -> SUBSET Users]
      BY <2>4 DEF SkipUser, TypeOK
    <3> QED
      BY <2>4, <3>1, <3>2 DEF SkipUser, TypeOK
  <2>5. ASSUME NEW u \in Users, OpenDecay(s, u) PROVE TypeOK'
    <3>1. user[u].streak \in Nat
      BY DEF TypeOK, UserDoc
    <3>2. run' \in [Servers -> Run]
      <4>1. PICK r \in Run : r = run[s]
        BY <2>0
      <4>2. [r EXCEPT !.pc = "open", !.u = u, !.seen = user[u].streak,
                      !.stale = FALSE] \in Run
        BY <3>1 DEF Run
      <4> QED
        BY <2>5, <4>1, <4>2 DEF OpenDecay, TypeOK
    <3> QED
      BY <2>5, <3>2 DEF OpenDecay, TypeOK
  <2>6. ASSUME CommitDecay(s) PROVE TypeOK'
    <3>1. PICK u \in Users, d \in Days, n \in Nat, c \in Int :
            /\ Booking(u, d, n, "missed", c)
            /\ Written(u, award, NextUser(s, u), deletion)
      BY <2>6, CommitDecayEffect
    <3>2. /\ NextUser(s, u) \in [Servers -> Run]
          /\ award \in [Posts -> Award] /\ deletion \in [Users -> Deletion]
      BY NextUserType DEF TypeOK
    <3>3. /\ award' \in [Posts -> Award] /\ run' \in [Servers -> Run]
          /\ deletion' \in [Users -> Deletion]
      BY <3>1, <3>2, WrittenEffect
    <3>4. /\ user' \in [Users -> UserDoc] /\ row' \in [Users -> [Days -> Row]]
          /\ latest' \in [Users -> 0..MaxDay]
      BY <3>1, BookedType DEF Booking
    <3> QED
      BY <3>1, <3>3, <3>4 DEF TypeOK, Booking
  <2>7. ASSUME ConflictDecay(s) PROVE TypeOK'
    BY <2>7 DEF ConflictDecay, TypeOK, Run
  <2>8. ASSUME FailDecay(s) PROVE TypeOK'
    <3>1. PICK u \in Users : u = run[s].u
      BY <2>8, RunFields DEF FailDecay
    <3>2. NextUser(s, u) \in [Servers -> Run]
      BY NextUserType
    <3>3. excused' \in [Servers -> SUBSET Users]
      BY <2>8, <3>1 DEF FailDecay, TypeOK
    <3> QED
      BY <2>8, <3>1, <3>2, <3>3 DEF FailDecay, TypeOK
  <2>9. ASSUME FailRun(s) PROVE TypeOK'
    <3>1. [NoRun EXCEPT !.fired = run[s].fired] \in Run
      BY <2>0, BlankTypes DEF Run
    <3> QED
      BY <2>9, <3>1 DEF FailRun, TypeOK
  <2> QED
    BY <1>2, <2>1, <2>2, <2>3, <2>4, <2>5, <2>6, <2>7, <2>8, <2>9 DEF RunStep
<1>3. ASSUME NEW u \in Users, AccountStep(u) PROVE TypeOK'
  <2>1. ASSUME OpenDeletion(u) PROVE TypeOK'
    <3>1. [pc |-> "open", days |-> {d \in Days : HasRow(u, d)}, stale |-> FALSE]
            \in Deletion
      BY DEF Deletion
    <3> QED
      BY <2>1, <3>1 DEF OpenDeletion, TypeOK
  <2>2. ASSUME CommitDeletion(u) PROVE TypeOK'
    <3>1. [deletion EXCEPT ![u] = NoDeletion] \in [Users -> Deletion]
      BY DEF TypeOK, Deletion, NoDeletion
    <3>2. award \in [Posts -> Award] /\ run \in [Servers -> Run]
      BY DEF TypeOK
    <3>3. /\ award' \in [Posts -> Award] /\ run' \in [Servers -> Run]
          /\ deletion' \in [Users -> Deletion]
      BY <2>2, <3>1, <3>2, WrittenEffect DEF CommitDeletion
    <3>4. B!Blank \in Row
      BY DEF B!Blank, Row
    <3>5. row' \in [Users -> [Days -> Row]]
      BY <2>2, <3>4 DEF CommitDeletion, TypeOK
    <3>6. user' \in [Users -> UserDoc]
      BY <2>2 DEF CommitDeletion, TypeOK, UserDoc
    <3> QED
      BY <2>2, <3>3, <3>5, <3>6 DEF CommitDeletion, TypeOK
  <2>3. ASSUME AbortDeletion(u) PROVE TypeOK'
    BY <2>3 DEF AbortDeletion, TypeOK, NoDeletion, Deletion
  <2>4. ASSUME SetStatus(u) PROVE TypeOK'
    <3>1. /\ award \in [Posts -> Award] /\ run \in [Servers -> Run]
          /\ deletion \in [Users -> Deletion]
      BY DEF TypeOK
    <3>2. /\ award' \in [Posts -> Award] /\ run' \in [Servers -> Run]
          /\ deletion' \in [Users -> Deletion]
      BY <2>4, <3>1, WrittenEffect DEF SetStatus
    <3>3. user' \in [Users -> UserDoc]
      BY <2>4 DEF SetStatus, TypeOK, UserDoc
    <3> QED
      BY <2>4, <3>2, <3>3 DEF SetStatus, TypeOK
  <2> QED
    BY <1>3, <2>1, <2>2, <2>3, <2>4 DEF AccountStep
<1>4. ASSUME Midnight PROVE TypeOK'
  BY <1>4, DaysAreNatural DEF Midnight, TypeOK, Days
<1> QED
  BY <1>1, <1>2, <1>3, <1>4 DEF Next

-----------------------------------------------------------------------------
(* Transactions and what they see                                          *)

(* What a step leaves alone that writes no account.                        *)
Quiet == user' = user /\ row' = row /\ today <= today'

LEMMA QuietKeeps ==
  ASSUME TypeOK, TypeOK', Quiet
  PROVE  /\ \A y : AwardOK(y) => AwardOK(y)'
         /\ \A y \in Run : RunOK(y) => RunOK(y)'
         /\ \A u, y : DeletionOK(u, y) => DeletionOK(u, y)'
<1>1. today \in Nat /\ today' \in Nat /\ today <= today'
  BY DaysAreNatural DEF TypeOK, Quiet
<1>2. /\ \A u : Active(u)' <=> Active(u)
      /\ \A u, d : HasRow(u, d)' <=> HasRow(u, d)
  BY DEF Active, HasRow, Quiet
<1>3. ASSUME NEW y, AwardOK(y) PROVE AwardOK(y)'
  BY <1>1, <1>2, <1>3 DEF AwardOK
<1>4. ASSUME NEW y \in Run, RunOK(y) PROVE RunOK(y)'
  <2>1. y.date \in Int
    BY DEF Run
  <2>2. user' = user
    BY DEF Quiet
  <2> QED
    BY <1>1, <1>2, <1>4, <2>1, <2>2 DEF RunOK
<1>5. ASSUME NEW u, NEW y, DeletionOK(u, y) PROVE DeletionOK(u, y)'
  <2>1. {d \in Days : HasRow(u, d)}' = {d \in Days : HasRow(u, d)}
    BY <1>2 DEF Days
  <2> QED
    BY <1>2, <1>5, <2>1 DEF DeletionOK
<1> QED
  BY <1>3, <1>4, <1>5

(* A step that writes account u: the processes that are to be a, r and x   *)
(* keep what they see, or are stale.                                       *)
LEMMA WrittenKeeps ==
  ASSUME NEW u \in Users, NEW a \in [Posts -> Award],
         NEW r \in [Servers -> Run], NEW x \in [Users -> Deletion],
         Written(u, a, r, x), today' = today,
         \A v \in Users \ {u} : user'[v] = user[v] /\ row'[v] = row[v],
         \A p \in Posts : AwardOK(a[p]),
         \A s \in Servers : RunOK(r[s]),
         \A v \in Users : DeletionOK(v, x[v])
  PROVE  AwardInv' /\ RunInv' /\ DeletionInv'
<1>1. \A v \in Users \ {u} :
        /\ Active(v)' <=> Active(v)
        /\ \A d : HasRow(v, d)' <=> HasRow(v, d)
  BY DEF Active, HasRow
<1>2. ASSUME NEW p \in Posts PROVE AwardOK(award[p])'
  <2>1. PICK y \in Award : y = a[p]
    OBVIOUS
  <2>2. PICK z \in Award : z = award'[p]
    BY WrittenEffect
  <2>3. z = IF y.pc = "open" /\ y.u = u
            THEN [y EXCEPT !.stale = TRUE] ELSE y
    BY <2>1, <2>2, WrittenEffect
  <2>4. AwardOK(y)
    BY <2>1
  <2>5. /\ z.pc = y.pc /\ z.u = y.u /\ z.d = y.d
        /\ z.pc = "open" /\ ~z.stale => ~y.stale /\ y.u # u
    BY <2>3 DEF Award
  <2>6. AwardOK(z)'
    BY <1>1, <2>4, <2>5 DEF AwardOK
  <2> QED
    BY <2>2, <2>6
<1>3. ASSUME NEW s \in Servers PROVE RunOK(run[s])'
  <2>1. PICK y \in Run : y = r[s]
    OBVIOUS
  <2>2. PICK z \in Run : z = run'[s]
    BY WrittenEffect
  <2>3. z = IF y.pc = "open" /\ y.u = u
            THEN [y EXCEPT !.stale = TRUE] ELSE y
    BY <2>1, <2>2, WrittenEffect
  <2>4. RunOK(y)
    BY <2>1
  <2>5. /\ z.pc = y.pc /\ z.u = y.u /\ z.date = y.date /\ z.todo = y.todo
        /\ z.seen = y.seen /\ y.todo \subseteq Users
        /\ z.pc = "open" /\ ~z.stale => ~y.stale /\ y.u # u
    BY <2>3 DEF Run
  <2>6. z.pc = "open" /\ ~z.stale => z.u \in Users \ {u}
    BY <2>4, <2>5 DEF RunOK
  <2>7. RunOK(z)'
    BY <1>1, <2>4, <2>5, <2>6 DEF RunOK
  <2> QED
    BY <2>2, <2>7
<1>4. ASSUME NEW v \in Users PROVE DeletionOK(v, deletion[v])'
  <2>1. PICK y \in Deletion : y = x[v]
    OBVIOUS
  <2>2. PICK z \in Deletion : z = deletion'[v]
    BY WrittenEffect
  <2>3. z = IF v = u /\ y.pc = "open" THEN [y EXCEPT !.stale = TRUE] ELSE y
    BY <2>1, <2>2, WrittenEffect
  <2>4. DeletionOK(v, y)
    BY <2>1
  <2>5. /\ z.pc = y.pc /\ z.days = y.days
        /\ z.pc = "open" /\ ~z.stale => ~y.stale /\ v # u
    BY <2>3 DEF Deletion
  <2>6. v # u => {d \in Days : HasRow(v, d)}' = {d \in Days : HasRow(v, d)}
    BY <1>1 DEF Days
  <2>7. DeletionOK(v, z)'
    BY <1>1, <2>4, <2>5, <2>6 DEF DeletionOK
  <2> QED
    BY <2>2, <2>7
<1> QED
  BY <1>2, <1>3, <1>4 DEF AwardInv, RunInv, DeletionInv

(* A server that is through with a user is as it should be.                *)
LEMMA NextUserKeeps ==
  ASSUME TypeOK, RunInv, NEW s \in Servers, NEW u \in Users,
         run[s].pc # "idle"
  PROVE  \A q \in Servers : RunOK(NextUser(s, u)[q])
<1> TAKE q \in Servers
<1>1. PICK r \in Run : r = run[s]
  BY DEF TypeOK
<1>2. RunOK(r) /\ r.pc # "idle"
  BY <1>1 DEF RunInv
<1>3. PICK y : y = [r EXCEPT !.pc = IF r.todo \ {u} = {} THEN "page" ELSE "users",
                             !.todo = r.todo \ {u}, !.u = NoUser, !.seen = 0,
                             !.stale = FALSE]
  OBVIOUS
<1>4. /\ y.pc \in {"page", "users"} /\ y.date = r.date
      /\ y.pc = "page" => y.todo = {}
  BY <1>3 DEF Run
<1>5. RunOK(y)
  BY <1>2, <1>4 DEF RunOK
<1>6. CASE q = s
  BY <1>1, <1>3, <1>5, <1>6 DEF NextUser, TypeOK
<1>7. CASE q # s
  BY <1>7 DEF NextUser, TypeOK, RunInv
<1> QED
  BY <1>6, <1>7

Parts == AwardInv /\ RunInv /\ DeletionInv

(* Steps that give one process a new state and write no account.           *)
LEMMA AwardMoves ==
  ASSUME TypeOK, TypeOK', Parts, Quiet, NEW p \in Posts, NEW y,
         award' = [award EXCEPT ![p] = y], AwardOK(y)',
         run' = run, deletion' = deletion
  PROVE  Parts'
<1>1. ASSUME NEW q \in Posts PROVE AwardOK(award[q])'
  <2>1. PICK z : z = award'[q]
    OBVIOUS
  <2>2. z = IF q = p THEN y ELSE award[q]
    BY <2>1 DEF TypeOK
  <2>3. AwardOK(award[q])
    BY DEF Parts, AwardInv
  <2>4. CASE q = p
    BY <2>1, <2>2, <2>4
  <2>5. CASE q # p
    <3>1. AwardOK(z)
      BY <2>2, <2>3, <2>5
    <3>2. AwardOK(z)'
      BY <3>1, QuietKeeps
    <3> QED
      BY <2>1, <3>2
  <2> QED
    BY <2>4, <2>5
<1>2. ASSUME NEW s \in Servers PROVE RunOK(run[s])'
  <2>1. PICK z \in Run : z = run[s] /\ z = run'[s]
    BY DEF TypeOK
  <2>2. RunOK(z)'
    BY <2>1, QuietKeeps DEF Parts, RunInv
  <2> QED
    BY <2>1, <2>2
<1>3. ASSUME NEW u \in Users PROVE DeletionOK(u, deletion[u])'
  <2>1. PICK z : z = deletion[u] /\ z = deletion'[u]
    OBVIOUS
  <2>2. DeletionOK(u, z)'
    BY <2>1, QuietKeeps DEF Parts, DeletionInv
  <2> QED
    BY <2>1, <2>2
<1> QED
  BY <1>1, <1>2, <1>3 DEF Parts, AwardInv, RunInv, DeletionInv

LEMMA RunMoves ==
  ASSUME TypeOK, TypeOK', Parts, Quiet, NEW s \in Servers,
         \A q \in Servers \ {s} : run'[q] = run[q],
         RunOK(run[s])', award' = award, deletion' = deletion
  PROVE  Parts'
<1>1. ASSUME NEW p \in Posts PROVE AwardOK(award[p])'
  <2>1. PICK z : z = award[p] /\ z = award'[p]
    OBVIOUS
  <2>2. AwardOK(z)'
    BY <2>1, QuietKeeps DEF Parts, AwardInv
  <2> QED
    BY <2>1, <2>2
<1>2. ASSUME NEW q \in Servers, q # s PROVE RunOK(run[q])'
  <2>1. PICK z \in Run : z = run[q] /\ z = run'[q]
    BY <1>2 DEF TypeOK
  <2>2. RunOK(z)'
    BY <2>1, QuietKeeps DEF Parts, RunInv
  <2> QED
    BY <2>1, <2>2
<1>3. ASSUME NEW u \in Users PROVE DeletionOK(u, deletion[u])'
  <2>1. PICK z : z = deletion[u] /\ z = deletion'[u]
    OBVIOUS
  <2>2. DeletionOK(u, z)'
    BY <2>1, QuietKeeps DEF Parts, DeletionInv
  <2> QED
    BY <2>1, <2>2
<1> QED
  BY <1>1, <1>2, <1>3 DEF Parts, AwardInv, RunInv, DeletionInv

LEMMA DeletionMoves ==
  ASSUME TypeOK, TypeOK', Parts, Quiet, NEW u \in Users,
         \A v \in Users \ {u} : deletion'[v] = deletion[v],
         DeletionOK(u, deletion[u])', award' = award, run' = run
  PROVE  Parts'
<1>1. ASSUME NEW p \in Posts PROVE AwardOK(award[p])'
  <2>1. PICK z : z = award[p] /\ z = award'[p]
    OBVIOUS
  <2>2. AwardOK(z)'
    BY <2>1, QuietKeeps DEF Parts, AwardInv
  <2> QED
    BY <2>1, <2>2
<1>2. ASSUME NEW q \in Servers PROVE RunOK(run[q])'
  <2>1. PICK z \in Run : z = run[q] /\ z = run'[q]
    BY DEF TypeOK
  <2>2. RunOK(z)'
    BY <2>1, QuietKeeps DEF Parts, RunInv
  <2> QED
    BY <2>1, <2>2
<1>3. ASSUME NEW v \in Users, v # u PROVE DeletionOK(v, deletion[v])'
  <2>1. PICK z : z = deletion[v] /\ z = deletion'[v]
    BY <1>3
  <2>2. DeletionOK(v, z)'
    BY <2>1, QuietKeeps DEF Parts, DeletionInv
  <2> QED
    BY <2>1, <2>2
<1> QED
  BY <1>1, <1>2, <1>3 DEF Parts, AwardInv, RunInv, DeletionInv

(* An entry changes the account it is about, and no other.                 *)
LEMMA BookingIsLocal ==
  ASSUME TypeOK, NEW u \in Users, NEW d \in Days, NEW n, NEW k, NEW c,
         Booking(u, d, n, k, c)
  PROVE  \A v \in Users \ {u} : user'[v] = user[v] /\ row'[v] = row[v]
  BY DEF Booking, TypeOK

LEMMA AwardPartsStep ==
  ASSUME TypeOK, TypeOK', Parts, NEW p \in Posts, AwardStep(p)
  PROVE  Parts'
<1>0. /\ today \in Nat /\ today >= 1 /\ award[p] \in Award
      /\ AwardOK(award[p])
  BY DaysAreNatural DEF TypeOK, Days, Parts, AwardInv
<1>1. ASSUME NEW u \in Users, CreatePost(p, u) PROVE Parts'
  <2>1. PICK y : y = [NoAward EXCEPT !.pc = "created", !.u = u, !.d = today]
    OBVIOUS
  <2>2. y.pc = "created" /\ y.u = u /\ y.d = today
    BY <2>1 DEF NoAward
  <2>3. AwardOK(y)'
    BY <1>0, <1>1, <2>2 DEF AwardOK, CreatePost
  <2>4. Quiet
    BY <1>0, <1>1 DEF CreatePost, Quiet
  <2>5. award' = [award EXCEPT ![p] = y] /\ run' = run /\ deletion' = deletion
    BY <1>1, <2>1 DEF CreatePost
  <2> QED
    BY <2>3, <2>4, <2>5, AwardMoves
<1>2. ASSUME CountPost(p) PROVE Parts'
  <2>1. award[p].u \in Users
    BY <1>2, AwardFields DEF CountPost, Parts
  <2>2. PICK a \in [Posts -> Award] : a = [award EXCEPT ![p].pc = "counted"]
    BY DEF TypeOK, Award
  <2>3. \A q \in Posts : AwardOK(a[q])
    BY <1>0, <1>2, <2>2 DEF Parts, AwardInv, AwardOK, CountPost, TypeOK
  <2>4. /\ \A s \in Servers : RunOK(run[s])
        /\ \A v \in Users : DeletionOK(v, deletion[v])
        /\ run \in [Servers -> Run] /\ deletion \in [Users -> Deletion]
    BY DEF Parts, RunInv, DeletionInv, TypeOK
  <2> QED
    BY <1>2, <2>1, <2>2, <2>3, <2>4, WrittenKeeps DEF CountPost, Parts
<1>3. ASSUME OpenAward(p) PROVE Parts'
  <2>1. PICK a \in Award : a = award[p]
    BY <1>0
  <2>2. PICK k \in {"done", "open"} :
          k = IF HasRow(a.u, a.d) \/ ~Active(a.u) THEN "done" ELSE "open"
    OBVIOUS
  <2>3. PICK y \in Award : y = [a EXCEPT !.pc = k, !.stale = FALSE]
    BY DEF Award
  <2>4. /\ y.pc = k /\ y.u = a.u /\ y.d = a.d /\ a.pc = "counted"
    BY <1>3, <2>1, <2>3 DEF Award, OpenAward
  <2>5. AwardOK(y)
    BY <1>0, <2>1, <2>2, <2>4 DEF AwardOK
  <2>6. Quiet
    BY <1>0, <1>3 DEF OpenAward, Quiet
  <2>7. AwardOK(y)'
    BY <2>5, <2>6, QuietKeeps
  <2>8. award' = [award EXCEPT ![p] = y]
    BY <1>3, <2>1, <2>2, <2>3 DEF OpenAward, TypeOK
  <2>9. run' = run /\ deletion' = deletion
    BY <1>3 DEF OpenAward
  <2> QED
    BY <2>6, <2>7, <2>8, <2>9, AwardMoves
<1>4. ASSUME CommitAward(p) PROVE Parts'
  <2>1. PICK u \in Users, d \in Days, n \in Nat :
          /\ award[p].pc = "open"
          /\ Booking(u, d, n, "posted", 1)
          /\ Written(u, [award EXCEPT ![p].pc = "done"], run, deletion)
    BY <1>4, CommitAwardEffect DEF Parts
  <2>2. PICK a \in [Posts -> Award] : a = [award EXCEPT ![p].pc = "done"]
    BY DEF TypeOK, Award
  <2>3. \A q \in Posts : AwardOK(a[q])
    BY <1>0, <2>1, <2>2 DEF Parts, AwardInv, AwardOK, TypeOK
  <2>4. /\ \A s \in Servers : RunOK(run[s])
        /\ \A v \in Users : DeletionOK(v, deletion[v])
        /\ run \in [Servers -> Run] /\ deletion \in [Users -> Deletion]
    BY DEF Parts, RunInv, DeletionInv, TypeOK
  <2>5. /\ \A v \in Users \ {u} : user'[v] = user[v] /\ row'[v] = row[v]
        /\ today' = today
    BY <2>1, BookingIsLocal DEF Booking
  <2> QED
    BY <2>1, <2>2, <2>3, <2>4, <2>5, WrittenKeeps DEF Parts
<1>5. ASSUME ConflictAward(p) \/ FailAward(p) PROVE Parts'
  <2>1. PICK a \in Award : a = award[p]
    BY <1>0
  <2>2. PICK k \in {"done", "counted"} :
          /\ award' = [award EXCEPT ![p].pc = k, ![p].stale = FALSE]
          /\ a.pc # "idle"
          /\ UNCHANGED <<user, row, today, run, deletion>>
    BY <1>5, <2>1 DEF ConflictAward, FailAward
  <2>3. PICK y \in Award : y = [a EXCEPT !.pc = k, !.stale = FALSE]
    BY DEF Award
  <2>4. y.pc = k /\ y.u = a.u /\ y.d = a.d
    BY <2>3 DEF Award
  <2>5. AwardOK(y)
    BY <1>0, <2>1, <2>2, <2>4 DEF AwardOK
  <2>6. Quiet
    BY <1>0, <2>2 DEF Quiet
  <2>7. AwardOK(y)'
    BY <2>5, <2>6, QuietKeeps
  <2>8. award' = [award EXCEPT ![p] = y]
    BY <2>1, <2>2, <2>3 DEF TypeOK
  <2> QED
    BY <2>2, <2>6, <2>7, <2>8, AwardMoves
<1> QED
  BY <1>1, <1>2, <1>3, <1>4, <1>5 DEF AwardStep

LEMMA RunPartsStep ==
  ASSUME TypeOK, TypeOK', Parts, NEW s \in Servers, RunStep(s)
  PROVE  Parts'
<1>0. /\ today \in Nat /\ today >= 1 /\ today \in Days
      /\ RunOK(run[s]) /\ run[s].todo \subseteq Users
      /\ AwardInv /\ RunInv /\ DeletionInv
  BY DaysAreNatural DEF TypeOK, Days, Parts, RunInv, Run
<1>1. PICK r \in Run : r = run[s]
  BY DEF TypeOK
<1>2. RunOK(r)
  BY <1>0, <1>1
<1>3. ASSUME Quiet, award' = award, deletion' = deletion, NEW y,
             run' = [run EXCEPT ![s] = y], RunOK(y)
      PROVE  Parts'
  <2>1. run'[s] = y /\ \A q \in Servers \ {s} : run'[q] = run[q]
    BY <1>3 DEF TypeOK
  <2>2. PICK z \in Run : z = y
    BY <2>1 DEF TypeOK
  <2>3. RunOK(z)'
    BY <1>3, <2>2, QuietKeeps
  <2>4. RunOK(run[s])'
    BY <2>1, <2>2, <2>3
  <2> QED
    BY <1>3, <2>1, <2>4, RunMoves
<1>4. ASSUME Quiet, award' = award, deletion' = deletion, NEW u \in Users,
             run' = NextUser(s, u), r.pc # "idle"
      PROVE  Parts'
  <2>1. \A q \in Servers : RunOK(NextUser(s, u)[q])
    BY <1>0, <1>1, <1>4, NextUserKeeps
  <2>2. PICK y : y = NextUser(s, u)[s]
    OBVIOUS
  <2>3. run' = [run EXCEPT ![s] = y]
    BY <1>4, <2>2 DEF NextUser, TypeOK
  <2>4. RunOK(y)
    BY <2>1, <2>2
  <2> QED
    BY <1>3, <1>4, <2>3, <2>4
<1>5. ASSUME StartRun(s) PROVE Parts'
  <2>1. Quiet /\ award' = award /\ deletion' = deletion
    BY <1>0, <1>5 DEF StartRun, Quiet
  <2>2. CASE r.pc = "idle"
    <3>1. PICK y : y = [NoRun EXCEPT !.pc = "page", !.date = today - 1,
                                     !.fired = today]
      OBVIOUS
    <3>2. y.pc = "page" /\ y.date = today - 1 /\ y.todo = {}
      BY <3>1 DEF NoRun
    <3>3. RunOK(y)
      BY <1>0, <1>5, <3>2 DEF RunOK, StartRun
    <3>4. run' = [run EXCEPT ![s] = y]
      BY <1>1, <1>5, <2>2, <3>1 DEF StartRun
    <3> QED
      BY <1>3, <2>1, <3>3, <3>4
  <2>3. CASE r.pc # "idle"
    <3>1. PICK y : y = [r EXCEPT !.fired = today]
      OBVIOUS
    <3>2. /\ y.pc = r.pc /\ y.date = r.date /\ y.todo = r.todo /\ y.u = r.u
          /\ y.stale = r.stale /\ y.seen = r.seen
      BY <3>1 DEF Run
    <3>3. RunOK(y)
      BY <1>2, <3>2 DEF RunOK
    <3>4. run' = [run EXCEPT ![s] = y]
      BY <1>1, <1>5, <2>3, <3>1 DEF StartRun, TypeOK
    <3> QED
      BY <1>3, <2>1, <3>3, <3>4
  <2> QED
    BY <2>2, <2>3
<1>6. ASSUME EndRun(s) PROVE Parts'
  <2>1. Quiet /\ award' = award /\ deletion' = deletion
    BY <1>0, <1>6 DEF EndRun, Quiet
  <2>2. PICK y : y = [r EXCEPT !.pc = "idle"]
    OBVIOUS
  <2>3. y.pc = "idle" /\ y.date = r.date
    BY <2>2 DEF Run
  <2>4. RunOK(y)
    BY <1>2, <2>3 DEF RunOK
  <2>5. run' = [run EXCEPT ![s] = y]
    BY <1>1, <1>6, <2>2 DEF EndRun, TypeOK
  <2> QED
    BY <1>3, <2>1, <2>4, <2>5
<1>7. ASSUME NEW u \in Users, ReadPage(s, u) PROVE Parts'
  <2>1. Quiet /\ award' = award /\ deletion' = deletion
    BY <1>0, <1>7 DEF ReadPage, Quiet
  <2>2. PICK y : y = [r EXCEPT !.pc = "users", !.cursor = u,
                               !.todo = Least(Batch, Candidates(s))]
    OBVIOUS
  <2>3. y.pc = "users" /\ y.date = r.date
    BY <2>2 DEF Run
  <2>4. RunOK(y)
    BY <1>1, <1>2, <1>7, <2>3 DEF RunOK, ReadPage
  <2>5. run' = [run EXCEPT ![s] = y]
    BY <1>1, <1>7, <2>2 DEF ReadPage, TypeOK
  <2> QED
    BY <1>3, <2>1, <2>4, <2>5
<1>8. ASSUME NEW u \in Users, SkipUser(s, u) PROVE Parts'
  <2>1. Quiet /\ award' = award /\ deletion' = deletion
    BY <1>0, <1>8 DEF SkipUser, Quiet
  <2> QED
    BY <1>1, <1>4, <1>8, <2>1 DEF SkipUser, Turn
<1>9. ASSUME NEW u \in Users, OpenDecay(s, u) PROVE Parts'
  <2>1. Quiet /\ award' = award /\ deletion' = deletion
    BY <1>0, <1>9 DEF OpenDecay, Quiet
  <2>2. PICK y : y = [r EXCEPT !.pc = "open", !.u = u,
                               !.seen = user[u].streak, !.stale = FALSE]
    OBVIOUS
  <2>3. /\ y.pc = "open" /\ y.date = r.date /\ y.todo = r.todo /\ y.u = u
        /\ y.seen = user[u].streak
    BY <2>2 DEF Run
  <2>4. /\ r.pc = "users" /\ u \in r.todo
        /\ ~HasRow(u, r.date) /\ Active(u) /\ user[u].streak > 0
    BY <1>1, <1>9 DEF OpenDecay, Turn
  <2>5. RunOK(y)
    BY <1>2, <2>3, <2>4 DEF RunOK
  <2>6. run' = [run EXCEPT ![s] = y]
    BY <1>1, <1>9, <2>2 DEF OpenDecay, TypeOK
  <2> QED
    BY <1>3, <2>1, <2>5, <2>6
<1>10. ASSUME CommitDecay(s) PROVE Parts'
  <2>1. PICK u \in Users, d \in Days, n \in Nat, c \in Int :
          /\ run[s].pc = "open"
          /\ Booking(u, d, n, "missed", c)
          /\ Written(u, award, NextUser(s, u), deletion)
    BY <1>0, <1>10, CommitDecayEffect
  <2>2. PICK y \in [Servers -> Run] : y = NextUser(s, u)
    BY NextUserType
  <2>3. \A q \in Servers : RunOK(y[q])
    BY <1>0, <2>1, <2>2, NextUserKeeps
  <2>4. /\ \A p \in Posts : AwardOK(award[p])
        /\ \A v \in Users : DeletionOK(v, deletion[v])
        /\ award \in [Posts -> Award] /\ deletion \in [Users -> Deletion]
    BY DEF Parts, AwardInv, DeletionInv, TypeOK
  <2>5. /\ \A v \in Users \ {u} : user'[v] = user[v] /\ row'[v] = row[v]
        /\ today' = today
    BY <2>1, BookingIsLocal DEF Booking
  <2> QED
    BY <2>1, <2>2, <2>3, <2>4, <2>5, WrittenKeeps DEF Parts
<1>11. ASSUME ConflictDecay(s) PROVE Parts'
  <2>1. Quiet /\ award' = award /\ deletion' = deletion
    BY <1>0, <1>11 DEF ConflictDecay, Quiet
  <2>2. PICK y : y = [r EXCEPT !.pc = "users", !.u = NoUser, !.seen = 0,
                               !.stale = FALSE]
    OBVIOUS
  <2>3. y.pc = "users" /\ y.date = r.date /\ r.pc = "open"
    BY <1>1, <1>11, <2>2 DEF Run, ConflictDecay
  <2>4. RunOK(y)
    BY <1>2, <2>3 DEF RunOK
  <2>5. run' = [run EXCEPT ![s] = y]
    BY <1>1, <1>11, <2>2 DEF ConflictDecay, TypeOK
  <2> QED
    BY <1>3, <2>1, <2>4, <2>5
<1>12. ASSUME FailDecay(s) PROVE Parts'
  <2>1. Quiet /\ award' = award /\ deletion' = deletion
    BY <1>0, <1>12 DEF FailDecay, Quiet
  <2>2. PICK u \in Users : u = run[s].u
    BY <1>0, <1>12, RunFields DEF FailDecay
  <2> QED
    BY <1>1, <1>4, <1>12, <2>1, <2>2 DEF FailDecay
<1>13. ASSUME FailRun(s) PROVE Parts'
  <2>1. Quiet /\ award' = award /\ deletion' = deletion
    BY <1>0, <1>13 DEF FailRun, Quiet
  <2>2. PICK y : y = [NoRun EXCEPT !.fired = run[s].fired]
    OBVIOUS
  <2>3. y.pc = "idle" /\ y.date = 0
    BY <2>2 DEF NoRun
  <2>4. RunOK(y)
    BY <1>0, <2>3 DEF RunOK
  <2>5. run' = [run EXCEPT ![s] = y]
    BY <1>13, <2>2 DEF FailRun
  <2> QED
    BY <1>3, <2>1, <2>4, <2>5
<1> QED
  BY <1>5, <1>6, <1>7, <1>8, <1>9, <1>10, <1>11, <1>12, <1>13 DEF RunStep

LEMMA AccountPartsStep ==
  ASSUME TypeOK, TypeOK', Parts, NEW u \in Users, AccountStep(u)
  PROVE  Parts'
<1>0. /\ today \in Nat
      /\ \A p \in Posts : AwardOK(award[p])
      /\ \A s \in Servers : RunOK(run[s])
      /\ \A v \in Users : DeletionOK(v, deletion[v])
      /\ award \in [Posts -> Award] /\ run \in [Servers -> Run]
      /\ deletion \in [Users -> Deletion]
  BY DaysAreNatural DEF TypeOK, Parts, AwardInv, RunInv, DeletionInv
<1>1. ASSUME OpenDeletion(u) PROVE Parts'
  <2>1. Quiet /\ award' = award /\ run' = run
    BY <1>0, <1>1 DEF OpenDeletion, Quiet
  <2>2. PICK y : y = [pc |-> "open", days |-> {d \in Days : HasRow(u, d)},
                      stale |-> FALSE]
    OBVIOUS
  <2>3. DeletionOK(u, y)
    BY <1>1, <2>2 DEF DeletionOK, OpenDeletion
  <2>4. deletion'[u] = y /\ \A v \in Users \ {u} : deletion'[v] = deletion[v]
    BY <1>0, <1>1, <2>2 DEF OpenDeletion
  <2>5. DeletionOK(u, y)'
    BY <2>1, <2>3, QuietKeeps
  <2>6. DeletionOK(u, deletion[u])'
    BY <2>4, <2>5
  <2> QED
    BY <2>1, <2>4, <2>6, DeletionMoves
<1>2. ASSUME CommitDeletion(u) PROVE Parts'
  <2>1. PICK x \in [Users -> Deletion] : x = [deletion EXCEPT ![u] = NoDeletion]
    BY <1>0 DEF NoDeletion, Deletion
  <2>2. \A v \in Users : DeletionOK(v, x[v])
    BY <1>0, <2>1 DEF DeletionOK, NoDeletion
  <2>3. /\ \A v \in Users \ {u} : user'[v] = user[v] /\ row'[v] = row[v]
        /\ today' = today
    BY <1>2 DEF CommitDeletion, TypeOK
  <2>4. Written(u, award, run, x)
    BY <1>2, <2>1 DEF CommitDeletion
  <2> QED
    BY <1>0, <2>2, <2>3, <2>4, WrittenKeeps DEF Parts
<1>3. ASSUME AbortDeletion(u) PROVE Parts'
  <2>1. Quiet /\ award' = award /\ run' = run
    BY <1>0, <1>3 DEF AbortDeletion, Quiet
  <2>2. /\ deletion'[u] = NoDeletion
        /\ \A v \in Users \ {u} : deletion'[v] = deletion[v]
    BY <1>0, <1>3 DEF AbortDeletion
  <2>3. DeletionOK(u, deletion[u])'
    BY <2>2 DEF DeletionOK, NoDeletion
  <2> QED
    BY <2>1, <2>2, <2>3, DeletionMoves
<1>4. ASSUME SetStatus(u) PROVE Parts'
  <2>1. /\ \A v \in Users \ {u} : user'[v] = user[v] /\ row'[v] = row[v]
        /\ today' = today
    BY <1>4 DEF SetStatus, TypeOK
  <2>2. Written(u, award, run, deletion)
    BY <1>4 DEF SetStatus
  <2> QED
    BY <1>0, <2>1, <2>2, WrittenKeeps DEF Parts
<1> QED
  BY <1>1, <1>2, <1>3, <1>4 DEF AccountStep

LEMMA MidnightPartsStep ==
  ASSUME TypeOK, TypeOK', Parts, Midnight
  PROVE  Parts'
<1>1. Quiet
  BY DaysAreNatural DEF Midnight, Quiet, TypeOK
<1>2. ASSUME NEW p \in Posts PROVE AwardOK(award[p])'
  <2>1. PICK z : z = award[p] /\ z = award'[p]
    BY DEF Midnight
  <2>2. AwardOK(z)'
    BY <1>1, <2>1, QuietKeeps DEF Parts, AwardInv
  <2> QED
    BY <2>1, <2>2
<1>3. ASSUME NEW q \in Servers PROVE RunOK(run[q])'
  <2>1. PICK z \in Run : z = run[q] /\ z = run'[q]
    BY DEF TypeOK, Midnight
  <2>2. RunOK(z)'
    BY <1>1, <2>1, QuietKeeps DEF Parts, RunInv
  <2> QED
    BY <2>1, <2>2
<1>4. ASSUME NEW v \in Users PROVE DeletionOK(v, deletion[v])'
  <2>1. PICK z : z = deletion[v] /\ z = deletion'[v]
    BY DEF Midnight
  <2>2. DeletionOK(v, z)'
    BY <1>1, <2>1, QuietKeeps DEF Parts, DeletionInv
  <2> QED
    BY <2>1, <2>2
<1> QED
  BY <1>2, <1>3, <1>4 DEF Parts, AwardInv, RunInv, DeletionInv

(* Every step.                                                             *)
LEMMA PartsStep ==
  ASSUME TypeOK, TypeOK', Parts, Next
  PROVE  Parts'
  BY AwardPartsStep, RunPartsStep, AccountPartsStep, MidnightPartsStep
  DEF Next

-----------------------------------------------------------------------------
(* The book                                                                *)

(* What an account and its rows keep.                                      *)
AccountOK(u) ==
  /\ \A d \in Days :
       /\ row[u][d].kind = "none" => row[u][d] = B!Blank
       /\ row[u][d].kind = "posted" => d <= today
       /\ row[u][d].kind = "missed" => d < today
  /\ user[u].life # "deleted" =>
       IF latest[u] = 0 THEN user[u].streak = start[u]
       ELSE /\ HasRow(u, latest[u])
            /\ row[u][latest[u]].count = user[u].streak
  /\ user[u].life = "deleted" => row[u] = B!BlankPage

Accounts == \A u \in Users : AccountOK(u)

LEMMA AccountsAre ==
  Accounts <=> RowInv /\ LatestRowIsCount /\ NoHistoryOfDeleted
  BY DEF Accounts, AccountOK, RowInv, LatestRowIsCount, NoHistoryOfDeleted

(* The step kinds there are: an entry, a deletion, a status, or neither    *)
(* accounts nor rows.                                                      *)
Closing(u) ==
  /\ Active(u)
  /\ user' = [user EXCEPT ![u].life = "deleted"]
  /\ row' = [row EXCEPT ![u] = B!BlankPage]
  /\ UNCHANGED <<latest, start, today>>

Judging(u) ==
  /\ user[u].life # "deleted"
  /\ \E k \in {"active", "suspended"} : user' = [user EXCEPT ![u].life = k]
  /\ UNCHANGED <<row, latest, start, today>>

Still == Quiet /\ UNCHANGED <<latest, start>>

StepKind ==
  \/ \E u \in Users, d \in Days, n \in Nat :
       d <= today /\ Booking(u, d, n, "posted", 1)
  \/ \E u \in Users, d \in Days, n \in Nat, c \in Int :
       /\ d < today /\ user[u].streak > 0
       /\ c = -B!Decrement(user[u].streak)
       /\ Booking(u, d, n, "missed", c)
  \/ \E u \in Users : Closing(u) \/ Judging(u)
  \/ Still

LEMMA DeletionCloses ==
  ASSUME TypeOK, Parts, Accounts, NEW u \in Users, CommitDeletion(u)
  PROVE  Closing(u)
<1>1. DeletionOK(u, deletion[u])
  BY DEF Parts, DeletionInv
<1>2. Active(u) /\ deletion[u].days = {d \in Days : HasRow(u, d)}
  BY <1>1 DEF DeletionOK, CommitDeletion
<1>3. ASSUME NEW d \in Days
      PROVE  (IF d \in deletion[u].days THEN B!Blank ELSE row[u][d]) = B!Blank
  BY <1>2 DEF Accounts, AccountOK, HasRow
<1>4. [d \in Days |-> IF d \in deletion[u].days THEN B!Blank ELSE row[u][d]]
        = B!BlankPage
  BY <1>3 DEF B!BlankPage
<1> QED
  BY <1>2, <1>4 DEF Closing, CommitDeletion

LEMMA StepKinds ==
  ASSUME TypeOK, Parts, Accounts, Next
  PROVE  StepKind
<1>0. today \in Nat /\ AwardInv /\ RunInv
  BY DaysAreNatural DEF TypeOK, Parts
<1>1. ASSUME NEW p \in Posts, AwardStep(p) PROVE StepKind
  <2>1. CASE CommitAward(p)
    <3>1. PICK u \in Users, d \in Days, n \in Nat :
            d <= today /\ Booking(u, d, n, "posted", 1)
      BY <1>0, <2>1, CommitAwardEffect
    <3> QED
      BY <3>1 DEF StepKind
  <2>2. ASSUME NEW u \in Users, CreatePost(p, u) PROVE Still
    BY <1>0, <2>2 DEF CreatePost, Still, Quiet
  <2>3. CASE CountPost(p) \/ OpenAward(p) \/ ConflictAward(p) \/ FailAward(p)
    <3>1. Still
      BY <1>0, <2>3 DEF CountPost, OpenAward, ConflictAward, FailAward, Still,
                        Quiet
    <3> QED
      BY <3>1 DEF StepKind
  <2> QED
    BY <1>1, <2>1, <2>2, <2>3 DEF AwardStep, StepKind
<1>2. ASSUME NEW s \in Servers, RunStep(s) PROVE StepKind
  <2>1. CASE CommitDecay(s)
    <3>1. PICK u \in Users, d \in Days, n \in Nat, c \in Int :
            /\ d < today /\ user[u].streak > 0
            /\ c = -B!Decrement(user[u].streak)
            /\ Booking(u, d, n, "missed", c)
      BY <1>0, <2>1, CommitDecayEffect
    <3> QED
      BY <3>1 DEF StepKind
  <2>2. ASSUME NEW u \in Users,
               ReadPage(s, u) \/ SkipUser(s, u) \/ OpenDecay(s, u)
        PROVE  Still
    BY <1>0, <2>2 DEF ReadPage, SkipUser, OpenDecay, Still, Quiet
  <2>3. CASE \/ StartRun(s) \/ EndRun(s)
             \/ ConflictDecay(s) \/ FailDecay(s) \/ FailRun(s)
    <3>1. Still
      BY <1>0, <2>3 DEF StartRun, EndRun, ConflictDecay, FailDecay, FailRun,
                        Still, Quiet
    <3> QED
      BY <3>1 DEF StepKind
  <2> QED
    BY <1>2, <2>1, <2>2, <2>3 DEF RunStep, StepKind
<1>3. ASSUME NEW u \in Users, AccountStep(u) PROVE StepKind
  <2>1. CASE CommitDeletion(u)
    BY <2>1, DeletionCloses DEF StepKind
  <2>2. CASE OpenDeletion(u) \/ AbortDeletion(u)
    <3>1. Still
      BY <1>0, <2>2 DEF OpenDeletion, AbortDeletion, Still, Quiet
    <3> QED
      BY <3>1 DEF StepKind
  <2>3. CASE SetStatus(u)
    <3>1. Judging(u)
      BY <2>3 DEF SetStatus, Judging
    <3> QED
      BY <3>1 DEF StepKind
  <2> QED
    BY <1>3, <2>1, <2>2, <2>3 DEF AccountStep
<1>4. CASE Midnight
  <2>1. Still
    BY <1>0, <1>4 DEF Midnight, Still, Quiet
  <2> QED
    BY <2>1 DEF StepKind
<1> QED
  BY <1>1, <1>2, <1>3, <1>4 DEF Next

(* An entry keeps the book in order.                                       *)
LEMMA BookingKeepsAccounts ==
  ASSUME TypeOK, Accounts, NEW u \in Users, NEW d \in Days, NEW n \in Nat,
         NEW k \in {"posted", "missed"}, NEW c \in Int, Booking(u, d, n, k, c),
         d <= today, k = "missed" => d < today
  PROVE  Accounts'
<1>1. ASSUME NEW v \in Users, v # u PROVE AccountOK(v)'
  <2>1. user'[v] = user[v] /\ row'[v] = row[v] /\ latest'[v] = latest[v]
          /\ today' = today /\ start' = start
    BY <1>1 DEF Booking, TypeOK
  <2>2. AccountOK(v)
    BY DEF Accounts
  <2> QED
    BY <2>1, <2>2 DEF AccountOK, HasRow
<1>2. AccountOK(u)'
  <2>1. /\ user'[u].streak = n /\ user'[u].life = user[u].life
        /\ row'[u][d] = [kind |-> k, change |-> c, count |-> n]
        /\ \A e \in Days \ {d} : row'[u][e] = row[u][e]
        /\ latest'[u] = d /\ today' = today
    BY DEF Booking, TypeOK, UserDoc
  <2>2. user[u].life = "active" /\ d # 0
    BY DaysAreNatural DEF Booking, Active, Days
  <2>3. AccountOK(u)
    BY DEF Accounts
  <2>4. \A e \in Days :
          /\ row'[u][e].kind = "none" => row'[u][e] = B!Blank
          /\ row'[u][e].kind = "posted" => e <= today
          /\ row'[u][e].kind = "missed" => e < today
    <3> TAKE e \in Days
    <3>1. CASE e = d
      BY <2>1, <3>1
    <3>2. CASE e # d
      BY <2>1, <2>3, <3>2 DEF AccountOK
    <3> QED
      BY <3>1, <3>2
  <2>5. /\ row'[u][latest'[u]].kind # "none"
        /\ row'[u][latest'[u]].count = user'[u].streak
    BY <2>1
  <2> QED
    BY <2>1, <2>2, <2>4, <2>5 DEF AccountOK, HasRow
<1> QED
  BY <1>1, <1>2 DEF Accounts

LEMMA AccountsStep ==
  ASSUME TypeOK, TypeOK', Accounts, StepKind
  PROVE  Accounts'
<1>0. today \in Nat /\ today' \in Nat
  BY DaysAreNatural DEF TypeOK
<1>1. ASSUME NEW u \in Users, NEW d \in Days, NEW n \in Nat,
             d <= today, Booking(u, d, n, "posted", 1)
      PROVE  Accounts'
  BY <1>1, BookingKeepsAccounts
<1>2. ASSUME NEW u \in Users, NEW d \in Days, NEW n \in Nat, NEW c \in Int,
             d < today, Booking(u, d, n, "missed", c)
      PROVE  Accounts'
  <2>1. d <= today
    BY <1>0, <1>2, DaysAreNatural
  <2> QED
    BY <1>2, <2>1, BookingKeepsAccounts
<1>3. ASSUME NEW u \in Users, Closing(u) PROVE Accounts'
  <2>1. ASSUME NEW v \in Users, v # u PROVE AccountOK(v)'
    <3>1. user'[v] = user[v] /\ row'[v] = row[v] /\ latest' = latest
            /\ today' = today /\ start' = start
      BY <1>3, <2>1 DEF Closing, TypeOK
    <3>2. AccountOK(v)
      BY DEF Accounts
    <3> QED
      BY <3>1, <3>2 DEF AccountOK, HasRow
  <2>2. AccountOK(u)'
    <3>1. user'[u].life = "deleted" /\ row'[u] = B!BlankPage
      BY <1>3 DEF Closing, TypeOK, UserDoc
    <3>2. \A d \in Days : row'[u][d] = B!Blank
      BY <3>1 DEF B!BlankPage
    <3>3. B!Blank.kind = "none"
      BY DEF B!Blank
    <3> QED
      BY <3>1, <3>2, <3>3 DEF AccountOK
  <2> QED
    BY <2>1, <2>2 DEF Accounts
<1>4. ASSUME NEW u \in Users, Judging(u) PROVE Accounts'
  <2>1. ASSUME NEW v \in Users PROVE AccountOK(v)'
    <3>1. /\ user'[v].streak = user[v].streak
          /\ user'[v].life = "deleted" <=> user[v].life = "deleted"
      BY <1>4 DEF Judging, TypeOK, UserDoc
    <3>2. AccountOK(v)
      BY DEF Accounts
    <3>3. row' = row /\ latest' = latest /\ today' = today /\ start' = start
      BY <1>4 DEF Judging
    <3> QED
      BY <3>1, <3>2, <3>3 DEF AccountOK, HasRow
  <2> QED
    BY <2>1 DEF Accounts
<1>5. ASSUME Still PROVE Accounts'
  <2>1. ASSUME NEW v \in Users PROVE AccountOK(v)'
    <3>1. AccountOK(v)
      BY DEF Accounts
    <3>2. /\ row' = row /\ user' = user /\ latest' = latest /\ start' = start
          /\ today <= today'
      BY <1>5 DEF Still, Quiet
    <3>3. \A d \in Days : /\ d <= today => d <= today'
                         /\ d < today => d < today'
      BY <1>0, <3>2, DaysAreNatural
    <3>4. \A d \in Days :
            /\ row'[v][d].kind = "none" => row'[v][d] = B!Blank
            /\ row'[v][d].kind = "posted" => d <= today'
            /\ row'[v][d].kind = "missed" => d < today'
      <4> TAKE d \in Days
      <4>1. row'[v][d] = row[v][d]
        BY <3>2
      <4>2. /\ row[v][d].kind = "none" => row[v][d] = B!Blank
            /\ row[v][d].kind = "posted" => d <= today
            /\ row[v][d].kind = "missed" => d < today
        BY <3>1 DEF AccountOK
      <4> QED
        BY <1>0, <3>2, <3>3, <4>1, <4>2, DaysAreNatural
    <3>5. /\ user'[v].life # "deleted" =>
               IF latest'[v] = 0 THEN user'[v].streak = start'[v]
               ELSE /\ row'[v][latest'[v]].kind # "none"
                    /\ row'[v][latest'[v]].count = user'[v].streak
          /\ user'[v].life = "deleted" => row'[v] = B!BlankPage
      BY <3>1, <3>2 DEF AccountOK, HasRow
    <3> QED
      BY <3>4, <3>5 DEF AccountOK, HasRow
  <2> QED
    BY <2>1 DEF Accounts
<1> QED
  BY <1>1, <1>2, <1>3, <1>4, <1>5 DEF StepKind

-----------------------------------------------------------------------------
(* The decay run passes over nobody                                        *)

(* A row stays, until its account is deleted.                              *)
Lasting ==
  \A u \in Users :
    /\ user[u].life = "deleted" => user'[u].life = "deleted"
    /\ \A d \in Days :
         HasRow(u, d) => row'[u][d].kind # "none" \/ user'[u].life = "deleted"

LEMMA RowsLast ==
  ASSUME TypeOK, StepKind
  PROVE  Lasting
<1>1. ASSUME NEW u \in Users, NEW d \in Days, NEW n \in Nat,
             NEW k \in {"posted", "missed"}, NEW c \in Int,
             Booking(u, d, n, k, c)
      PROVE  Lasting
  <2> SUFFICES ASSUME NEW v \in Users
               PROVE  /\ user[v].life = "deleted" => user'[v].life = "deleted"
                      /\ \A e \in Days : HasRow(v, e) => row'[v][e].kind # "none"
    BY DEF Lasting
  <2>1. user'[v].life = user[v].life
    BY <1>1 DEF Booking, TypeOK, UserDoc
  <2>2. \A e \in Days : row'[v][e] = row[v][e] \/ row'[v][e].kind = k
    BY <1>1 DEF Booking, TypeOK
  <2> QED
    BY <2>1, <2>2 DEF HasRow
<1>2. ASSUME NEW u \in Users, Closing(u) PROVE Lasting
  BY <1>2 DEF Closing, Lasting, HasRow, TypeOK, UserDoc
<1>3. ASSUME NEW u \in Users, Judging(u) PROVE Lasting
  BY <1>3 DEF Judging, Lasting, HasRow, TypeOK, UserDoc
<1>4. ASSUME Still PROVE Lasting
  BY <1>4 DEF Still, Quiet, Lasting, HasRow
<1>5. 1 \in Int
  OBVIOUS
<1> QED
  BY <1>1, <1>2, <1>3, <1>4, <1>5 DEF StepKind

(* A run that goes on: whoever it passes newly has a row, is excused, or   *)
(* is deleted.                                                             *)
LEMMA CoverGrows ==
  ASSUME TypeOK, TypeOK', Lasting, NEW s \in Servers, Covered(s),
         run'[s].date = run[s].date,
         excused[s] \subseteq excused'[s],
         \A u \in Users :
           (run'[s].pc = "idle" \/ (u <= run'[s].cursor /\ u \notin run'[s].todo))
             => \/ Passed(s, u)
                \/ u \in excused'[s]
                \/ /\ run[s].date \in Days
                   /\ row'[u][run[s].date].kind # "none"
                \/ user'[u].life = "deleted"
  PROVE  Covered(s)'
<1>1. run[s].date \in 0..MaxDay
  BY DEF TypeOK, Run
<1>2. PICK d \in 0..MaxDay : d = run[s].date /\ d = run'[s].date
  BY <1>1
<1>3. d # 0 => d \in Days
  BY DaysAreNatural DEF Days
<1>4. SUFFICES ASSUME d # 0, NEW u \in Users, Passed(s, u)'
               PROVE  \/ row'[u][d].kind # "none"
                      \/ u \in excused'[s]
                      \/ user'[u].life = "deleted"
  BY <1>2 DEF Covered, HasRow
<1>5. CASE Passed(s, u)
  <2>1. HasRow(u, d) \/ u \in excused[s] \/ user[u].life = "deleted"
    BY <1>2, <1>4, <1>5 DEF Covered
  <2> QED
    BY <1>3, <1>4, <2>1 DEF Lasting
<1>6. CASE ~Passed(s, u)
  BY <1>2, <1>4, <1>6 DEF Passed
<1> QED
  BY <1>5, <1>6

(* A run that stays where it is.                                           *)
LEMMA CoverStays ==
  ASSUME TypeOK, TypeOK', Lasting, NEW s \in Servers, Covered(s),
         run'[s].date = run[s].date, run'[s].cursor = run[s].cursor,
         run'[s].todo = run[s].todo,
         run'[s].pc = "idle" => run[s].pc = "idle",
         excused'[s] = excused[s]
  PROVE  Covered(s)'
  BY CoverGrows DEF Passed

(* The runs after a step that writes an account: a run is as it was to be, *)
(* but for stale.                                                          *)
LEMMA CoverWritten ==
  ASSUME TypeOK, TypeOK', Lasting, NEW s \in Servers, Covered(s),
         NEW u \in Users, NEW a \in [Posts -> Award],
         NEW r \in [Servers -> Run], NEW x \in [Users -> Deletion],
         Written(u, a, r, x), r[s] = run[s], excused' = excused
  PROVE  Covered(s)'
<1>1. PICK y \in Run : y = run[s]
  BY DEF TypeOK
<1>2. run'[s] = IF y.pc = "open" /\ y.u = u
                THEN [y EXCEPT !.stale = TRUE] ELSE y
  BY SMTT(30), <1>1, WrittenEffect
<1>3. /\ run'[s].pc = y.pc /\ run'[s].date = y.date /\ run'[s].todo = y.todo
      /\ run'[s].cursor = y.cursor
  BY <1>2 DEF Run
<1> QED
  BY <1>1, <1>3, CoverStays

(* The server that is through with u goes on, and u has its row or is      *)
(* excused.                                                                *)
LEMMA NextUserFields ==
  ASSUME TypeOK, NEW s \in Servers, NEW u \in Users
  PROVE  /\ NextUser(s, u)[s].date = run[s].date
         /\ NextUser(s, u)[s].cursor = run[s].cursor
         /\ NextUser(s, u)[s].todo = run[s].todo \ {u}
         /\ NextUser(s, u)[s].pc \in {"page", "users"}
         /\ \A q \in Servers \ {s} : NextUser(s, u)[q] = run[q]
<1>1. PICK r \in Run : r = run[s]
  BY DEF TypeOK
<1>2. NextUser(s, u)[s] =
        [r EXCEPT !.pc = IF r.todo \ {u} = {} THEN "page" ELSE "users",
                  !.todo = r.todo \ {u}, !.u = NoUser, !.seen = 0,
                  !.stale = FALSE]
  BY <1>1 DEF NextUser, TypeOK
<1>3. \A q \in Servers \ {s} : NextUser(s, u)[q] = run[q]
  BY DEF NextUser, TypeOK
<1> QED
  BY <1>1, <1>2, <1>3 DEF Run

LEMMA CoverNextUser ==
  ASSUME TypeOK, TypeOK', Lasting, NEW s \in Servers, Covered(s),
         NEW u \in Users,
         run'[s].date = run[s].date, run'[s].cursor = run[s].cursor,
         run'[s].todo = run[s].todo \ {u}, run'[s].pc # "idle",
         excused[s] \subseteq excused'[s],
         \/ u \in excused'[s]
         \/ run[s].date \in Days /\ row'[u][run[s].date].kind # "none"
  PROVE  Covered(s)'
<1>1. ASSUME NEW v \in Users, v <= run'[s].cursor, v \notin run'[s].todo
      PROVE  \/ Passed(s, v)
             \/ v \in excused'[s]
             \/ run[s].date \in Days /\ row'[v][run[s].date].kind # "none"
  <2>1. CASE v = u
    BY <2>1
  <2>2. CASE v # u
    BY <1>1, <2>2 DEF Passed
  <2> QED
    BY <2>1, <2>2
<1> QED
  BY <1>1, CoverGrows

(* The page read takes every candidate up to its last one.                 *)
LEMMA CoverReadPage ==
  ASSUME TypeOK, TypeOK', Lasting, RunInv, NEW s \in Servers, Covered(s),
         NEW u \in Users, ReadPage(s, u)
  PROVE  Covered(s)'
<1> DEFINE page == Least(Batch, Candidates(s))
<1>1. PICK r \in Run : r = run[s]
  BY DEF TypeOK
<1>2. r.pc = "page" /\ r.todo = {}
  BY <1>1 DEF ReadPage, RunInv, RunOK
<1>3. /\ run'[s].pc = "users" /\ run'[s].date = run[s].date
      /\ run'[s].cursor = u /\ run'[s].todo = page
  <2>1. run'[s] = [r EXCEPT !.pc = "users", !.todo = page, !.cursor = u]
    BY <1>1 DEF ReadPage, TypeOK
  <2> QED
    BY <1>1, <2>1 DEF Run
<1>4. excused'[s] = excused[s] \cup {v \in Rest(s) \ Candidates(s) : v <= u}
  BY DEF ReadPage, TypeOK
<1>5. u \in page
  BY DEF ReadPage
<1>6. ASSUME NEW v \in Users, v <= u, v \notin page
      PROVE  Passed(s, v) \/ v \in excused'[s]
  <2>1. CASE v <= r.cursor
    BY <1>1, <1>2, <2>1 DEF Passed
  <2>2. CASE ~(v <= r.cursor)
    <3>1. v \in Nat /\ r.cursor \in Nat
      <4>1. r.cursor \in Users \cup {NoUser}
        BY DEF Run
      <4> QED
        BY <4>1, NoUserIsNobody
    <3>2. v \in Rest(s)
      BY <1>1, <2>2, <3>1 DEF Rest
    <3>3. Candidates(s) \in SUBSET Users /\ Batch \in Nat
      BY ConstantsAssumption DEF Candidates, Rest
    <3>4. v \notin Candidates(s)
      BY <1>5, <1>6, <3>3, LeastIsLower
    <3> QED
      BY <1>4, <1>6, <3>2, <3>4
  <2> QED
    BY <2>1, <2>2
<1>7. excused[s] \subseteq excused'[s]
  BY <1>4
<1>8. \A v \in Users :
        (run'[s].pc = "idle" \/ (v <= run'[s].cursor /\ v \notin run'[s].todo))
          => Passed(s, v) \/ v \in excused'[s]
  BY <1>3, <1>6
<1> QED
  BY <1>3, <1>7, <1>8, CoverGrows

(* When no candidate is left, the rest had nothing to lose.                *)
LEMMA CoverEndRun ==
  ASSUME TypeOK, TypeOK', Lasting, RunInv, NEW s \in Servers, Covered(s),
         EndRun(s)
  PROVE  Covered(s)'
<1>1. PICK r \in Run : r = run[s]
  BY DEF TypeOK
<1>2. r.pc = "page" /\ r.todo = {}
  BY <1>1 DEF EndRun, RunInv, RunOK
<1>3. run'[s].date = run[s].date /\ excused'[s] = excused[s] \cup Rest(s)
  BY DEF EndRun, TypeOK, Run
<1>4. ASSUME NEW v \in Users PROVE Passed(s, v) \/ v \in excused'[s]
  <2>1. v \in Nat /\ r.cursor \in Nat
    <3>1. r.cursor \in Users \cup {NoUser}
      BY DEF Run
    <3> QED
      BY <3>1, NoUserIsNobody
  <2> QED
    BY <1>1, <1>2, <1>3, <2>1 DEF Passed, Rest
<1> QED
  BY <1>3, <1>4, CoverGrows

LEMMA CoverRunStep ==
  ASSUME TypeOK, TypeOK', Parts, Lasting, NobodySkipped,
         NEW s \in Servers, RunStep(s)
  PROVE  NobodySkipped'
<1>0. Covered(s) /\ RunInv /\ (\A q \in Servers : Covered(q))
  BY DEF NobodySkipped, Parts
<1>1. CASE CommitDecay(s)
  <2>1. PICK u \in Users, d \in Days, n \in Nat, c \in Int :
          /\ run[s].pc = "open"
          /\ u = run[s].u /\ d = run[s].date
          /\ Booking(u, d, n, "missed", c)
          /\ Written(u, award, NextUser(s, u), deletion)
    BY <1>0, <1>1, CommitDecayEffect
  <2>2. PICK r \in [Servers -> Run] : r = NextUser(s, u)
    BY NextUserType
  <2>3. /\ award \in [Posts -> Award] /\ deletion \in [Users -> Deletion]
        /\ excused' = excused /\ Written(u, award, r, deletion)
    BY <2>1, <2>2 DEF TypeOK, Booking
  <2>4. ASSUME NEW q \in Servers, q # s PROVE Covered(q)'
    <3>1. r[q] = run[q]
      BY <2>2, <2>4, NextUserFields
    <3> QED
      BY <1>0, <2>3, <3>1, CoverWritten
  <2>5. Covered(s)'
    <3>1. PICK y \in Run : y = r[s]
      OBVIOUS
    <3>2. run'[s] = IF y.pc = "open" /\ y.u = u
                    THEN [y EXCEPT !.stale = TRUE] ELSE y
      BY SMTT(30), <2>3, <3>1, WrittenEffect
    <3>3. /\ run'[s].pc = y.pc /\ run'[s].date = y.date
          /\ run'[s].todo = y.todo /\ run'[s].cursor = y.cursor
      BY <3>2 DEF Run
    <3>4. /\ y.date = run[s].date /\ y.cursor = run[s].cursor
          /\ y.todo = run[s].todo \ {u} /\ y.pc # "idle"
      BY <2>2, <3>1, NextUserFields
    <3>5. row'[u][d].kind # "none"
      BY <2>1 DEF Booking, TypeOK
    <3> QED
      BY <1>0, <2>1, <2>3, <3>3, <3>4, <3>5, CoverNextUser
  <2> QED
    BY <2>4, <2>5 DEF NobodySkipped
<1>2. ASSUME ~CommitDecay(s), NEW q \in Servers, q # s PROVE Covered(q)'
  <2>1. run'[q] = run[q] /\ excused'[q] = excused[q]
    <3>1. CASE StartRun(s)
      BY <1>2, <3>1 DEF StartRun, TypeOK
    <3>2. CASE EndRun(s)
      BY <1>2, <3>2 DEF EndRun, TypeOK
    <3>3. ASSUME NEW u \in Users, ReadPage(s, u)
          PROVE  run'[q] = run[q] /\ excused'[q] = excused[q]
      BY <1>2, <3>3 DEF ReadPage, TypeOK
    <3>4. ASSUME NEW u \in Users, SkipUser(s, u)
          PROVE  run'[q] = run[q] /\ excused'[q] = excused[q]
      BY <1>2, <3>4, NextUserFields DEF SkipUser, TypeOK
    <3>5. ASSUME NEW u \in Users, OpenDecay(s, u)
          PROVE  run'[q] = run[q] /\ excused'[q] = excused[q]
      BY <1>2, <3>5 DEF OpenDecay, TypeOK
    <3>6. CASE ConflictDecay(s)
      BY <1>2, <3>6 DEF ConflictDecay, TypeOK
    <3>7. CASE FailDecay(s)
      BY <1>0, <1>2, <3>7, RunFields, NextUserFields DEF FailDecay, TypeOK
    <3>8. CASE FailRun(s)
      BY <1>2, <3>8 DEF FailRun, TypeOK
    <3> QED
      BY <1>2, <3>1, <3>2, <3>3, <3>4, <3>5, <3>6, <3>7, <3>8 DEF RunStep
  <2> QED
    BY <1>0, <2>1, CoverStays
<1>3. ASSUME ~CommitDecay(s) PROVE Covered(s)'
  <2>0. PICK r \in Run : r = run[s]
    BY DEF TypeOK
  <2>1. CASE StartRun(s)
    <3>1. CASE r.pc = "idle"
      <4>1. run'[s] = [NoRun EXCEPT !.pc = "page", !.date = today - 1,
                                    !.fired = today]
        BY <2>0, <2>1, <3>1 DEF StartRun, TypeOK
      <4>2. run'[s].pc = "page" /\ run'[s].cursor = NoUser
        BY <4>1 DEF NoRun
      <4>3. ASSUME NEW v \in Users PROVE ~(v <= NoUser)
        <5>1. v \in Nat /\ v # 0
          BY ConstantsAssumption
        <5> QED
          BY <5>1 DEF NoUser
      <4> QED
        BY <4>2, <4>3 DEF Covered, Passed
    <3>2. CASE r.pc # "idle"
      <4>1. run'[s] = [r EXCEPT !.fired = today] /\ excused' = excused
        BY <2>0, <2>1, <3>2 DEF StartRun, TypeOK
      <4>2. /\ run'[s].pc = r.pc /\ run'[s].date = r.date
            /\ run'[s].cursor = r.cursor /\ run'[s].todo = r.todo
        BY <4>1 DEF Run
      <4> QED
        BY <1>0, <2>0, <4>1, <4>2, CoverStays
    <3> QED
      BY <3>1, <3>2
  <2>2. CASE EndRun(s)
    BY <1>0, <2>2, CoverEndRun
  <2>3. ASSUME NEW u \in Users, ReadPage(s, u) PROVE Covered(s)'
    BY <1>0, <2>3, CoverReadPage
  <2>4. ASSUME NEW u \in Users, SkipUser(s, u) PROVE Covered(s)'
    <3>1. run' = NextUser(s, u)
      BY <2>4 DEF SkipUser
    <3>2. /\ run'[s].date = run[s].date /\ run'[s].cursor = run[s].cursor
          /\ run'[s].todo = run[s].todo \ {u} /\ run'[s].pc # "idle"
      BY <3>1, NextUserFields
    <3>3. excused[s] \subseteq excused'[s]
      BY <2>4 DEF SkipUser, TypeOK
    <3>4. \/ u \in excused'[s]
          \/ run[s].date \in Days /\ row'[u][run[s].date].kind # "none"
      <4>1. CASE HasRow(u, run[s].date)
        <5>1. run[s].date \in Days
          BY <1>0, <2>4, RunFields DEF SkipUser, Turn
        <5> QED
          BY <2>4, <4>1, <5>1 DEF SkipUser, HasRow
      <4>2. CASE ~HasRow(u, run[s].date)
        BY <2>4, <4>2 DEF SkipUser, TypeOK
      <4> QED
        BY <4>1, <4>2
    <3> QED
      BY <1>0, <3>2, <3>3, <3>4, CoverNextUser
  <2>5. ASSUME NEW u \in Users, OpenDecay(s, u) PROVE Covered(s)'
    <3>1. /\ run'[s] = [r EXCEPT !.pc = "open", !.u = u,
                                 !.seen = user[u].streak, !.stale = FALSE]
          /\ excused' = excused
      BY <2>0, <2>5 DEF OpenDecay, TypeOK
    <3>2. /\ run'[s].pc = "open" /\ run'[s].date = r.date
          /\ run'[s].cursor = r.cursor /\ run'[s].todo = r.todo
      BY <3>1 DEF Run
    <3> QED
      BY <1>0, <2>0, <3>1, <3>2, CoverStays
  <2>6. CASE ConflictDecay(s)
    <3>1. /\ run'[s] = [r EXCEPT !.pc = "users", !.u = NoUser, !.seen = 0,
                                 !.stale = FALSE]
          /\ excused' = excused
      BY <2>0, <2>6 DEF ConflictDecay, TypeOK
    <3>2. /\ run'[s].pc = "users" /\ run'[s].date = r.date
          /\ run'[s].cursor = r.cursor /\ run'[s].todo = r.todo
      BY <3>1 DEF Run
    <3> QED
      BY <1>0, <2>0, <3>1, <3>2, CoverStays
  <2>7. CASE FailDecay(s)
    <3>1. PICK u \in Users : u = run[s].u
      BY <1>0, <2>7, RunFields DEF FailDecay
    <3>2. run' = NextUser(s, u) /\ u \in excused'[s]
            /\ excused[s] \subseteq excused'[s]
      BY <2>7, <3>1 DEF FailDecay, TypeOK
    <3>3. /\ run'[s].date = run[s].date /\ run'[s].cursor = run[s].cursor
          /\ run'[s].todo = run[s].todo \ {u} /\ run'[s].pc # "idle"
      BY <3>2, NextUserFields
    <3> QED
      BY <1>0, <3>2, <3>3, CoverNextUser
  <2>8. CASE FailRun(s)
    <3>1. run'[s].date = 0
      BY <2>8 DEF FailRun, TypeOK, NoRun
    <3> QED
      BY <3>1 DEF Covered
  <2> QED
    BY <1>3, <2>1, <2>2, <2>3, <2>4, <2>5, <2>6, <2>7, <2>8 DEF RunStep
<1> QED
  BY <1>1, <1>2, <1>3 DEF NobodySkipped

(* A step that writes account u and leaves the runs as they are.           *)
LEMMA CoverWrittenAll ==
  ASSUME TypeOK, TypeOK', Lasting, NobodySkipped,
         NEW u \in Users, NEW a \in [Posts -> Award],
         NEW x \in [Users -> Deletion], Written(u, a, run, x),
         excused' = excused
  PROVE  NobodySkipped'
<1>1. run \in [Servers -> Run]
  BY DEF TypeOK
<1> QED
  BY <1>1, CoverWritten DEF NobodySkipped

LEMMA CoverStep ==
  ASSUME TypeOK, TypeOK', Parts, Lasting, NobodySkipped, Next
  PROVE  NobodySkipped'
<1>0. \A q \in Servers : Covered(q)
  BY DEF NobodySkipped
<1>1. ASSUME run' = run, excused' = excused PROVE NobodySkipped'
  BY <1>0, <1>1, CoverStays DEF NobodySkipped
<1>2. ASSUME NEW p \in Posts, AwardStep(p) PROVE NobodySkipped'
  <2>1. CASE CommitAward(p)
    <3>1. PICK u \in Users, d \in Days, n \in Nat :
            /\ Booking(u, d, n, "posted", 1)
            /\ Written(u, [award EXCEPT ![p].pc = "done"], run, deletion)
      BY <2>1, CommitAwardEffect DEF Parts
    <3>2. /\ [award EXCEPT ![p].pc = "done"] \in [Posts -> Award]
          /\ deletion \in [Users -> Deletion]
      BY DEF TypeOK, Award
    <3> QED
      BY <3>1, <3>2, CoverWrittenAll DEF Booking
  <2>2. CASE CountPost(p)
    <3>1. award[p].u \in Users
      BY <2>2, AwardFields DEF CountPost, Parts
    <3>2. /\ [award EXCEPT ![p].pc = "counted"] \in [Posts -> Award]
          /\ deletion \in [Users -> Deletion]
      BY DEF TypeOK, Award
    <3> QED
      BY <2>2, <3>1, <3>2, CoverWrittenAll DEF CountPost
  <2>3. CASE ~CommitAward(p) /\ ~CountPost(p)
    BY <1>1, <1>2, <2>3
    DEF AwardStep, CreatePost, OpenAward, ConflictAward, FailAward
  <2> QED
    BY <2>1, <2>2, <2>3
<1>3. ASSUME NEW u \in Users, AccountStep(u) PROVE NobodySkipped'
  <2>1. CASE CommitDeletion(u)
    <3>1. /\ [deletion EXCEPT ![u] = NoDeletion] \in [Users -> Deletion]
          /\ award \in [Posts -> Award]
      BY DEF TypeOK, Deletion, NoDeletion
    <3> QED
      BY <2>1, <3>1, CoverWrittenAll DEF CommitDeletion
  <2>2. CASE SetStatus(u)
    <3>1. deletion \in [Users -> Deletion] /\ award \in [Posts -> Award]
      BY DEF TypeOK
    <3> QED
      BY <2>2, <3>1, CoverWrittenAll DEF SetStatus
  <2>3. CASE OpenDeletion(u) \/ AbortDeletion(u)
    BY <1>1, <2>3 DEF OpenDeletion, AbortDeletion
  <2> QED
    BY <1>3, <2>1, <2>2, <2>3 DEF AccountStep
<1>4. CASE Midnight
  BY <1>1, <1>4 DEF Midnight
<1> QED
  BY <1>2, <1>3, <1>4, CoverRunStep DEF Next

-----------------------------------------------------------------------------
(* The invariant                                                           *)

LEMMA StreakInvParts ==
  StreakInv <=> TypeOK /\ Parts /\ Accounts /\ NobodySkipped
  BY AccountsAre DEF StreakInv, Parts

LEMMA StreakInit == Init => StreakInv
<1> SUFFICES ASSUME Init PROVE StreakInv
  OBVIOUS
<1>1. B!Blank \in Row /\ B!Blank.kind = "none"
  BY DEF B!Blank, Row
<1>2. TypeOK
  <2>1. user \in [Users -> UserDoc] /\ start \in [Users -> Nat]
    BY ConstantsAssumption DEF Init, UserDoc
  <2>2. row \in [Users -> [Days -> Row]]
    BY <1>1 DEF Init, B!BlankPage
  <2>3. today \in Days /\ latest \in [Users -> 0..MaxDay]
    BY DaysAreNatural DEF Init, Days
  <2>4. NoDeletion \in Deletion
    BY DEF NoDeletion, Deletion
  <2>5. /\ award \in [Posts -> Award] /\ run \in [Servers -> Run]
        /\ deletion \in [Users -> Deletion]
        /\ excused \in [Servers -> SUBSET Users]
    BY <2>4, BlankTypes DEF Init
  <2> QED
    BY <2>1, <2>2, <2>3, <2>5 DEF TypeOK
<1>3. Parts
  <2>1. AwardInv
    BY DEF Init, AwardInv, AwardOK, NoAward
  <2>2. RunInv
    BY DEF Init, RunInv, RunOK, NoRun
  <2>3. DeletionInv
    BY DEF Init, DeletionInv, DeletionOK, NoDeletion
  <2> QED
    BY <2>1, <2>2, <2>3 DEF Parts
<1>4. Accounts
  <2> SUFFICES ASSUME NEW u \in Users PROVE AccountOK(u)
    BY DEF Accounts
  <2>1. \A d \in Days : row[u][d] = B!Blank
    BY DEF Init, B!BlankPage
  <2>2. user[u].life = "active" /\ user[u].streak = start[u] /\ latest[u] = 0
    BY DEF Init
  <2> QED
    BY <1>1, <2>1, <2>2 DEF AccountOK
<1>5. NobodySkipped
  BY DEF Init, NobodySkipped, Covered, NoRun
<1> QED
  BY <1>2, <1>3, <1>4, <1>5, StreakInvParts

LEMMA StreakStep == StreakInv /\ [Next]_vars => StreakInv'
<1> SUFFICES ASSUME StreakInv, [Next]_vars PROVE StreakInv'
  OBVIOUS
<1>1. TypeOK /\ Parts /\ Accounts /\ NobodySkipped
  BY StreakInvParts
<1>2. CASE Next
  <2>1. TypeOK'
    BY <1>1, <1>2, TypeStep DEF Parts
  <2>2. Parts'
    BY <1>1, <1>2, <2>1, PartsStep
  <2>3. StepKind
    BY <1>1, <1>2, StepKinds
  <2>4. Accounts'
    BY <1>1, <2>1, <2>3, AccountsStep
  <2>5. NobodySkipped'
    BY <1>1, <1>2, <2>1, <2>3, RowsLast, CoverStep
  <2>6. RowInv' /\ LatestRowIsCount' /\ NoHistoryOfDeleted'
    BY <2>4 DEF Accounts, AccountOK, RowInv, LatestRowIsCount,
                NoHistoryOfDeleted, HasRow
  <2> QED
    BY <2>1, <2>2, <2>5, <2>6 DEF StreakInv, Parts
<1>3. CASE UNCHANGED vars
  BY <1>3 DEF vars, StreakInv, TypeOK, AwardInv, AwardOK, RunInv, RunOK,
     DeletionInv, DeletionOK, RowInv, LatestRowIsCount, NoHistoryOfDeleted,
     NobodySkipped, Covered, Passed, Active, HasRow
<1> QED
  BY <1>2, <1>3

(* A transaction that is not stale still sees the account and its rows as  *)
(* they are, and with it all that follows.                                 *)
THEOREM StreakCorrect == Spec => []StreakInv
<1> QED
  BY StreakInit, StreakStep, PTL DEF Spec

(* The variables keep their types: no count becomes negative.              *)
THEOREM StreakTypes == Spec => []TypeOK
<1>1. StreakInv => TypeOK
  BY DEF StreakInv
<1> QED
  BY <1>1, StreakCorrect, PTL

(* currentStreakCount of the row committed last is the count there is.     *)
THEOREM LatestRowIsCountCorrect == Spec => []LatestRowIsCount
<1>1. StreakInv => LatestRowIsCount
  BY DEF StreakInv
<1> QED
  BY <1>1, StreakCorrect, PTL

(* Deletion takes the whole history with it.                               *)
THEOREM NoHistoryOfDeletedCorrect == Spec => []NoHistoryOfDeleted
<1>1. StreakInv => NoHistoryOfDeleted
  BY DEF StreakInv
<1> QED
  BY <1>1, StreakCorrect, PTL

(* The pages of a decay run pass over nobody.                              *)
THEOREM NobodySkippedCorrect == Spec => []NobodySkipped
<1>1. StreakInv => NobodySkipped
  BY DEF StreakInv
<1> QED
  BY <1>1, StreakCorrect, PTL

-----------------------------------------------------------------------------
(* The history explains the count                                          *)

(* A set of numbers up to N with 0 in it, and with the successor of each   *)
(* but the last, is all of them: the step up is an injection that misses 0.*)
LEMMA BoundedInduction ==
  ASSUME NEW N \in Nat, NEW T \in SUBSET (0..N), 0 \in T,
         \A n \in T : n < N => n + 1 \in T
  PROVE  T = 0..N
<1> SUFFICES ASSUME NEW k \in 0..N, k \notin T PROVE FALSE
  OBVIOUS
<1> DEFINE S == {n \in T : n < k}
           f == [n \in S |-> n + 1]
<1>1. /\ IsFiniteSet(S) /\ IsFiniteSet(S \ {0})
      /\ Cardinality(S \ {0}) = Cardinality(S) - 1 /\ Cardinality(S) \in Nat
  <2>1. IsFiniteSet(0..N)
    BY FS_Interval
  <2>2. S \subseteq 0..N
    OBVIOUS
  <2>3. IsFiniteSet(S)
    BY <2>1, <2>2, FS_Subset
  <2>4. 0 \in S
    OBVIOUS
  <2> QED
    BY <2>3, <2>4, FS_RemoveElement, FS_CardinalityType
<1>2. f \in Injection(S, S \ {0})
  <2>1. ASSUME NEW n \in S PROVE n + 1 \in S \ {0}
    <3>1. n \in 0..N /\ n \in T /\ n < k
      OBVIOUS
    <3>2. n + 1 \in T
      BY <3>1
    <3>3. n + 1 # k
      BY <3>2
    <3> QED
      BY <3>1, <3>2, <3>3
  <2>2. f \in [S -> S \ {0}]
    BY <2>1
  <2>3. ASSUME NEW m \in S, NEW n \in S, f[m] = f[n] PROVE m = n
    <3>1. f[m] = m + 1 /\ f[n] = n + 1 /\ m \in 0..N /\ n \in 0..N
      OBVIOUS
    <3> QED
      BY <3>1, <2>3
  <2> QED
    BY <2>2, <2>3 DEF Injection, IsInjective
<1>3. Cardinality(S) <= Cardinality(S \ {0})
  BY <1>1, <1>2, FS_Injection
<1> QED
  BY <1>1, <1>3

(* The sums of the changes of a page up to a day.                          *)
SumsTo(page, g) ==
  g = [d \in 0..MaxDay |-> IF d = 0 THEN 0 ELSE g[d - 1] + page[d].change]

LEMMA PointsAre ==
  ASSUME NEW page, NEW g, SumsTo(page, g)
  PROVE  \E h : SumsTo(page, h) /\ PointsOf(page) = h[MaxDay]
<1> DEFINE h == CHOOSE h : SumsTo(page, h)
<1>1. SumsTo(page, h)
  OBVIOUS
<1>2. PointsOf(page) = h[MaxDay]
  BY DEF PointsOf, SumsTo
<1> QED
  BY <1>1, <1>2

(* There are such sums, and they are numbers.                              *)
LEMMA SumsExist ==
  ASSUME NEW page \in [Days -> Row]
  PROVE  \E g \in [0..MaxDay -> Int] : SumsTo(page, g)
<1> DEFINE Partial(n, g) ==
             /\ g[0] = 0
             /\ \A d \in 1..n : g[d] = g[d - 1] + page[d].change
           T == {n \in 0..MaxDay : \E g \in [0..n -> Int] : Partial(n, g)}
<1>0. MaxDay \in Nat /\ Days = 1..MaxDay
  BY DaysAreNatural DEF Days
<1>1. 0 \in T
  <2>1. PICK g : g = [d \in 0..0 |-> 0]
    OBVIOUS
  <2>2. g \in [0..0 -> Int] /\ Partial(0, g)
    BY <2>1
  <2>3. 0 \in 0..MaxDay
    BY <1>0
  <2> QED
    BY <2>2, <2>3
<1>2. ASSUME NEW n \in T, n < MaxDay PROVE n + 1 \in T
  <2>1. n \in Nat /\ n + 1 \in 0..MaxDay /\ n + 1 \in Days
    BY <1>0, <1>2
  <2>2. PICK g \in [0..n -> Int] : Partial(n, g)
    OBVIOUS
  <2>3. PICK c \in Int : c = page[n + 1].change
    BY <2>1 DEF Row
  <2> DEFINE h == [d \in 0..(n + 1) |-> IF d = n + 1 THEN g[n] + c ELSE g[d]]
  <2>4. h \in [0..(n + 1) -> Int]
    BY <2>1
  <2>5. ASSUME NEW d \in 1..(n + 1) PROVE h[d] = h[d - 1] + page[d].change
    <3>1. d \in 0..(n + 1) /\ d - 1 \in 0..n /\ h[d - 1] = g[d - 1]
      BY <2>1
    <3>2. CASE d = n + 1
      BY <2>1, <2>3, <3>1, <3>2
    <3>3. CASE d # n + 1
      <4>1. d \in 1..n /\ h[d] = g[d]
        BY <2>1, <3>1, <3>3
      <4> QED
        BY <2>2, <3>1, <4>1
    <3> QED
      BY <3>2, <3>3
  <2>6. h[0] = 0
    BY <2>1, <2>2
  <2> QED
    BY <2>1, <2>4, <2>5, <2>6
<1> HIDE DEF T
<1>3. T = 0..MaxDay
  <2>1. T \in SUBSET (0..MaxDay)
    BY DEF T
  <2> QED
    BY <1>0, <1>1, <1>2, <2>1, BoundedInduction
<1>4. PICK g \in [0..MaxDay -> Int] : Partial(MaxDay, g)
  <2>1. MaxDay \in T
    BY <1>0, <1>3
  <2> QED
    BY <2>1 DEF T
<1>5. ASSUME NEW d \in 0..MaxDay
      PROVE  g[d] = IF d = 0 THEN 0 ELSE g[d - 1] + page[d].change
  BY <1>0, <1>4
<1> QED
  BY <1>5 DEF SumsTo

(* Two pages that differ in one day differ by it in their sums.            *)
LEMMA SumsDiffer ==
  ASSUME NEW p \in [Days -> Row], NEW q \in [Days -> Row],
         NEW g, SumsTo(p, g), NEW h, SumsTo(q, h),
         NEW e \in Days, \A d \in Days \ {e} : p[d].change = q[d].change
  PROVE  /\ g[MaxDay] \in Int
         /\ h[MaxDay] = g[MaxDay] + (q[e].change - p[e].change)
<1> DEFINE delta == q[e].change - p[e].change
           T == {n \in 0..MaxDay :
                   /\ g[n] \in Int
                   /\ h[n] = IF n < e THEN g[n] ELSE g[n] + delta}
<1>0. MaxDay \in Nat /\ Days = 1..MaxDay /\ e \in Days /\ delta \in Int
  BY DaysAreNatural DEF Days, Row
<1>1. ASSUME NEW d \in 0..MaxDay
      PROVE  /\ g[d] = IF d = 0 THEN 0 ELSE g[d - 1] + p[d].change
             /\ h[d] = IF d = 0 THEN 0 ELSE h[d - 1] + q[d].change
  BY DEF SumsTo
<1>2. 0 \in T
  BY <1>0, <1>1
<1>3. ASSUME NEW n \in T, n < MaxDay PROVE n + 1 \in T
  <2>1. n \in 0..MaxDay /\ n + 1 \in 0..MaxDay /\ n + 1 # 0 /\ n + 1 \in Days
    BY <1>0, <1>3
  <2>2. /\ g[n + 1] = g[n] + p[n + 1].change
        /\ h[n + 1] = h[n] + q[n + 1].change
    BY <1>1, <2>1
  <2>3. p[n + 1].change \in Int /\ q[n + 1].change \in Int
    BY <2>1 DEF Row
  <2>4. g[n] \in Int /\ h[n] = IF n < e THEN g[n] ELSE g[n] + delta
    OBVIOUS
  <2>5. CASE n + 1 < e
    <3>1. p[n + 1].change = q[n + 1].change /\ n < e
      BY <1>0, <2>1, <2>5
    <3> QED
      BY <1>0, <2>1, <2>2, <2>3, <2>4, <2>5, <3>1
  <2>6. CASE n + 1 = e
    BY <1>0, <2>1, <2>2, <2>3, <2>4, <2>6
  <2>7. CASE n + 1 > e
    <3>1. p[n + 1].change = q[n + 1].change /\ ~(n < e)
      BY <1>0, <2>1, <2>7
    <3> QED
      BY <1>0, <2>1, <2>2, <2>3, <2>4, <2>7, <3>1
  <2> QED
    BY <1>0, <2>1, <2>5, <2>6, <2>7
<1> HIDE DEF T
<1>4. T = 0..MaxDay
  <2>1. T \in SUBSET (0..MaxDay)
    BY DEF T
  <2> QED
    BY <1>0, <1>2, <1>3, <2>1, BoundedInduction
<1>5. MaxDay \in T /\ ~(MaxDay < e)
  BY <1>0, <1>4
<1> QED
  BY <1>5 DEF T

(* What a page is worth, after the change of one day.                      *)
LEMMA PointsChange ==
  ASSUME NEW p \in [Days -> Row], NEW q \in [Days -> Row],
         NEW e \in Days, \A d \in Days \ {e} : p[d].change = q[d].change
  PROVE  /\ PointsOf(p) \in Int
         /\ PointsOf(q) = PointsOf(p) + (q[e].change - p[e].change)
<1>1. PICK g : SumsTo(p, g) /\ PointsOf(p) = g[MaxDay]
  BY SumsExist, PointsAre
<1>2. PICK h : SumsTo(q, h) /\ PointsOf(q) = h[MaxDay]
  BY SumsExist, PointsAre
<1> QED
  BY <1>1, <1>2, SumsDiffer

(* An empty page is worth nothing.                                         *)
LEMMA BlankIsWorthNothing ==
  B!BlankPage \in [Days -> Row] /\ PointsOf(B!BlankPage) = 0
<1> DEFINE p == B!BlankPage
<1>0. MaxDay \in Nat /\ Days = 1..MaxDay
  BY DaysAreNatural DEF Days
<1>1. p \in [Days -> Row] /\ \A d \in Days : p[d].change = 0
  BY DEF B!BlankPage, B!Blank, Row
<1>2. PICK g : SumsTo(p, g) /\ PointsOf(p) = g[MaxDay]
  BY <1>1, SumsExist, PointsAre
<1> DEFINE T == {n \in 0..MaxDay : g[n] = 0}
<1>3. ASSUME NEW d \in 0..MaxDay
      PROVE  g[d] = IF d = 0 THEN 0 ELSE g[d - 1] + p[d].change
  BY <1>2 DEF SumsTo
<1>4. 0 \in T
  BY <1>0, <1>3
<1>5. ASSUME NEW n \in T, n < MaxDay PROVE n + 1 \in T
  <2>1. n + 1 \in 0..MaxDay /\ n + 1 # 0 /\ n + 1 \in Days /\ n + 1 - 1 = n
    BY <1>0, <1>5
  <2>2. g[n + 1] = g[n] + p[n + 1].change
    BY <1>3, <2>1
  <2> QED
    BY <1>1, <2>1, <2>2
<1> HIDE DEF T
<1>6. T = 0..MaxDay
  <2>1. T \in SUBSET (0..MaxDay)
    BY DEF T
  <2> QED
    BY <1>0, <1>4, <1>5, <2>1, BoundedInduction
<1>7. MaxDay \in T
  BY <1>0, <1>6
<1> QED
  BY <1>1, <1>2, <1>7 DEF T

(* An entry moves the count and the worth of the page by the same.         *)
LEMMA BookingBalances ==
  ASSUME TypeOK, TypeOK', Accounts, LedgerBalances,
         NEW u \in Users, NEW d \in Days, NEW n \in Nat,
         NEW k \in {"posted", "missed"}, NEW c \in Int, Booking(u, d, n, k, c)
  PROVE  LedgerBalances'
<1>1. ASSUME NEW v \in Users, v # u, user'[v].life # "deleted"
      PROVE  user'[v].streak = start'[v] + PointsOf(row'[v])
  <2>1. user'[v] = user[v] /\ row'[v] = row[v] /\ start' = start
    BY <1>1, BookingIsLocal DEF Booking
  <2> QED
    BY <1>1, <2>1 DEF LedgerBalances, Booked
<1>2. user'[u].streak = start'[u] + PointsOf(row'[u])
  <2>1. /\ user'[u].streak = user[u].streak + c
        /\ row'[u] \in [Days -> Row] /\ row[u] \in [Days -> Row]
        /\ row'[u][d].change = c
        /\ \A e \in Days \ {d} : row'[u][e] = row[u][e]
        /\ start' = start /\ start[u] \in Int
    BY DEF Booking, TypeOK, UserDoc
  <2>2. row[u][d].change = 0
    BY DEF Booking, HasRow, Accounts, AccountOK, B!Blank
  <2>3. /\ PointsOf(row[u]) \in Int
        /\ PointsOf(row'[u])
             = PointsOf(row[u]) + (row'[u][d].change - row[u][d].change)
    BY <2>1, PointsChange
  <2>4. PointsOf(row'[u]) = PointsOf(row[u]) + c
    BY <2>1, <2>2, <2>3
  <2>5. user[u].streak = start[u] + PointsOf(row[u])
    BY DEF LedgerBalances, Booked, Booking, Active
  <2> QED
    BY <2>1, <2>3, <2>4, <2>5
<1> QED
  BY <1>1, <1>2 DEF LedgerBalances, Booked

LEMMA LedgerStep ==
  ASSUME TypeOK, TypeOK', Accounts, LedgerBalances, StepKind
  PROVE  LedgerBalances'
<1>1. ASSUME NEW u \in Users, NEW d \in Days, NEW n \in Nat,
             Booking(u, d, n, "posted", 1)
      PROVE  LedgerBalances'
  BY <1>1, BookingBalances
<1>2. ASSUME NEW u \in Users, NEW d \in Days, NEW n \in Nat, NEW c \in Int,
             Booking(u, d, n, "missed", c)
      PROVE  LedgerBalances'
  BY <1>2, BookingBalances
<1>3. ASSUME NEW u \in Users, Closing(u) \/ Judging(u) PROVE LedgerBalances'
  <2> SUFFICES ASSUME NEW v \in Users, user'[v].life # "deleted"
               PROVE  user'[v].streak = start'[v] + PointsOf(row'[v])
    BY DEF LedgerBalances, Booked
  <2>1. /\ user'[v].streak = user[v].streak /\ user[v].life # "deleted"
        /\ row'[v] = row[v] /\ start' = start
    BY <1>3 DEF Closing, Judging, TypeOK, UserDoc
  <2> QED
    BY <2>1 DEF LedgerBalances, Booked
<1>4. CASE Still
  BY <1>4 DEF Still, Quiet, LedgerBalances, Booked
<1> QED
  BY <1>1, <1>2, <1>3, <1>4 DEF StepKind

LEMMA LedgerInit == Init => LedgerBalances
<1> SUFFICES ASSUME Init, NEW u \in Users
             PROVE  user[u].streak = start[u] + PointsOf(row[u])
  BY DEF LedgerBalances, Booked
<1>1. user[u].streak = start[u] /\ row[u] = B!BlankPage
  BY DEF Init
<1>2. start[u] \in Nat
  BY StreakInit DEF StreakInv, TypeOK
<1> QED
  BY <1>1, <1>2, BlankIsWorthNothing

(* The streak of an account is what it started with and the changes of its *)
(* rows, however posts and the runs of several servers overlap.            *)
THEOREM LedgerBalancesCorrect == Spec => []LedgerBalances
<1>1. StreakInv /\ StreakInv' /\ LedgerBalances /\ [Next]_vars
        => LedgerBalances'
  <2> SUFFICES ASSUME StreakInv, StreakInv', LedgerBalances, [Next]_vars
               PROVE  LedgerBalances'
    OBVIOUS
  <2>1. CASE Next
    <3>1. TypeOK /\ TypeOK' /\ Parts /\ Accounts
      BY StreakInvParts DEF StreakInv
    <3>2. StepKind
      BY <2>1, <3>1, StepKinds
    <3> QED
      BY <3>1, <3>2, LedgerStep
  <2>2. CASE UNCHANGED vars
    BY <2>2 DEF vars, LedgerBalances, Booked
  <2> QED
    BY <2>1, <2>2
<1> QED
  BY <1>1, LedgerInit, StreakCorrect, PTL DEF Spec

-----------------------------------------------------------------------------
(* The service implements the daily book                                   *)

LEMMA BookInitially == Init => B!BookInit
<1> SUFFICES ASSUME Init PROVE B!BookInit
  OBVIOUS
<1>1. [u \in Users |-> user[u].life] = [u \in Users |-> "active"]
  BY DEF Init
<1>2. [u \in Users |-> user[u].streak] \in [Users -> Nat]
  BY ConstantsAssumption DEF Init
<1> QED
  BY <1>1, <1>2 DEF Init, B!BookInit

(* An entry of the detailed specification is one of the book.              *)
LEMMA BookingEnters ==
  ASSUME TypeOK, Accounts, NEW u \in Users, NEW d \in Days, NEW n \in Nat,
         NEW k \in {"posted", "missed"}, NEW c \in Int, Booking(u, d, n, k, c)
  PROVE  B!Enter(u, d, k, c)
<1> DEFINE life == [v \in Users |-> user[v].life]
           streak == [v \in Users |-> user[v].streak]
<1>1. life[u] = "active" /\ streak[u] = user[u].streak
  BY DEF Booking, Active
<1>2. row[u][d] = B!Blank
  BY DEF Booking, HasRow, Accounts, AccountOK
<1>3. \A v \in Users : /\ user'[v].life = user[v].life
                       /\ user'[v].streak =
                            IF v = u THEN user[u].streak + c ELSE user[v].streak
  BY DEF Booking, TypeOK, UserDoc
<1>4. [v \in Users |-> user'[v].life] = life
  BY <1>3
<1>5. [v \in Users |-> user'[v].streak] = [streak EXCEPT ![u] = @ + c]
  BY <1>3
<1>6. row' = [row EXCEPT ![u][d] = [kind |-> k, change |-> c,
                                    count |-> streak[u] + c]]
  BY <1>1 DEF Booking
<1> QED
  BY <1>1, <1>2, <1>4, <1>5, <1>6 DEF B!Enter

LEMMA BookStep == StreakInv /\ [Next]_vars => [B!BookNext]_(B!bookVars)
<1> SUFFICES ASSUME StreakInv, [Next]_vars PROVE [B!BookNext]_(B!bookVars)
  OBVIOUS
<1> DEFINE life == [v \in Users |-> user[v].life]
           streak == [v \in Users |-> user[v].streak]
<1>0. TypeOK /\ Parts /\ Accounts
  BY StreakInvParts
<1>1. ASSUME NEW u \in Users, NEW d \in Days, NEW n \in Nat,
             Booking(u, d, n, "posted", 1)
      PROVE  B!BookNext
  BY <1>0, <1>1, BookingEnters DEF B!BookNext, B!Earn
<1>2. ASSUME NEW u \in Users, NEW d \in Days, NEW n \in Nat, NEW c \in Int,
             user[u].streak > 0, c = -B!Decrement(user[u].streak),
             Booking(u, d, n, "missed", c)
      PROVE  B!BookNext
  <2>1. B!Enter(u, d, "missed", c)
    BY <1>0, <1>2, BookingEnters
  <2>2. streak[u] = user[u].streak
    OBVIOUS
  <2>3. streak[u] > 0 /\ c = -B!Decrement(streak[u])
    BY <1>2, <2>2
  <2>4. B!Lose(u, d)
    BY <2>1, <2>3 DEF B!Lose, B!Enter
  <2> QED
    BY <2>4 DEF B!BookNext
<1>3. ASSUME NEW u \in Users, Closing(u) PROVE B!BookNext
  <2>1. \A v \in Users : /\ user'[v].streak = user[v].streak
                         /\ user'[v].life = IF v = u THEN "deleted"
                                            ELSE user[v].life
    BY <1>0, <1>3 DEF Closing, TypeOK, UserDoc
  <2>2. /\ [v \in Users |-> user'[v].streak] = streak
        /\ [v \in Users |-> user'[v].life] = [life EXCEPT ![u] = "deleted"]
        /\ life[u] = "active"
    BY <1>3, <2>1 DEF Closing, Active
  <2>3. B!Close(u)
    BY <1>3, <2>2 DEF B!Close, Closing
  <2> QED
    BY <2>3 DEF B!BookNext
<1>4. ASSUME NEW u \in Users, Judging(u) PROVE B!BookNext
  <2>1. PICK k \in {"active", "suspended"} : user' = [user EXCEPT ![u].life = k]
    BY <1>4 DEF Judging
  <2>2. \A v \in Users : /\ user'[v].streak = user[v].streak
                         /\ user'[v].life = IF v = u THEN k ELSE user[v].life
    BY <1>0, <2>1 DEF TypeOK, UserDoc
  <2>3. /\ [v \in Users |-> user'[v].streak] = streak
        /\ [v \in Users |-> user'[v].life] = [life EXCEPT ![u] = k]
        /\ life[u] # "deleted"
    BY <1>4, <2>2 DEF Judging
  <2>4. B!Judge(u)
    BY <1>4, <2>3 DEF B!Judge, Judging
  <2> QED
    BY <2>4 DEF B!BookNext
<1>5. ASSUME user' = user, row' = row PROVE UNCHANGED B!bookVars
  BY <1>5 DEF B!bookVars
<1>6. CASE Next
  <2>1. StepKind
    BY <1>0, <1>6, StepKinds
  <2> QED
    BY <2>1, <1>1, <1>2, <1>3, <1>4, <1>5 DEF StepKind, Still, Quiet
<1>7. CASE UNCHANGED vars
  BY <1>5, <1>7 DEF vars
<1> QED
  BY <1>6, <1>7

(* The service implements the daily book: the count of an account moves    *)
(* only with the one entry of a day that had none, by the points it names. *)
THEOREM KeepsTheBookCorrect == Spec => KeepsTheBook
<1> QED
  BY BookInitially, BookStep, StreakCorrect, PTL
  DEF Spec, KeepsTheBook, B!BookSpec
=============================================================================
