------------------------- MODULE ReportSubmission_proofs -------------------------
(***************************************************************************)
(* Proofs about ReportSubmission, for all accounts, addresses, targets,    *)
(* requests and policies.                                                  *)
(***************************************************************************)
EXTENDS ReportSubmission, FiniteSetTheorems, TLAPS

-----------------------------------------------------------------------------
(* Types                                                                   *)

LEMMA Dividing ==
  ASSUME NEW n \in Nat, NEW w \in Nat \ {0}
  PROVE  n \div w \in Nat
  OBVIOUS

LEMMA StartCountingType ==
  ASSUME TypeOK, NEW r \in Call, NEW kind \in Kinds
  PROVE  StartCounting(r, kind) \in Call
<1>1. now \div Window \in Nat
  BY Dividing, TimeAssumption DEF TypeOK, Times
<1> QED
  BY <1>1 DEF StartCounting, Call, Dims, Buckets

LEMMA PassedType ==
  ASSUME NEW r \in Call
  PROVE  Passed(r) \in Call
<1>1. AfterCounting[r.kind] \in {"acquire", "check", "upload"}
  BY DEF AfterCounting, Call, Kinds
<1> QED
  BY ZenonT(40), <1>1 DEF Passed, Call, Dims

LEMMA KeyType ==
  ASSUME NEW r \in Call, CallOK(r), r.pc \in Counting
  PROVE  /\ Key(r) \in Keys
         /\ Key(r)[1] = r.kind /\ Key(r)[2] = r.dim /\ Key(r)[4] = r.bucket
<1>1. /\ r.kind \in Kinds /\ r.dim \in Dims /\ r.bucket \in Buckets
      /\ r.u \in Users /\ (r.dim = "address" => r.ip \in Addresses)
  BY DEF CallOK, Call, Counting, HasAddress
<1>2. PICK w \in Users \cup Addresses :
        w = IF r.dim = "address" THEN r.ip ELSE r.u
  BY <1>1
<1>3. Key(r) = <<r.kind, r.dim, w, r.bucket>>
  BY <1>2 DEF Key
<1> QED
  BY <1>1, <1>2, <1>3 DEF Keys

LEMMA LimitType ==
  ASSUME NEW k \in Keys
  PROVE  Limit(k) \in Nat \ {0}
<1>1. k[1] \in Kinds /\ k[2] \in Dims
  BY DEF Keys
<1> QED
  BY <1>1, PolicyAssumption DEF Limit, Dims

(* A counter after it counted once more.                                   *)
LEMMA IncrementedType ==
  ASSUME TypeOK, NEW c \in Calls, call[c].pc \in Counting, CallOK(call[c])
  PROVE  /\ Found(Key(call[c])) \in Counter
         /\ Incremented(call[c]) \in Counter
<1> DEFINE r == call[c]
<1>1. r \in Call /\ r.t \in Targets \cup Descriptions
  BY DEF TypeOK, CallOK, Counting
<1>2. NoCounter \in Counter
  BY DEF NoCounter, Counter
<1>3. Found(Key(r)) \in Counter
  BY <1>2 DEF Found, Exists, TypeOK
<1>4. PICK old \in Counter : old = Found(Key(r))
  BY <1>3
<1>5. PICK T \in SUBSET (Targets \cup Descriptions) :
        T = IF r.dim = "target" THEN old.targets \cup {r.t} ELSE old.targets
  BY <1>1, <1>4 DEF Counter
<1>6. Incremented(r) = [old EXCEPT !.count = old.count + 1, !.targets = T]
  BY <1>4, <1>5 DEF Incremented, Amount
<1>7. old.count + 1 \in Nat
  BY <1>4 DEF Counter
<1>8. Incremented(r) \in Counter
  BY <1>4, <1>5, <1>6, <1>7 DEF Counter
<1> QED
  BY <1>3, <1>8

LEMMA PutType ==
  ASSUME TypeOK, NEW k \in Keys, NEW x \in Counter, Put(k, x)
  PROVE  /\ DOMAIN counter' \subseteq Keys
         /\ counter' \in [DOMAIN counter' -> Counter]
  BY DEF Put, TypeOK

-----------------------------------------------------------------------------
(* Steps                                                                   *)

(* A request changes alone, and keeps its type.                            *)
LEMMA CallType ==
  ASSUME ReportInv, NEW c \in Calls, Step(c)
  PROVE  /\ call' = [call EXCEPT ![c] = call'[c]]
         /\ call'[c] \in Call
<1> DEFINE r == call[c]
<1> USE DEF ReportInv
<1>1. TypeOK /\ r \in Call /\ now \in Times /\ Times \subseteq Nat
  BY DEF TypeOK, Times
<1>2. \A kind \in Kinds : StartCounting(r, kind) \in Call
  BY <1>1, StartCountingType
<1>3. CASE Arrive(c)
  <2>1. PICK u \in Users, ip \in Addresses \cup {NoAddress} :
          \/ \E t \in Targets : ReportContent(c, u, ip, t)
          \/ \E d \in Descriptions : ReportIssue(c, u, ip, d)
    BY <1>3 DEF Arrive
  <2>2. PICK t \in Targets \cup Descriptions, kind \in Kinds :
          call' = [call EXCEPT ![c] =
                     StartCounting([r EXCEPT !.u = u, !.ip = ip, !.t = t], kind)]
    BY <2>1 DEF ReportContent, ReportIssue, Kinds, TypeOK
  <2>3. [r EXCEPT !.u = u, !.ip = ip, !.t = t] \in Call
    BY <1>1 DEF Call
  <2>4. StartCounting([r EXCEPT !.u = u, !.ip = ip, !.t = t], kind) \in Call
    BY <1>1, <2>3, StartCountingType
  <2> QED
    BY <1>1, <2>2, <2>4 DEF TypeOK
<1>4. CASE Hit(c)
  <2>1. Passed(r) \in Call
    BY <1>1, PassedType
  <2>2. CASE call' = [call EXCEPT ![c] = Passed(r)]
    BY <2>1, <2>2 DEF TypeOK
  <2>3. CASE End(c)
    <3>1. PICK r2 \in Call : call' = [call EXCEPT ![c] = r2]
      BY ZenonT(40), <1>1, <2>3 DEF End, TypeOK, Call, Kinds, Dims, Buckets
    <3> QED
      BY <3>1 DEF TypeOK
  <2> QED
    BY <1>4, <2>2, <2>3 DEF Hit
<1>5. CASE CheckIssue(c)
  <2>1. [r EXCEPT !.at = now] \in Call
    BY <1>1 DEF Call
  <2>2. StartCounting([r EXCEPT !.at = now], "issue") \in Call
    BY <1>1, <2>1, StartCountingType DEF Kinds
  <2> QED
    BY <1>1, <1>5, <2>2 DEF CheckIssue, TypeOK
<1>6. CASE \/ MissCounter(c) \/ DuplicateCounter(c) \/ Acquire(c) \/ RunAgain(c)
           \/ UploadEvidence(c) \/ NotStored(c)
  <2>1. PICK r2 \in Call : call' = [call EXCEPT ![c] = r2]
    BY <1>1, <1>6 DEF MissCounter, DuplicateCounter, Acquire, RunAgain, UploadEvidence,
       NotStored, Goto, TypeOK, Call
  <2> QED
    BY <2>1 DEF TypeOK
<1>7. CASE CommitReport(c) \/ StoreIssue(c) \/ CleanEvidence(c) \/ Fail(c)
  <2>1. PICK r2 \in Call : call' = [call EXCEPT ![c] = r2]
    BY ZenonT(40), <1>1, <1>7 DEF CommitReport, StoreIssue, CleanEvidence, Fail, End, TypeOK,
       Call, Kinds, Dims, Buckets
  <2> QED
    BY <2>1 DEF TypeOK
<1> QED
  BY <1>3, <1>4, <1>5, <1>6, <1>7 DEF Step

(* What hitAndAssert does with its counter.                                *)
LEMMA HitStep ==
  ASSUME ReportInv, NEW c \in Calls, Hit(c)
  PROVE  LET r == call[c]  k == Key(r)  new == Incremented(r) IN
         /\ r.pc \in Counting /\ CallOK(r)
         /\ r \in Call /\ k \in Keys /\ k[1] = r.kind /\ k[2] = r.dim /\ k[4] = r.bucket
         /\ new \in Counter /\ Found(k) \in Counter
         /\ \/ /\ Observed(r) <= Limit(k)
               /\ Put(k, [new EXCEPT !.passed = new.passed \cup {c}])
               /\ [new EXCEPT !.passed = new.passed \cup {c}] \in Counter
               /\ call' = [call EXCEPT ![c] = Passed(r)]
            \/ /\ Observed(r) > Limit(k)
               /\ Put(k, [new EXCEPT !.refused = new.refused \cup {c}])
               /\ [new EXCEPT !.refused = new.refused \cup {c}] \in Counter
               /\ End(c)
<1> DEFINE r == call[c]
<1> DEFINE k == Key(r)
<1> DEFINE new == Incremented(r)
<1>1. r.pc \in Counting
  BY DEF Hit, Writes, Counting
<1>2. CallOK(r) /\ TypeOK /\ r \in Call
  BY DEF ReportInv, TypeOK
<1>3. k \in Keys /\ k[1] = r.kind /\ k[2] = r.dim /\ k[4] = r.bucket
  BY <1>1, <1>2, KeyType
<1>4. new \in Counter /\ Found(k) \in Counter
  BY <1>1, <1>2, IncrementedType
<1>5. /\ [new EXCEPT !.passed = new.passed \cup {c}] \in Counter
      /\ [new EXCEPT !.refused = new.refused \cup {c}] \in Counter
  BY <1>4 DEF Counter
<1>6. \/ /\ Observed(r) <= Limit(k)
         /\ Put(k, [new EXCEPT !.passed = new.passed \cup {c}])
         /\ call' = [call EXCEPT ![c] = Passed(r)]
      \/ /\ Observed(r) > Limit(k)
         /\ Put(k, [new EXCEPT !.refused = new.refused \cup {c}])
         /\ End(c)
  BY DEF Hit
<1> QED
  BY <1>1, <1>2, <1>3, <1>4, <1>5, <1>6

LEMMA TypeStep ==
  ASSUME ReportInv, [Next]_vars
  PROVE  TypeOK'
<1> USE DEF ReportInv
<1>1. TypeOK
  OBVIOUS
<1>2. ASSUME NEW c \in Calls, Step(c)
      PROVE  TypeOK'
  <2>1. call' \in [Calls -> Call]
    BY <1>1, <1>2, CallType DEF TypeOK
  <2>2. CallOK(call[c]) /\ call[c] \in Call /\ now \in Times
    BY <1>1 DEF TypeOK
  <2>3. CASE Hit(c)
    <3>1. PICK k \in Keys, x \in Counter : Put(k, x)
      BY <2>3, HitStep
    <3>2. /\ DOMAIN counter' \subseteq Keys
          /\ counter' \in [DOMAIN counter' -> Counter]
      BY <1>1, <3>1, PutType
    <3> QED
      BY <1>1, <2>1, <2>3, <3>2 DEF Hit, TypeOK
  <2>4. CASE CommitReport(c)
    <3>1. call[c].u \in Users /\ call[c].t \in Targets /\ call[c].at \in Times
      BY <2>2, <2>4 DEF CommitReport, CallOK, Call
    <3>2. ReportOf(c) \in Report
      BY <3>1 DEF ReportOf, Report
    <3>3. call[c].at + Cooldown[call[c].t] \in Nat
      BY <3>1, TimeAssumption DEF Times
    <3>4. cooldown' \in [Users -> [Targets -> Nat]]
      BY <1>1, <2>4, <3>1, <3>3 DEF CommitReport, TypeOK
    <3> QED
      BY <1>1, <2>1, <2>4, <3>2, <3>4 DEF CommitReport, TypeOK
  <2>5. CASE StoreIssue(c)
    <3>1. call[c].u \in Users /\ call[c].t \in Descriptions /\ call[c].at \in Times
      BY <2>2, <2>5 DEF StoreIssue, CallOK, Call
    <3>2. DedupeKey(call[c]) \in Nat
      BY <3>1, Dividing, TimeAssumption DEF DedupeKey, Times
    <3>3. [call |-> c, u |-> call[c].u, t |-> call[c].t, at |-> now,
           key |-> DedupeKey(call[c])] \in Report
      BY <2>2, <3>1, <3>2 DEF Report
    <3> QED
      BY <1>1, <2>1, <2>5, <3>3 DEF StoreIssue, TypeOK
  <2>6. CASE UploadEvidence(c) \/ CleanEvidence(c)
    BY <1>1, <2>1, <2>6 DEF UploadEvidence, CleanEvidence, TypeOK
  <2>7. CASE \/ Arrive(c) \/ MissCounter(c) \/ DuplicateCounter(c) \/ Acquire(c)
             \/ RunAgain(c) \/ CheckIssue(c) \/ NotStored(c) \/ Fail(c)
    <3>1. UNCHANGED <<now, counter, cooldown, reports, image, gone>>
      BY <2>7 DEF Arrive, ReportContent, ReportIssue, MissCounter, DuplicateCounter, Acquire,
         RunAgain, CheckIssue, NotStored, Fail
    <3> QED
      BY <1>1, <2>1, <3>1 DEF TypeOK
  <2> QED
    BY <1>2, <2>3, <2>4, <2>5, <2>6, <2>7 DEF Step
<1>3. ASSUME NEW u \in Users, DeleteAccount(u)
      PROVE  TypeOK'
  BY <1>1, <1>3 DEF DeleteAccount, TypeOK
<1>4. CASE Tick
  BY <1>1, <1>4, TimeAssumption DEF Tick, TypeOK, Times
<1>5. CASE UNCHANGED vars
  BY <1>1, <1>5 DEF vars, TypeOK
<1> QED
  BY <1>2, <1>3, <1>4, <1>5 DEF Next

(* A step of a request does not change the time.                           *)
LEMMA SameTime ==
  ASSUME NEW c \in Calls, Step(c)
  PROVE  now' = now
BY DEF Step, Arrive, ReportContent, ReportIssue, MissCounter, DuplicateCounter, Hit, Acquire,
   CommitReport, RunAgain, CheckIssue, UploadEvidence, StoreIssue, NotStored, CleanEvidence, Fail

(* What a request that passed a counter is about to do.                    *)
LEMMA PassedGoes ==
  ASSUME NEW r \in Call, NEW n \in Call, n = Passed(r)
  PROVE  /\ n.u = r.u /\ n.t = r.t /\ n.ip = r.ip /\ n.kind = r.kind /\ n.at = r.at
         /\ n.bucket = r.bucket
         /\ \/ /\ n.pc = "count" /\ n.dim = "address" /\ r.dim = "user" /\ HasAddress(r)
            \/ /\ n.pc = "count" /\ n.dim = "target" /\ r.dim # "target"
               /\ r.kind # "upload"
            \/ /\ r.kind = "content" /\ n.pc = "acquire"
            \/ /\ r.kind = "upload" /\ n.pc = "check"
            \/ /\ r.kind = "issue" /\ n.pc = "upload"
<1>1. r.kind \in Kinds /\ r.dim \in Dims
  BY DEF Call
<1> DEFINE rest == (IF r.dim = "user" /\ HasAddress(r) THEN {"address"} ELSE {})
                \cup (IF r.dim # "target" /\ r.kind # "upload" THEN {"target"} ELSE {})
<1>2. CASE rest = {}
  <2>1. n = [r EXCEPT !.pc = AfterCounting[r.kind]]
    BY <1>2 DEF Passed
  <2>2. AfterCounting[r.kind] = IF r.kind = "content" THEN "acquire"
                                ELSE IF r.kind = "upload" THEN "check" ELSE "upload"
    BY <1>1 DEF AfterCounting, Kinds
  <2> QED
    BY <1>1, <2>1, <2>2 DEF Call, Kinds
<1>3. CASE rest # {}
  <2>1. n = [r EXCEPT !.pc = "count",
                      !.dim = IF "address" \in rest THEN "address" ELSE "target"]
    BY <1>3 DEF Passed
  <2>2. CASE "address" \in rest
    BY <2>1, <2>2 DEF Call
  <2>3. CASE "address" \notin rest
    <3>1. r.dim # "target" /\ r.kind # "upload"
      BY <1>3, <2>3
    <3> QED
      BY <2>1, <2>3, <3>1 DEF Call
  <2> QED
    BY <2>2, <2>3
<1> QED
  BY <1>2, <1>3

(* Two states of a request that differ only in where it is, and since when.*)
Same(r, n) ==
  /\ n.u = r.u /\ n.t = r.t /\ n.ip = r.ip
  /\ n.kind = r.kind /\ n.dim = r.dim /\ n.bucket = r.bucket

(* How a step changes the request that takes it.                           *)
LEMMA CallStep ==
  ASSUME ReportInv, NEW c \in Calls, Step(c)
  PROVE  LET r == call[c]  n == call'[c] IN
         /\ r \in Call /\ n \in Call /\ CallOK(r)
         /\ \/ /\ Arrive(c) /\ r.pc = "new"
               /\ n.pc = "count" /\ n.u \in Users /\ n.dim = "user" /\ n.at = r.at
               /\ \/ n.kind = "content" /\ n.t \in Targets
                  \/ n.kind = "upload" /\ n.t \in Descriptions
            \/ /\ MissCounter(c) \/ DuplicateCounter(c)
               /\ r.pc \in Counting /\ n.pc \in Counting
               /\ Same(r, n) /\ n.at = r.at
            \/ /\ Hit(c) /\ r.pc \in Counting /\ n = Passed(r)
            \/ /\ Acquire(c) /\ r.pc = "acquire" /\ n.pc = "held"
               /\ Same(r, n) /\ n.at = now
            \/ /\ RunAgain(c) /\ r.pc = "held" /\ n.pc = "acquire"
               /\ Same(r, n) /\ n.at = r.at
            \/ /\ CheckIssue(c) /\ r.pc = "check" /\ n.pc = "count" /\ n.dim = "user"
               /\ n.kind = "issue" /\ n.u = r.u /\ n.t = r.t /\ n.at = now
            \/ /\ UploadEvidence(c) /\ r.pc = "upload" /\ n.pc = "store"
               /\ Same(r, n) /\ n.at = r.at
            \/ /\ NotStored(c) /\ r.pc = "store" /\ n.pc = "clean"
               /\ Same(r, n) /\ n.at = r.at
            \/ /\ End(c) /\ r.pc \notin {"new", "over"} /\ n.pc = "over" /\ n.kind = "content"
               /\ n.u = r.u /\ n.t = r.t /\ n.at = r.at
<1> DEFINE r == call[c]
<1> DEFINE n == call'[c]
<1>1. r \in Call /\ n \in Call /\ CallOK(r) /\ call \in [Calls -> Call]
  BY CallType DEF ReportInv, TypeOK
<1>2. CASE Arrive(c)
  <2>1. PICK u \in Users, ip \in Addresses \cup {NoAddress} :
          \/ \E t \in Targets : ReportContent(c, u, ip, t)
          \/ \E d \in Descriptions : ReportIssue(c, u, ip, d)
    BY <1>2 DEF Arrive
  <2>2. PICK t \in Targets \cup Descriptions, kind \in Kinds :
          /\ call' = [call EXCEPT ![c] =
                     StartCounting([r EXCEPT !.u = u, !.ip = ip, !.t = t], kind)]
          /\ r.pc = "new"
          /\ \/ kind = "content" /\ t \in Targets
             \/ kind = "upload" /\ t \in Descriptions
    <3>1. CASE \E t \in Targets : ReportContent(c, u, ip, t)
      BY <3>1 DEF ReportContent, Kinds
    <3>2. CASE \E d \in Descriptions : ReportIssue(c, u, ip, d)
      BY <3>2 DEF ReportIssue, Kinds
    <3> QED
      BY <2>1, <3>1, <3>2
  <2>3. n = [r EXCEPT !.u = u, !.ip = ip, !.t = t, !.pc = "count", !.kind = kind,
                      !.dim = "user", !.bucket = now \div Window]
    BY <1>1, <2>2 DEF StartCounting, Call
  <2> QED
    BY ZenonT(40), <1>1, <1>2, <2>2, <2>3 DEF Call
<1>3. CASE MissCounter(c) \/ DuplicateCounter(c)
  BY <1>1, <1>3 DEF MissCounter, DuplicateCounter, Goto, Counting, Call, Same
<1>4. CASE Hit(c)
  <2>1. r.pc \in Counting /\ (call' = [call EXCEPT ![c] = Passed(r)] \/ End(c))
    BY <1>4, HitStep
  <2>2. CASE call' = [call EXCEPT ![c] = Passed(r)]
    BY <1>1, <1>4, <2>1, <2>2
  <2>3. CASE End(c)
    BY <1>1, <2>1, <2>3 DEF End, Call, Counting
  <2> QED
    BY <2>1, <2>2, <2>3
<1>5. CASE Acquire(c)
  <2>1. r.pc = "acquire" /\ n = [r EXCEPT !.pc = "held", !.at = now]
    BY <1>1, <1>5 DEF Acquire
  <2> QED
    BY <1>1, <1>5, <2>1 DEF Call, Same
<1>9. CASE RunAgain(c)
  BY <1>1, <1>9 DEF RunAgain, Goto, Call, Same
<1>6. CASE CheckIssue(c)
  BY <1>1, <1>6 DEF CheckIssue, StartCounting, Call
<1>7. CASE UploadEvidence(c) \/ NotStored(c)
  BY <1>1, <1>7 DEF UploadEvidence, NotStored, Goto, Call, Same
<1>8. CASE CommitReport(c) \/ StoreIssue(c) \/ CleanEvidence(c) \/ Fail(c)
  BY <1>1, <1>8 DEF CommitReport, StoreIssue, CleanEvidence, Fail, End, Call
<1> QED
  BY <1>2, <1>3, <1>4, <1>5, <1>6, <1>7, <1>8, <1>9 DEF Step

LEMMA CallOKStep ==
  ASSUME ReportInv, [Next]_vars, NEW d \in Calls
  PROVE  CallOK(call[d])'
<1>1. /\ TypeOK /\ CallOK(call[d]) /\ call[d] \in Call
      /\ now \in Nat /\ now' \in Nat
  BY TypeStep DEF ReportInv, TypeOK, Times
<1>2. CASE call'[d] = call[d] /\ now' >= now
  BY <1>1, <1>2 DEF CallOK, HasAddress, Counting, Call, Times
<1>3. ASSUME NEW c \in Calls, Step(c)
      PROVE  CallOK(call[d])'
  <2>1. CASE c # d
    <3>1. call'[d] = call[d]
      BY <1>3, <2>1, CallType DEF ReportInv, TypeOK
    <3> QED
      BY <1>1, <1>2, <1>3, <3>1, SameTime
  <2>2. CASE c = d
    <3>1. now' = now
      BY <1>3, SameTime
    <3>2. CASE Hit(c) /\ call'[c] = Passed(call[c])
      <4>1. PICK r \in Call, n \in Call : r = call[d] /\ n = call'[d] /\ n = Passed(r)
        BY <1>1, <1>3, <2>2, <3>2, CallType
      <4>2. r.pc \in Counting /\ CallOK(r)
        BY <1>1, <2>2, <3>2, <4>1, HitStep
      <4>3. /\ n.u = r.u /\ n.t = r.t /\ n.ip = r.ip /\ n.kind = r.kind /\ n.at = r.at
            /\ \/ n.pc = "count" /\ n.dim = "address" /\ HasAddress(r)
               \/ n.pc = "count" /\ n.dim = "target"
               \/ r.kind = "content" /\ n.pc = "acquire"
               \/ r.kind = "upload" /\ n.pc = "check"
               \/ r.kind = "issue" /\ n.pc = "upload"
        BY <4>1, PassedGoes
      <4>4. CallOK(n)
        BY <4>2, <4>3 DEF CallOK, HasAddress, Counting
      <4> QED
        BY <3>1, <4>1, <4>4 DEF CallOK, HasAddress
    <3>3. CASE ~(Hit(c) /\ call'[c] = Passed(call[c]))
      <4>1. PICK r \in Call, n \in Call : r = call[d] /\ n = call'[d]
        BY <1>1, <1>3, <2>2, CallType
      <4>2. CallOK(r)
        BY <1>1, <4>1
      <4>3. CASE r.pc = "new" /\ n.pc = "count"
        <5>1. /\ n.u \in Users /\ n.dim = "user" /\ n.at = r.at
              /\ \/ n.kind = "content" /\ n.t \in Targets
                 \/ n.kind = "upload" /\ n.t \in Descriptions
          BY <1>3, <2>2, <3>3, <4>1, <4>3, CallStep DEF Counting
        <5>2. CallOK(n)
          BY <4>2, <4>3, <5>1 DEF CallOK, Counting
        <5> QED
          BY <3>1, <4>1, <5>2 DEF CallOK, HasAddress
      <4>4. CASE ~(r.pc = "new" /\ n.pc = "count")
        <5>1. /\ n.u = r.u /\ n.t = r.t
              /\ n.at \in {r.at, now}
              /\ \/ /\ r.pc \in Counting /\ n.pc \in Counting /\ n.kind = r.kind
                    /\ n.dim = r.dim /\ n.ip = r.ip
                 \/ r.pc = "acquire" /\ n.pc = "held" /\ n.kind = r.kind
                 \/ r.pc = "held" /\ n.pc = "acquire" /\ n.kind = r.kind
                 \/ r.pc = "check" /\ n.pc = "count" /\ n.dim = "user" /\ n.kind = "issue"
                 \/ r.pc = "upload" /\ n.pc = "store" /\ n.kind = r.kind
                 \/ r.pc = "store" /\ n.pc = "clean" /\ n.kind = r.kind
                 \/ n.pc = "over" /\ n.kind = "content"
          BY <1>3, <2>2, <3>3, <4>1, <4>4, CallStep DEF Counting, Same
        <5>2. CallOK(n)
          BY <1>1, <4>2, <5>1 DEF CallOK, HasAddress, Counting
        <5> QED
          BY <3>1, <4>1, <5>2 DEF CallOK, HasAddress
      <4> QED
        BY <4>3, <4>4
    <3> QED
      BY <3>2, <3>3
  <2> QED
    BY <2>1, <2>2
<1>4. CASE (\E u \in Users : DeleteAccount(u)) \/ UNCHANGED vars
  BY <1>1, <1>2, <1>4 DEF DeleteAccount, vars
<1>5. CASE Tick
  BY <1>1, <1>2, <1>5 DEF Tick
<1> QED
  BY <1>3, <1>4, <1>5 DEF Next

-----------------------------------------------------------------------------
(* Cooldowns                                                               *)

(* A request that holds nothing new disturbs no cooldown.                  *)
LEMMA CooldownQuiet ==
  ASSUME ReportInv,
         \A c \in Calls : call'[c].pc = "held" => call'[c] = call[c],
         UNCHANGED <<cooldown, reports, gone>>
  PROVE  CooldownOK' /\ OneReportPerCooldown'
BY DEF ReportInv, CooldownOK, OneReportPerCooldown

LEMMA AcquireCooldown ==
  ASSUME ReportInv, NEW c \in Calls, Acquire(c)
  PROVE  CooldownOK' /\ OneReportPerCooldown'
<1>1. /\ call \in [Calls -> Call] /\ CooldownOK /\ OneReportPerCooldown
      /\ now \in Nat
  BY DEF ReportInv, TypeOK, Times
<1>2. call' = [call EXCEPT ![c].pc = "held", ![c].at = now]
  BY DEF Acquire
<1>3. /\ call'[c].u = call[c].u /\ call'[c].t = call[c].t /\ call'[c].at = now
      /\ \A d \in Calls : d # c => call'[d] = call[d]
  BY <1>1, <1>2 DEF Call
<1>4. /\ ~CooldownHeld(call[c].u, call[c].t)
      /\ cooldown[call[c].u][call[c].t] <= now
      /\ UNCHANGED <<now, cooldown, reports, gone>>
  BY DEF Acquire, CooldownOver
<1>5. ASSUME NEW d \in Calls, NEW e \in Calls, d # e,
             call'[d].pc = "held", call'[e].pc = "held"
      PROVE  call'[d].u # call'[e].u \/ call'[d].t # call'[e].t
  <2>1. CASE d # c /\ e # c
    BY <1>1, <1>3, <1>5, <2>1 DEF CooldownOK
  <2>2. CASE d = c
    BY <1>3, <1>4, <1>5, <2>2 DEF CooldownHeld
  <2>3. CASE e = c
    BY <1>3, <1>4, <1>5, <2>3 DEF CooldownHeld
  <2> QED
    BY <2>1, <2>2, <2>3
<1>6. \A d \in Calls : call'[d].pc = "held" =>
        cooldown'[call'[d].u][call'[d].t] <= call'[d].at
  BY <1>1, <1>3, <1>4 DEF CooldownOK
<1> QED
  BY <1>1, <1>4, <1>5, <1>6 DEF CooldownOK, OneReportPerCooldown

LEMMA CommitCooldown ==
  ASSUME ReportInv, NEW c \in Calls, CommitReport(c)
  PROVE  CooldownOK' /\ OneReportPerCooldown'
<1> DEFINE r == call[c]
<1>1. /\ call \in [Calls -> Call] /\ CooldownOK /\ OneReportPerCooldown
      /\ cooldown \in [Users -> [Targets -> Nat]] /\ reports \subseteq Report
  BY DEF ReportInv, TypeOK
<1>2. r \in Call /\ r.pc = "held" /\ r.u \in Users /\ r.t \in Targets /\ r.at \in Nat
  BY <1>1 DEF ReportInv, CallOK, CommitReport, Call, Times
<1>3. Cooldown[r.t] \in Nat
  BY <1>2, TimeAssumption
<1>4. /\ cooldown' = [cooldown EXCEPT ![r.u][r.t] = r.at + Cooldown[r.t]]
      /\ reports' = reports \cup {ReportOf(c)} /\ gone' = gone
  BY DEF CommitReport
<1>5. /\ call'[c].pc = "over"
      /\ \A d \in Calls : d # c => call'[d] = call[d]
  BY <1>1 DEF CommitReport, End, Call
<1>6. cooldown[r.u][r.t] <= r.at
  BY <1>1, <1>2 DEF CooldownOK
<1>7. \A v \in Users, t \in Targets :
        /\ cooldown[v][t] \in Nat
        /\ cooldown'[v][t] = IF v = r.u /\ t = r.t THEN r.at + Cooldown[r.t]
                             ELSE cooldown[v][t]
  BY <1>1, <1>2, <1>4
<1>8. \A v \in Users, t \in Targets : cooldown[v][t] <= cooldown'[v][t]
  BY <1>2, <1>3, <1>6, <1>7
<1>9. ASSUME NEW d \in Calls, call'[d].pc = "held"
      PROVE  cooldown'[call'[d].u][call'[d].t] <= call'[d].at
  <2>1. d # c /\ call'[d] = call[d]
    BY <1>5, <1>9
  <2>2. call[d].u # r.u \/ call[d].t # r.t
    BY <1>1, <1>2, <1>9, <2>1 DEF CooldownOK
  <2>3. call[d].u \in Users /\ call[d].t \in Targets
    BY <1>9, <2>1 DEF ReportInv, CallOK
  <2> QED
    BY <1>1, <1>7, <1>9, <2>1, <2>2, <2>3 DEF CooldownOK
<1>10. ASSUME NEW i \in reports', i.t \in Targets,
              i.u \notin gone, OwnerOf[i.t] \notin gone
       PROVE  /\ i.at + Cooldown[i.t] <= cooldown'[i.u][i.t]
              /\ i \in reports /\ i.u = r.u /\ i.t = r.t => i.at + Cooldown[i.t] <= r.at
  <2>1. CASE i \in reports
    <3>1. i.u \in Users /\ i.at \in Nat /\ Cooldown[i.t] \in Nat
      BY <1>1, <1>10, <2>1, TimeAssumption DEF Report, Times
    <3>2. i.at + Cooldown[i.t] <= cooldown[i.u][i.t]
      BY <1>1, <1>10, <2>1 DEF CooldownOK
    <3>3. /\ cooldown[i.u][i.t] \in Nat /\ cooldown'[i.u][i.t] \in Nat
          /\ cooldown[i.u][i.t] <= cooldown'[i.u][i.t]
      BY <1>2, <1>3, <1>7, <1>8, <1>10, <3>1
    <3>4. i.at + Cooldown[i.t] <= cooldown'[i.u][i.t]
      BY <3>1, <3>2, <3>3
    <3>5. ASSUME i.u = r.u, i.t = r.t PROVE i.at + Cooldown[i.t] <= r.at
      BY <1>2, <1>6, <3>1, <3>2, <3>3, <3>5
    <3> QED
      BY <3>4, <3>5
  <2>2. CASE i \notin reports
    <3>1. i = ReportOf(c)
      BY <1>4, <1>10, <2>2
    <3> QED
      BY <1>2, <1>3, <1>7, <2>2, <3>1 DEF ReportOf
  <2> QED
    BY <2>1, <2>2
<1>11. CooldownOK'
  BY <1>1, <1>4, <1>5, <1>9, <1>10 DEF CooldownOK
<1>12. ASSUME NEW i \in reports', NEW j \in reports', i # j, i.u = j.u, i.t = j.t,
              i.t \in Targets, i.u \notin gone, OwnerOf[i.t] \notin gone
       PROVE  i.at + Cooldown[i.t] <= j.at \/ j.at + Cooldown[i.t] <= i.at
  <2>1. CASE i \in reports /\ j \in reports
    BY <1>1, <1>12, <2>1 DEF OneReportPerCooldown
  <2>2. CASE i \in reports /\ j = ReportOf(c)
    BY <1>10, <1>12, <2>2 DEF ReportOf
  <2>3. CASE j \in reports /\ i = ReportOf(c)
    BY <1>10, <1>12, <2>3 DEF ReportOf
  <2> QED
    BY <1>4, <1>12, <2>1, <2>2, <2>3
<1> QED
  BY <1>4, <1>11, <1>12 DEF OneReportPerCooldown

(* An issue is no target, and its report covers no cooldown.               *)
LEMMA StoreCooldown ==
  ASSUME ReportInv, NEW c \in Calls, StoreIssue(c)
  PROVE  CooldownOK' /\ OneReportPerCooldown'
<1>1. /\ call \in [Calls -> Call] /\ CooldownOK /\ OneReportPerCooldown
      /\ call[c].t \notin Targets
  BY SetAssumption DEF ReportInv, TypeOK, StoreIssue, CallOK
<1>2. /\ call'[c].pc = "over"
      /\ \A d \in Calls : d # c => call'[d] = call[d]
      /\ UNCHANGED <<cooldown, gone>>
  BY <1>1 DEF StoreIssue, End, Call
<1>3. \A i \in reports' : i.t \in Targets => i \in reports
  BY <1>1 DEF StoreIssue
<1> QED
  BY <1>1, <1>2, <1>3 DEF CooldownOK, OneReportPerCooldown

LEMMA DeleteCooldown ==
  ASSUME ReportInv, NEW u \in Users, DeleteAccount(u)
  PROVE  CooldownOK' /\ OneReportPerCooldown'
<1>1. /\ call \in [Calls -> Call] /\ CooldownOK /\ OneReportPerCooldown
      /\ cooldown \in [Users -> [Targets -> Nat]] /\ reports \subseteq Report
      /\ \A c \in Calls : CallOK(call[c])
  BY DEF ReportInv, TypeOK
<1>2. UNCHANGED <<call, reports>> /\ gone' = gone \cup {u}
  BY DEF DeleteAccount
<1>3. \A v \in Users, t \in Targets :
        /\ cooldown[v][t] \in Nat
        /\ cooldown'[v][t] = IF v = u \/ OwnerOf[t] = u THEN 0 ELSE cooldown[v][t]
  BY <1>1 DEF DeleteAccount
<1>4. ASSUME NEW c \in Calls, call[c].pc = "held"
      PROVE  cooldown'[call[c].u][call[c].t] <= call[c].at
  <2>1. call[c].u \in Users /\ call[c].t \in Targets /\ call[c].at \in Nat
    BY <1>1, <1>4 DEF CallOK, Call, Times
  <2> QED
    BY <1>1, <1>3, <1>4, <2>1 DEF CooldownOK
<1>5. ASSUME NEW i \in reports, i.t \in Targets,
             i.u \notin gone', OwnerOf[i.t] \notin gone'
      PROVE  i.at + Cooldown[i.t] <= cooldown'[i.u][i.t]
  <2>1. i.u \in Users /\ i.u # u /\ OwnerOf[i.t] # u
    BY <1>1, <1>2, <1>5 DEF Report
  <2> QED
    BY <1>1, <1>2, <1>3, <1>5, <2>1 DEF CooldownOK
<1> QED
  BY <1>1, <1>2, <1>4, <1>5 DEF CooldownOK, OneReportPerCooldown

LEMMA CooldownStep ==
  ASSUME ReportInv, [Next]_vars
  PROVE  CooldownOK' /\ OneReportPerCooldown'
<1>1. ASSUME NEW c \in Calls, Step(c)
      PROVE  CooldownOK' /\ OneReportPerCooldown'
  <2>1. \A d \in Calls : d # c => call'[d] = call[d]
    BY <1>1, CallType DEF ReportInv, TypeOK
  <2>2. CASE Acquire(c) \/ CommitReport(c) \/ StoreIssue(c)
    BY <2>2, AcquireCooldown, CommitCooldown, StoreCooldown
  <2>3. CASE Hit(c)
    <3>1. call'[c].pc # "held"
      <4>1. CASE call'[c] = Passed(call[c])
        <5>1. PICK r \in Call, n \in Call : r = call[c] /\ n = call'[c] /\ n = Passed(r)
          BY <1>1, <4>1, CallStep
        <5> QED
          BY <5>1, PassedGoes
      <4>2. CASE call'[c] # Passed(call[c])
        BY <1>1, <2>3, <4>2, CallStep DEF Hit, MissCounter, Writes, DuplicateCounter,
           Acquire, RunAgain, CheckIssue, UploadEvidence, NotStored, Arrive, Counting
      <4> QED
        BY <4>1, <4>2
    <3>2. UNCHANGED <<cooldown, reports, gone>>
      BY <2>3 DEF Hit
    <3> QED
      BY <2>1, <3>1, <3>2, CooldownQuiet
  <2>4. CASE ~Hit(c) /\ ~Acquire(c) /\ ~CommitReport(c) /\ ~StoreIssue(c)
    <3>1. call'[c].pc # "held"
      BY <1>1, <2>4, CallStep DEF Counting
    <3>2. UNCHANGED <<cooldown, reports, gone>>
      BY <1>1, <2>4 DEF Step, Arrive, ReportContent, ReportIssue, MissCounter,
         DuplicateCounter, RunAgain, CheckIssue, UploadEvidence, NotStored, CleanEvidence, Fail
    <3> QED
      BY <2>1, <3>1, <3>2, CooldownQuiet
  <2> QED
    BY <2>2, <2>3, <2>4
<1>2. ASSUME NEW u \in Users, DeleteAccount(u)
      PROVE  CooldownOK' /\ OneReportPerCooldown'
  BY <1>2, DeleteCooldown
<1>3. CASE Tick \/ UNCHANGED vars
  <2>1. UNCHANGED <<call, cooldown, reports, gone>>
    BY <1>3 DEF Tick, vars
  <2> QED
    BY <2>1, CooldownQuiet
<1> QED
  BY <1>1, <1>2, <1>3 DEF Next

-----------------------------------------------------------------------------
(* Issues                                                                  *)

(* The request of a stored report is over, and stays as it is.             *)
LEMMA StoredRequest ==
  ASSUME ReportInv, [Next]_vars, NEW i \in reports
  PROVE  /\ i.call \in Calls /\ call'[i.call] = call[i.call]
         /\ call[i.call].pc = "over"
<1>1. i.call \in Calls /\ call[i.call].pc = "over"
  BY DEF ReportInv, TypeOK, Report, ReportsOK
<1>2. ASSUME NEW c \in Calls, Step(c)
      PROVE  call'[i.call] = call[i.call]
  <2>1. call[c].pc # "over"
    BY <1>2, CallStep DEF Counting
  <2>2. c # i.call
    BY <1>1, <2>1
  <2> QED
    BY <1>1, <1>2, <2>2, CallType DEF ReportInv, TypeOK
<1> QED
  BY <1>1, <1>2 DEF Next, DeleteAccount, Tick, vars

(* A request is counted as an issue since it was checked.                  *)
LEMMA IssueRequest ==
  ASSUME ReportInv, NEW c \in Calls, Step(c), call'[c].kind = "issue"
  PROVE  /\ call'[c].u = call[c].u /\ call'[c].t = call[c].t
         /\ \/ call[c].kind = "issue" /\ call'[c].at = call[c].at
            \/ CheckIssue(c) /\ call'[c].at = now
<1>1. PICK r \in Call, n \in Call : r = call[c] /\ n = call'[c] /\ CallOK(r)
  BY CallStep
<1>2. CASE Hit(c) /\ n = Passed(r)
  BY <1>1, <1>2, PassedGoes
<1>3. CASE ~(Hit(c) /\ n = Passed(r))
  <2>1. \/ n.kind \in {"content", "upload"}
        \/ Same(r, n) /\ n.at = r.at
        \/ r.pc = "acquire" /\ Same(r, n)
        \/ CheckIssue(c) /\ n.u = r.u /\ n.t = r.t /\ n.at = now
    BY <1>1, <1>3, CallStep
  <2> QED
    BY <1>1, <2>1 DEF Same, CallOK
<1> QED
  BY <1>2, <1>3

LEMMA ReportsQuiet ==
  ASSUME ReportInv, [Next]_vars, reports' = reports,
         \A c \in Calls : call'[c].kind = "issue" =>
           /\ call'[c].u = call[c].u /\ call'[c].t = call[c].t
           /\ \/ call[c].kind = "issue" /\ call'[c].at = call[c].at
              \/ CheckIssue(c) /\ call'[c].at = now
  PROVE  ReportsOK' /\ IssuesApart'
<1>1. ReportsOK /\ IssuesApart /\ now \in Nat /\ now' \in Nat /\ reports \subseteq Report
  BY TypeStep DEF ReportInv, TypeOK, Times
<1>2. now <= now'
  <2>1. CASE \E c \in Calls : Step(c)
    BY <1>1, <2>1, SameTime
  <2>2. CASE ~\E c \in Calls : Step(c)
    BY <1>1, <2>2 DEF Next, vars, DeleteAccount, Tick
  <2> QED
    BY <2>1, <2>2
<1>3. \A i \in reports : i.call \in Calls /\ call'[i.call] = call[i.call]
  BY StoredRequest
<1>4. IssuesApart'
  BY <1>1, <1>3 DEF IssuesApart
<1>5. ASSUME NEW i \in reports
      PROVE  /\ call'[i.call].pc = "over"
             /\ i.at <= now'
             /\ call'[i.call].at <= i.at
             /\ i.t \in Descriptions => i.key = DedupeKey(call'[i.call])
  <2>1. i.at \in Nat /\ i.at <= now
    BY <1>1 DEF Report, Times, ReportsOK
  <2> QED
    BY <1>1, <1>2, <1>3, <2>1 DEF ReportsOK
<1>6. ASSUME NEW c \in Calls, call'[c].kind = "issue", NEW i \in reports,
             i.u = call'[c].u, i.t = call'[c].t
      PROVE  i.at + DuplicateWindow < call'[c].at \/ call'[c].at <= i.at
  <2>1. i.at \in Nat /\ DuplicateWindow \in Nat
    BY <1>1, TimeAssumption DEF Report, Times
  <2>2. CASE call[c].kind = "issue" /\ call'[c].at = call[c].at
    BY <1>1, <1>6, <2>2 DEF ReportsOK
  <2>3. CASE CheckIssue(c) /\ call'[c].at = now
    <3>1. ~(now <= i.at + DuplicateWindow)
      BY <1>6, <2>3 DEF CheckIssue, RecentDuplicate
    <3> QED
      BY <1>1, <2>1, <2>3, <3>1
  <2> QED
    BY <1>6, <2>2, <2>3
<1> QED
  BY <1>4, <1>5, <1>6 DEF ReportsOK, DedupeKey

(* A report of content is no issue.                                        *)
LEMMA CommitReports ==
  ASSUME ReportInv, [Next]_vars, NEW c \in Calls, CommitReport(c)
  PROVE  ReportsOK' /\ IssuesApart'
<1>1. ReportsOK /\ IssuesApart /\ now \in Nat /\ reports \subseteq Report
      /\ call \in [Calls -> Call] /\ CallOK(call[c]) /\ Step(c)
  BY DEF ReportInv, TypeOK, Times, Step
<1>2. /\ reports' = reports \cup {ReportOf(c)} /\ now' = now
      /\ call'[c].pc = "over" /\ call'[c].kind = "content" /\ call'[c].at = call[c].at
      /\ call[c].t \in Targets /\ call[c].at \in Nat /\ call[c].at <= now
      /\ \A d \in Calls : d # c => call'[d] = call[d]
  BY <1>1 DEF CommitReport, End, Call, CallOK, Times
<1>3. \A i \in reports : i.call \in Calls /\ call'[i.call] = call[i.call]
  BY StoredRequest
<1>4. /\ ReportOf(c).t \in Targets /\ ReportOf(c).t \notin Descriptions
      /\ ReportOf(c).call = c /\ ReportOf(c).at = call[c].at
  BY <1>2, SetAssumption DEF ReportOf
<1>5. IssuesApart'
  BY <1>1, <1>2, <1>3, <1>4 DEF IssuesApart
<1>6. ASSUME NEW i \in reports'
      PROVE  /\ call'[i.call].pc = "over"
             /\ i.at <= now'
             /\ call'[i.call].at <= i.at
             /\ i.t \in Descriptions => i.key = DedupeKey(call'[i.call])
  <2>1. CASE i \in reports
    BY <1>1, <1>2, <1>3, <2>1 DEF ReportsOK
  <2>2. CASE i = ReportOf(c)
    BY <1>2, <1>4, <2>2
  <2> QED
    BY <1>2, <1>6, <2>1, <2>2
<1>7. ASSUME NEW d \in Calls, call'[d].kind = "issue", NEW i \in reports',
             i.u = call'[d].u, i.t = call'[d].t
      PROVE  i.at + DuplicateWindow < call'[d].at \/ call'[d].at <= i.at
  <2>1. d # c /\ call'[d] = call[d]
    BY <1>2, <1>7
  <2>2. call[d].t \in Descriptions
    BY <1>7, <2>1 DEF ReportInv, CallOK
  <2>3. i \in reports
    BY <1>2, <1>4, <1>7, <2>1, <2>2
  <2> QED
    BY <1>1, <1>7, <2>1, <2>3 DEF ReportsOK
<1> QED
  BY <1>5, <1>6, <1>7 DEF ReportsOK, DedupeKey

(* An issue is stored under a key of its own.                              *)
LEMMA StoreReports ==
  ASSUME ReportInv, [Next]_vars, NEW c \in Calls, StoreIssue(c)
  PROVE  ReportsOK' /\ IssuesApart'
<1> DEFINE n == [call |-> c, u |-> call[c].u, t |-> call[c].t, at |-> now,
                 key |-> DedupeKey(call[c])]
<1>1. ReportsOK /\ IssuesApart /\ now \in Nat /\ reports \subseteq Report
      /\ call \in [Calls -> Call] /\ CallOK(call[c])
      /\ DuplicateWindow \in Nat
  BY TimeAssumption DEF ReportInv, TypeOK, Times
<1>2. /\ reports' = reports \cup {n} /\ now' = now
      /\ call'[c].pc = "over" /\ call'[c].kind = "content" /\ call'[c].at = call[c].at
      /\ call[c].t \in Descriptions /\ call[c].at \in Nat /\ call[c].at <= now
      /\ call[c].kind = "issue"
      /\ \A d \in Calls : d # c => call'[d] = call[d]
      /\ \A i \in reports : ~(i.u = n.u /\ i.t = n.t /\ i.key = n.key)
  BY <1>1 DEF StoreIssue, End, Call, CallOK, Times
<1>3. \A i \in reports : i.call \in Calls /\ call'[i.call] = call[i.call]
  BY StoredRequest
<1>4. \A i \in reports : /\ i.at \in Nat /\ i.at <= now
                         /\ call[i.call].at <= i.at /\ call[i.call].at \in Nat
  BY <1>1, <1>3 DEF Report, Times, ReportsOK, Call
<1>5. ASSUME NEW i \in reports, i.u = n.u, i.t = n.t
      PROVE  \/ i.at + DuplicateWindow < n.at
             \/ /\ i.key # n.key
                /\ call'[i.call].at <= n.at /\ call'[n.call].at <= i.at
  <2>1. i.at + DuplicateWindow < call[c].at \/ call[c].at <= i.at
    BY <1>1, <1>2, <1>5 DEF ReportsOK
  <2>2. /\ i.at \in Nat /\ i.at <= now /\ call[i.call].at <= i.at /\ call[i.call].at \in Nat
        /\ call'[i.call] = call[i.call] /\ n.at = now /\ call'[n.call].at = call[c].at
        /\ i.key # n.key
    BY <1>2, <1>3, <1>4, <1>5
  <2>3. CASE i.at + DuplicateWindow < call[c].at
    BY <1>1, <1>2, <2>2, <2>3
  <2>4. CASE call[c].at <= i.at
    BY <1>1, <1>2, <2>2, <2>4
  <2> QED
    BY <2>1, <2>3, <2>4
<1> HIDE DEF n
<1>6. ASSUME NEW i \in reports', NEW j \in reports',
             i # j, i.u = j.u, i.t = j.t, i.t \in Descriptions
      PROVE  \/ i.at + DuplicateWindow < j.at \/ j.at + DuplicateWindow < i.at
             \/ /\ i.key # j.key
                /\ call'[i.call].at <= j.at /\ call'[j.call].at <= i.at
  <2>1. CASE i \in reports /\ j \in reports
    BY <1>1, <1>3, <1>6, <2>1 DEF IssuesApart
  <2>2. CASE i \in reports /\ j = n
    BY <1>5, <1>6, <2>2
  <2>3. CASE i = n /\ j \in reports
    BY <1>5, <1>6, <2>3
  <2> QED
    BY <1>2, <1>6, <2>1, <2>2, <2>3
<1>7. ASSUME NEW i \in reports'
      PROVE  /\ call'[i.call].pc = "over"
             /\ i.at <= now'
             /\ call'[i.call].at <= i.at
             /\ i.t \in Descriptions => i.key = DedupeKey(call'[i.call])
  <2>1. CASE i \in reports
    BY <1>1, <1>2, <1>3, <2>1 DEF ReportsOK
  <2>2. CASE i = n
    BY <1>1, <1>2, <2>2 DEF n, DedupeKey
  <2> QED
    BY <1>2, <1>7, <2>1, <2>2
<1>8. ASSUME NEW d \in Calls, call'[d].kind = "issue", NEW i \in reports',
             i.u = call'[d].u, i.t = call'[d].t
      PROVE  i.at + DuplicateWindow < call'[d].at \/ call'[d].at <= i.at
  <2>1. d # c /\ call'[d] = call[d]
    BY <1>2, <1>8
  <2>2. CASE i \in reports
    BY <1>1, <1>8, <2>1, <2>2 DEF ReportsOK
  <2>3. CASE i = n
    <3>1. call[d].at <= now
      BY DEF ReportInv, CallOK
    <3> QED
      BY <2>1, <2>3, <3>1 DEF n
  <2> QED
    BY <1>2, <1>8, <2>2, <2>3
<1> QED
  BY <1>6, <1>7, <1>8 DEF ReportsOK, IssuesApart, DedupeKey

LEMMA ReportsStep ==
  ASSUME ReportInv, [Next]_vars
  PROVE  ReportsOK' /\ IssuesApart'
<1>1. ASSUME NEW c \in Calls, Step(c)
      PROVE  ReportsOK' /\ IssuesApart'
  <2>1. CASE CommitReport(c) \/ StoreIssue(c)
    BY <2>1, CommitReports, StoreReports
  <2>2. CASE ~CommitReport(c) /\ ~StoreIssue(c)
    <3>1. reports' = reports
      BY <1>1, <2>2 DEF Step, Arrive, ReportContent, ReportIssue, MissCounter,
         DuplicateCounter, Hit, Acquire, RunAgain, CheckIssue, UploadEvidence, NotStored,
         CleanEvidence, Fail
    <3>2. \A d \in Calls : d # c => call'[d] = call[d]
      BY <1>1, CallType DEF ReportInv, TypeOK
    <3>3. \A d \in Calls : call'[d].kind = "issue" =>
             /\ call'[d].u = call[d].u /\ call'[d].t = call[d].t
             /\ \/ call[d].kind = "issue" /\ call'[d].at = call[d].at
                \/ CheckIssue(d) /\ call'[d].at = now
      BY <1>1, <3>2, IssueRequest
    <3> QED
      BY <3>1, <3>3, ReportsQuiet
  <2> QED
    BY <2>1, <2>2
<1>2. CASE UNCHANGED <<call, reports>>
  BY <1>2, ReportsQuiet
<1> QED
  BY <1>1, <1>2 DEF Next, DeleteAccount, Tick, vars

-----------------------------------------------------------------------------
(* Counters                                                                *)

(* Nobody changes what a request is about, once it has arrived.            *)
LEMMA AboutTheSame ==
  ASSUME ReportInv, [Next]_vars, NEW d \in Calls, call[d].pc # "new"
  PROVE  call'[d].u = call[d].u /\ call'[d].t = call[d].t
<1>1. ASSUME NEW c \in Calls, Step(c)
      PROVE  call'[d].u = call[d].u /\ call'[d].t = call[d].t
  <2>1. CASE c # d
    BY <1>1, <2>1, CallType DEF ReportInv, TypeOK
  <2>2. CASE c = d
    <3>1. PICK r \in Call, n \in Call : r = call[d] /\ n = call'[d]
      BY <1>1, <2>2, CallStep
    <3>2. CASE n = Passed(r)
      BY <3>1, <3>2, PassedGoes
    <3>3. CASE n # Passed(r)
      BY <1>1, <2>2, <3>1, <3>3, CallStep DEF Same
    <3> QED
      BY <3>1, <3>2, <3>3
  <2> QED
    BY <2>1, <2>2
<1> QED
  BY <1>1 DEF Next, DeleteAccount, Tick, vars

(* No counter comes before a request again.                                *)
LEMMA AheadShrinks ==
  ASSUME ReportInv, [Next]_vars, NEW d \in Calls, NEW kind \in Kinds, NEW dim \in Dims,
         IsAhead(call'[d], kind, dim)
  PROVE  IsAhead(call[d], kind, dim)
<1>1. ASSUME NEW c \in Calls, Step(c)
      PROVE  IsAhead(call[d], kind, dim)
  <2>1. CASE c # d
    BY <1>1, <2>1, CallType DEF ReportInv, TypeOK
  <2>2. CASE c = d
    <3>1. PICK r \in Call, n \in Call : r = call[d] /\ n = call'[d]
      BY <1>1, <2>2, CallStep
    <3>2. IsAhead(n, kind, dim)
      BY <3>1
    <3>3. CASE Hit(c) /\ n = Passed(r)
      <4>1. r.pc \in Counting
        BY <3>1, <3>3, <2>2, HitStep
      <4>2. /\ n.kind = r.kind
            /\ \/ n.pc = "count" /\ n.dim = "address" /\ r.dim = "user"
               \/ n.pc = "count" /\ n.dim = "target"
               \/ n.pc = "acquire"
               \/ r.kind = "upload" /\ n.pc = "check"
               \/ n.pc = "upload"
        BY <3>1, <3>3, PassedGoes
      <4> QED
        BY <3>1, <3>2, <4>1, <4>2 DEF IsAhead, DimsFrom, Counting
    <3>4. CASE ~(Hit(c) /\ n = Passed(r))
      <4>1. \/ r.pc = "new"
            \/ r.pc \in Counting /\ n.pc \in Counting /\ n.kind = r.kind /\ n.dim = r.dim
            \/ n.pc \in {"held", "acquire", "store", "clean", "over"}
            \/ r.pc = "check" /\ n.pc = "count" /\ n.kind = "issue"
        BY <1>1, <2>2, <3>1, <3>4, CallStep DEF Same
      <4> QED
        BY <3>1, <3>2, <4>1 DEF IsAhead, Counting
    <3> QED
      BY <3>3, <3>4
  <2> QED
    BY <2>1, <2>2
<1> QED
  BY <1>1 DEF Next, DeleteAccount, Tick, vars

(* The counter a request hits was before it, and is so no more.            *)
LEMMA HitIsBehind ==
  ASSUME ReportInv, NEW c \in Calls, Hit(c)
  PROVE  /\ IsAhead(call[c], call[c].kind, call[c].dim)
         /\ ~IsAhead(call'[c], call[c].kind, call[c].dim)
<1>1. PICK r \in Call, n \in Call : r = call[c] /\ n = call'[c]
  BY CallStep DEF Step
<1>2. r.pc \in Counting /\ r.dim \in Dims /\ (n = Passed(r) \/ n.pc = "over")
  <2>1. \/ call' = [call EXCEPT ![c] = Passed(r)]
        \/ End(c)
    BY <1>1, HitStep
  <2>2. call \in [Calls -> Call]
    BY DEF ReportInv, TypeOK
  <2>3. r.pc \in Counting /\ r.dim \in Dims
    BY <1>1, HitStep DEF Call
  <2>4. CASE call' = [call EXCEPT ![c] = Passed(r)]
    BY <1>1, <2>2, <2>3, <2>4
  <2>5. CASE End(c)
    BY <1>1, <2>2, <2>3, <2>5 DEF End, Call
  <2> QED
    BY <2>1, <2>4, <2>5
<1>3. IsAhead(r, r.kind, r.dim)
  BY <1>2 DEF IsAhead, DimsFrom, Dims
<1>4. CASE n.pc = "over"
  BY <1>1, <1>3, <1>4 DEF IsAhead, Counting
<1>5. CASE n = Passed(r)
  <2>1. /\ n.kind = r.kind
        /\ \/ n.pc = "count" /\ n.dim = "address" /\ r.dim = "user"
           \/ n.pc = "count" /\ n.dim = "target" /\ r.dim # "target" /\ r.kind # "upload"
           \/ n.pc = "acquire"
           \/ r.kind = "upload" /\ n.pc = "check"
           \/ n.pc = "upload"
    BY <1>1, <1>5, PassedGoes
  <2> QED
    BY <1>1, <1>2, <1>3, <2>1 DEF IsAhead, DimsFrom, Counting
<1> QED
  BY <1>2, <1>4, <1>5

(* CounterOK of a counter that may not exist yet.                          *)
TargetsOf(S) == {call[c].t : c \in S}

NumbersOK(x, k, T) ==
  /\ x.passed \cap x.refused = {}
  /\ k[2] # "target" =>
       /\ x.count = Cardinality(x.passed) + Cardinality(x.refused)
       /\ IF x.count <= Limit(k) THEN x.refused = {}
          ELSE Cardinality(x.passed) = Limit(k)
  /\ k[2] = "target" =>
       /\ IsFiniteSet(x.targets)
       /\ IF Cardinality(x.targets) <= Limit(k) THEN x.refused = {} /\ T = x.targets
          ELSE Cardinality(T) = Limit(k)

LEMMA CounterNumbers ==
  ASSUME NEW k \in Keys
  PROVE  CounterOK(k) <=>
           /\ \A c \in Counted(k) : ~IsAhead(call[c], k[1], k[2])
           /\ NumbersOK(counter[k], k, TargetsOf(counter[k].passed))
BY DEF CounterOK, NumbersOK, TargetsOf, Reached

LEMMA FiniteCounter ==
  ASSUME NEW x \in Counter
  PROVE  /\ IsFiniteSet(x.passed) /\ IsFiniteSet(x.refused)
         /\ Cardinality(x.passed) \in Nat /\ Cardinality(x.refused) \in Nat
BY SetAssumption, FS_Subset, FS_CardinalityType DEF Counter

LEMMA FoundNumbers ==
  ASSUME ReportInv, NEW k \in Keys
  PROVE  NumbersOK(Found(k), k, TargetsOf(Found(k).passed))
<1>1. CASE Exists(k)
  BY <1>1, CounterNumbers DEF ReportInv, Exists, Found
<1>2. CASE ~Exists(k)
  <2>1. Found(k) = NoCounter
    BY <1>2 DEF Found
  <2>2. Cardinality({}) = 0 /\ IsFiniteSet({})
    BY FS_EmptySet
  <2> QED
    BY <2>1, <2>2, LimitType DEF NumbersOK, NoCounter, TargetsOf
<1> QED
  BY <1>1, <1>2

(* One request more.                                                       *)
LEMMA CountMore ==
  ASSUME NEW k \in Keys, NEW old \in Counter, NEW T, NEW c \in Calls,
         NEW t \in Targets \cup Descriptions, NEW new \in Counter,
         k[2] # "target", NumbersOK(old, k, T), c \notin old.passed \cup old.refused,
         new.count = old.count + 1, new.targets = old.targets,
         \/ /\ new.count <= Limit(k)
            /\ new.passed = old.passed \cup {c} /\ new.refused = old.refused
         \/ /\ new.count > Limit(k)
            /\ new.passed = old.passed /\ new.refused = old.refused \cup {c}
  PROVE  \A U : NumbersOK(new, k, U)
<1>1. Limit(k) \in Nat /\ old.count \in Nat
  BY LimitType DEF Counter
<1>2. /\ IsFiniteSet(old.passed) /\ IsFiniteSet(old.refused)
      /\ Cardinality(old.passed) \in Nat /\ Cardinality(old.refused) \in Nat
  BY FiniteCounter
<1>3. /\ Cardinality(old.passed \cup {c}) = Cardinality(old.passed) + 1
      /\ Cardinality(old.refused \cup {c}) = Cardinality(old.refused) + 1
  BY <1>2, FS_AddElement
<1>4. /\ old.count = Cardinality(old.passed) + Cardinality(old.refused)
      /\ IF old.count <= Limit(k) THEN old.refused = {}
         ELSE Cardinality(old.passed) = Limit(k)
      /\ old.passed \cap old.refused = {}
  BY DEF NumbersOK
<1>5. Cardinality({}) = 0
  BY FS_EmptySet
<1>6. CASE new.count <= Limit(k)
  <2>1. old.count <= Limit(k) /\ old.refused = {}
    BY <1>1, <1>4, <1>6
  <2>2. new.passed = old.passed \cup {c} /\ new.refused = {}
    BY <1>1, <1>6, <2>1
  <2>3. new.count = Cardinality(new.passed) + Cardinality(new.refused)
    BY <1>2, <1>3, <1>4, <1>5, <2>1, <2>2
  <2> QED
    BY <1>6, <2>2, <2>3 DEF NumbersOK
<1>7. CASE new.count > Limit(k)
  <2>1. new.passed = old.passed /\ new.refused = old.refused \cup {c}
    BY <1>1, <1>7
  <2>2. new.count = Cardinality(new.passed) + Cardinality(new.refused)
    BY <1>2, <1>3, <1>4, <2>1
  <2>3. Cardinality(new.passed) = Limit(k)
    <3>1. CASE old.count <= Limit(k)
      <4>1. old.refused = {}
        BY <1>4, <3>1
      <4>2. Cardinality(old.refused) = 0
        BY <1>5, <4>1
      <4>3. old.count = Limit(k)
        BY <1>1, <1>7, <3>1
      <4> QED
        BY <1>2, <1>4, <2>1, <4>2, <4>3
    <3>2. CASE ~(old.count <= Limit(k))
      BY <1>4, <2>1, <3>2
    <3> QED
      BY <3>1, <3>2
  <2>4. new.passed \cap new.refused = {}
    BY <1>4, <2>1
  <2>5. ~(new.count <= Limit(k))
    BY <1>1, <1>7
  <2> QED
    BY <2>2, <2>3, <2>4, <2>5 DEF NumbersOK
<1> QED
  BY <1>1, <1>6, <1>7

(* One target more, or one of them again.                                  *)
LEMMA TargetMore ==
  ASSUME NEW k \in Keys, NEW old \in Counter, NEW T, NEW c \in Calls,
         NEW t \in Targets \cup Descriptions, NEW new \in Counter, NEW U,
         k[2] = "target", NumbersOK(old, k, T), c \notin old.passed \cup old.refused,
         new.targets = old.targets \cup {t},
         \/ /\ Cardinality(new.targets) <= Limit(k)
            /\ new.passed = old.passed \cup {c} /\ new.refused = old.refused
            /\ U = T \cup {t}
         \/ /\ Cardinality(new.targets) > Limit(k)
            /\ new.passed = old.passed /\ new.refused = old.refused \cup {c}
            /\ U = T
  PROVE  NumbersOK(new, k, U)
<1>1. Limit(k) \in Nat
  BY LimitType
<1>2. /\ IsFiniteSet(old.targets) /\ old.passed \cap old.refused = {}
      /\ IF Cardinality(old.targets) <= Limit(k) THEN old.refused = {} /\ T = old.targets
         ELSE Cardinality(T) = Limit(k)
  BY DEF NumbersOK
<1>3. /\ IsFiniteSet(new.targets) /\ Cardinality(old.targets) \in Nat
      /\ Cardinality(new.targets) = Cardinality(old.targets)
           \/ Cardinality(new.targets) = Cardinality(old.targets) + 1
  BY <1>2, FS_AddElement, FS_CardinalityType
<1>4. CASE Cardinality(new.targets) <= Limit(k)
  <2>1. Cardinality(old.targets) <= Limit(k)
    BY <1>1, <1>3, <1>4
  <2>2. new.refused = {} /\ U = new.targets
    BY <1>1, <1>2, <1>3, <1>4, <2>1
  <2> QED
    BY <1>3, <1>4, <2>2 DEF NumbersOK
<1>5. CASE ~(Cardinality(new.targets) <= Limit(k))
  <2>1. U = T /\ new.passed = old.passed /\ new.refused = old.refused \cup {c}
    BY <1>5
  <2>2. Cardinality(T) = Limit(k)
    BY <1>1, <1>2, <1>3, <1>5
  <2>3. new.passed \cap new.refused = {}
    BY <1>2, <2>1
  <2> QED
    BY <1>3, <1>5, <2>1, <2>2, <2>3 DEF NumbersOK
<1> QED
  BY <1>4, <1>5

(* The counters that are not hit.                                          *)
LEMMA CounterQuiet ==
  ASSUME ReportInv, [Next]_vars, NEW k \in DOMAIN counter,
         k \in DOMAIN counter', counter'[k] = counter[k]
  PROVE  CounterOK(k)'
<1>1. /\ k \in Keys /\ counter[k] \in Counter /\ CounterOK(k)
      /\ k[1] \in Kinds /\ k[2] \in Dims
  BY DEF ReportInv, TypeOK, Keys
<1>2. Counted(k) \subseteq Calls
  BY <1>1 DEF Counted, Counter
<1>3. \A c \in Counted(k) : ~IsAhead(call[c], k[1], k[2])
  BY <1>1 DEF CounterOK
<1>4. \A c \in Counted(k) : ~IsAhead(call'[c], k[1], k[2])
  BY <1>1, <1>2, <1>3, AheadShrinks
<1>5. \A c \in Counted(k) : call'[c].t = call[c].t
  BY <1>2, <1>3, AboutTheSame DEF IsAhead
<1>6. Reached(k)' = Reached(k)
  BY <1>5 DEF Reached, Counted
<1> QED
  BY <1>1, <1>4, <1>6 DEF CounterOK, Counted, Limit

(* The counter that is hit.                                                *)
LEMMA CounterHit ==
  ASSUME ReportInv, NEW c \in Calls, Hit(c)
  PROVE  \A k \in DOMAIN counter' : CounterOK(k)'
<1> DEFINE r == call[c]
<1>0. PICK q \in Keys : q = Key(r)
  BY HitStep
<1> DEFINE old == Found(q)
<1> DEFINE inc == Incremented(r)
<1>1. /\ r.pc \in Counting /\ r \in Call /\ r.t \in Targets \cup Descriptions
      /\ q \in Keys /\ q[1] = r.kind /\ q[2] = r.dim
      /\ r.kind \in Kinds /\ r.dim \in Dims
      /\ old \in Counter /\ inc \in Counter /\ [Next]_vars
  BY <1>0, HitStep DEF CallOK, Counting, Next, Step, Call
<1>2. /\ inc.count = old.count + 1
      /\ inc.targets = IF r.dim = "target" THEN old.targets \cup {r.t} ELSE old.targets
      /\ inc.passed = old.passed /\ inc.refused = old.refused
  BY <1>0, <1>1 DEF Incremented, Amount, Counter
<1>3. PICK new \in Counter :
        /\ Put(q, new)
        /\ new.count = inc.count /\ new.targets = inc.targets
        /\ \/ /\ Observed(r) <= Limit(q)
              /\ new.passed = old.passed \cup {c} /\ new.refused = old.refused
           \/ /\ Observed(r) > Limit(q)
              /\ new.passed = old.passed /\ new.refused = old.refused \cup {c}
  <2>1. CASE /\ Observed(r) <= Limit(q)
             /\ Put(q, [inc EXCEPT !.passed = inc.passed \cup {c}])
             /\ [inc EXCEPT !.passed = inc.passed \cup {c}] \in Counter
    BY <1>1, <1>2, <2>1 DEF Counter
  <2>2. CASE /\ Observed(r) > Limit(q)
             /\ Put(q, [inc EXCEPT !.refused = inc.refused \cup {c}])
             /\ [inc EXCEPT !.refused = inc.refused \cup {c}] \in Counter
    BY <1>1, <1>2, <2>2 DEF Counter
  <2> QED
    BY <1>0, <2>1, <2>2, HitStep
<1>4. /\ DOMAIN counter' = DOMAIN counter \cup {q}
      /\ counter'[q] = new
      /\ \A k \in DOMAIN counter : k # q => counter'[k] = counter[k]
  BY <1>3 DEF Put
<1>5. ASSUME NEW d \in Calls, d \in old.passed \cup old.refused
      PROVE  ~IsAhead(call[d], r.kind, r.dim)
  <2>1. CASE Exists(q)
    BY <1>1, <1>5, <2>1 DEF ReportInv, CounterOK, Exists, Found, Counted
  <2>2. CASE ~Exists(q)
    BY <1>5, <2>2 DEF Found, NoCounter
  <2> QED
    BY <2>1, <2>2
<1>6. c \notin old.passed \cup old.refused
  BY <1>5, HitIsBehind
<1>7. ASSUME NEW d \in Calls, d \in new.passed \cup new.refused
      PROVE  ~IsAhead(call'[d], r.kind, r.dim)
  <2>1. CASE d = c
    BY <2>1, HitIsBehind
  <2>2. CASE d # c
    <3>1. d \in old.passed \cup old.refused
      BY <1>3, <1>7, <2>2
    <3> QED
      BY <1>1, <1>5, <3>1, AheadShrinks
  <2> QED
    BY <2>1, <2>2
<1>8. \A d \in Calls : call[d].pc # "new" => call'[d].t = call[d].t
  BY <1>1, AboutTheSame
<1>9. new.passed \subseteq Calls /\ old.passed \subseteq Calls
  BY <1>1 DEF Counter
<1>10. \A d \in new.passed : call'[d].t = call[d].t
  <2>1. \A d \in old.passed : call[d].pc # "new"
    BY <1>5, <1>9 DEF IsAhead
  <2>2. call[c].pc # "new"
    BY <1>1 DEF Counting
  <2> QED
    BY <1>3, <1>8, <1>9, <2>1, <2>2
<1>11. {call'[d].t : d \in new.passed} = TargetsOf(new.passed)
  BY <1>10 DEF TargetsOf
<1>12. NumbersOK(old, q, TargetsOf(old.passed))
  BY <1>1, FoundNumbers
<1>13. NumbersOK(new, q, TargetsOf(new.passed))
  <2>1. CASE r.dim = "target"
    <3>1. Observed(r) = Cardinality(new.targets) /\ new.targets = old.targets \cup {r.t}
      BY <1>2, <1>3, <2>1 DEF Observed
    <3>2. TargetsOf(old.passed \cup {c}) = TargetsOf(old.passed) \cup {r.t}
      BY DEF TargetsOf
    <3>3. \/ /\ Cardinality(new.targets) <= Limit(q)
             /\ new.passed = old.passed \cup {c} /\ new.refused = old.refused
             /\ TargetsOf(new.passed) = TargetsOf(old.passed) \cup {r.t}
          \/ /\ Cardinality(new.targets) > Limit(q)
             /\ new.passed = old.passed /\ new.refused = old.refused \cup {c}
             /\ TargetsOf(new.passed) = TargetsOf(old.passed)
      BY <1>3, <3>1, <3>2
    <3>4. q[2] = "target" /\ r.t \in Targets \cup Descriptions /\ old \in Counter
      BY <1>1, <2>1
    <3>5. new.targets = old.targets \cup {r.t}
      BY <3>1
    <3> HIDE DEF r, old
    <3> QED
      BY <1>6, <1>12, <3>3, <3>4, <3>5, TargetMore
  <2>2. CASE r.dim # "target"
    <3>1. /\ Observed(r) = new.count /\ new.targets = old.targets
          /\ new.count = old.count + 1
      BY <1>2, <1>3, <2>2 DEF Observed
    <3>2. \/ /\ new.count <= Limit(q)
             /\ new.passed = old.passed \cup {c} /\ new.refused = old.refused
          \/ /\ new.count > Limit(q)
             /\ new.passed = old.passed /\ new.refused = old.refused \cup {c}
      BY <1>3, <3>1
    <3> QED
      BY <1>1, <1>6, <1>12, <2>2, <3>1, <3>2, CountMore
  <2> QED
    BY <2>1, <2>2
<1> HIDE DEF r, old, inc
<1>14. CounterOK(q)'
  <2>1. Counted(q)' = new.passed \cup new.refused
    BY <1>4 DEF Counted
  <2>2. \A d \in new.passed \cup new.refused : ~IsAhead(call'[d], q[1], q[2])
    BY <1>1, <1>7 DEF Counter
  <2>3. q[2] = "target" => Reached(q)' = TargetsOf(new.passed)
    BY <1>4, <1>11 DEF Reached
  <2> QED
    BY <1>4, <1>13, <2>1, <2>2, <2>3 DEF CounterOK, NumbersOK, Limit
<1>15. ASSUME NEW k \in DOMAIN counter', k # q
       PROVE  CounterOK(k)'
  <2>1. k \in DOMAIN counter /\ counter'[k] = counter[k]
    BY <1>4, <1>15
  <2>2. [Next]_vars
    BY <1>1
  <2> QED
    BY <2>1, <2>2, CounterQuiet
<1> QED
  BY <1>14, <1>15

LEMMA CounterStep ==
  ASSUME ReportInv, [Next]_vars
  PROVE  (\A k \in DOMAIN counter : CounterOK(k))'
<1>1. CASE \E c \in Calls : Hit(c)
  BY <1>1, CounterHit
<1>2. CASE ~\E c \in Calls : Hit(c)
  <2>1. counter' = counter
    BY <1>2 DEF Next, vars, DeleteAccount, Tick, Step, Arrive, ReportContent, ReportIssue,
       MissCounter, DuplicateCounter, Acquire, CommitReport, RunAgain, CheckIssue,
       UploadEvidence, StoreIssue, NotStored, CleanEvidence, Fail
  <2>2. \A k \in DOMAIN counter : CounterOK(k)'
    BY <2>1, CounterQuiet
  <2> QED
    BY <2>1, <2>2
<1> QED
  BY <1>1, <1>2

-----------------------------------------------------------------------------
(* Addresses                                                               *)

(* What a counter has let through it does not forget.                      *)
LEMMA CountersGrow ==
  ASSUME ReportInv, [Next]_vars, NEW k \in DOMAIN counter
  PROVE  k \in DOMAIN counter' /\ counter[k].passed \subseteq counter'[k].passed
<1>1. ASSUME NEW c \in Calls, Hit(c)
      PROVE  k \in DOMAIN counter' /\ counter[k].passed \subseteq counter'[k].passed
  <2>1. PICK q \in Keys, inc \in Counter :
          /\ q = Key(call[c]) /\ inc = Incremented(call[c])
          /\ \/ Put(q, [inc EXCEPT !.passed = inc.passed \cup {c}])
             \/ Put(q, [inc EXCEPT !.refused = inc.refused \cup {c}])
    BY <1>1, HitStep
  <2>2. CASE q # k
    BY <2>1, <2>2 DEF Put
  <2>3. CASE q = k
    <3>1. Found(q) = counter[k] /\ counter[k] \in Counter
      BY <2>3 DEF Found, Exists, ReportInv, TypeOK
    <3>2. inc.passed = counter[k].passed
      BY <2>1, <3>1 DEF Incremented, Counter
    <3>3. /\ [inc EXCEPT !.passed = inc.passed \cup {c}].passed = inc.passed \cup {c}
          /\ [inc EXCEPT !.refused = inc.refused \cup {c}].passed = inc.passed
      BY <2>1 DEF Counter
    <3> QED
      BY <2>1, <2>3, <3>2, <3>3 DEF Put
  <2> QED
    BY <2>2, <2>3
<1>2. CASE ~\E c \in Calls : Hit(c)
  BY <1>2 DEF Next, vars, DeleteAccount, Tick, Step, Arrive, ReportContent, ReportIssue,
     MissCounter, DuplicateCounter, Acquire, CommitReport, RunAgain, CheckIssue,
     UploadEvidence, StoreIssue, NotStored, CleanEvidence, Fail
<1> QED
  BY <1>1, <1>2

LEMMA PassedStays ==
  ASSUME ReportInv, [Next]_vars, NEW d \in Calls, call[d].pc # "new",
         NEW kind, NEW bucket, PassedUser(call[d], d, kind, bucket)
  PROVE  /\ call'[d].u \in Users
         /\ <<kind, "user", call'[d].u, bucket>> \in DOMAIN counter'
         /\ d \in counter'[<<kind, "user", call'[d].u, bucket>>].passed
<1>1. PICK k \in DOMAIN counter :
        k = <<kind, "user", call[d].u, bucket>> /\ d \in counter[k].passed
  BY DEF PassedUser, Exists
<1>2. k \in DOMAIN counter' /\ d \in counter'[k].passed
  BY <1>1, CountersGrow
<1>3. call'[d].u = call[d].u /\ call[d].u \in Users
  BY AboutTheSame DEF PassedUser
<1> QED
  BY <1>1, <1>2, <1>3

(* A request that goes on to its address was just let through.             *)
LEMMA ToAddress ==
  ASSUME ReportInv, [Next]_vars, NEW d \in Calls,
         call'[d].pc \in Counting, call'[d].dim = "address"
  PROVE  PassedUser(call[d], d, call[d].kind, call[d].bucket)'
<1>1. CASE /\ call[d].pc \in Counting /\ call[d].dim = "address"
           /\ call'[d].kind = call[d].kind /\ call'[d].bucket = call[d].bucket
  <2>1. PassedUser(call[d], d, call[d].kind, call[d].bucket)
    BY <1>1 DEF ReportInv, AddressOK
  <2>2. call[d].pc # "new"
    BY <1>1 DEF Counting
  <2> QED
    BY <1>1, <2>1, <2>2, PassedStays DEF PassedUser, Exists
<1>2. ASSUME NEW c \in Calls, Step(c)
      PROVE  PassedUser(call[d], d, call[d].kind, call[d].bucket)'
  <2>1. CASE c # d
    <3>1. call'[d] = call[d]
      BY <1>2, <2>1, CallType DEF ReportInv, TypeOK
    <3> QED
      BY <1>1, <3>1
  <2>2. CASE c = d
    <3>1. PICK r \in Call, n \in Call : r = call[d] /\ n = call'[d]
      BY <1>2, <2>2, CallStep
    <3>2. CASE Hit(c) /\ n = Passed(r)
      <4>1. r.dim = "user" /\ n.kind = r.kind /\ n.bucket = r.bucket /\ n.u = r.u
        BY <3>1, <3>2, PassedGoes DEF Counting
      <4>2. n.u \in Users /\ r.pc # "over"
        BY <2>2, <3>1, <3>2, <4>1, HitStep DEF CallOK, Counting
      <4>3. PICK q \in Keys, inc \in Counter :
              /\ q = Key(r)
              /\ \/ Put(q, [inc EXCEPT !.passed = inc.passed \cup {d}])
                 \/ End(d)
        BY <2>2, <3>1, <3>2, HitStep
      <4>4. n.pc # "over"
        BY <3>1 DEF Counting
      <4>5. ~End(d)
        BY <3>1, <4>4 DEF End, ReportInv, TypeOK, Call
      <4>6. /\ [inc EXCEPT !.passed = inc.passed \cup {d}].passed = inc.passed \cup {d}
        BY <4>3 DEF Counter
      <4>7. q \in DOMAIN counter' /\ d \in counter'[q].passed
        BY <4>3, <4>5, <4>6 DEF Put
      <4>8. q = <<n.kind, "user", n.u, n.bucket>>
        BY <4>1, <4>3 DEF Key
      <4> QED
        BY <3>1, <4>2, <4>7, <4>8 DEF PassedUser, Exists
    <3>3. CASE ~(Hit(c) /\ n = Passed(r))
      <4>1. r.pc \in Counting /\ n.dim = r.dim /\ n.kind = r.kind /\ n.bucket = r.bucket
        BY <1>2, <2>2, <3>1, <3>3, CallStep DEF Same, Counting
      <4> QED
        BY <1>1, <3>1, <4>1
    <3> QED
      BY <3>2, <3>3
  <2> QED
    BY <2>1, <2>2
<1>3. CASE call' = call
  BY <1>1, <1>3
<1> QED
  BY <1>2, <1>3 DEF Next, DeleteAccount, Tick, vars

LEMMA AddressStep ==
  ASSUME ReportInv, [Next]_vars
  PROVE  AddressOK'
<1>1. \A d \in Calls : call'[d].pc \in Counting /\ call'[d].dim = "address" =>
        PassedUser(call[d], d, call[d].kind, call[d].bucket)'
  BY ToAddress
<1>2. ASSUME NEW k \in DOMAIN counter', k[2] = "address",
             NEW d \in counter'[k].passed \cup counter'[k].refused
      PROVE  PassedUser(call[d], d, k[1], k[4])'
  <2>1. CASE k \in DOMAIN counter /\ d \in Counted(k)
    <3>1. /\ k \in Keys /\ d \in Calls /\ CounterOK(k)
          /\ PassedUser(call[d], d, k[1], k[4])
      BY <1>2, <2>1 DEF ReportInv, AddressOK, TypeOK, Counted, Counter
    <3>2. call[d].pc # "new"
      BY <2>1, <3>1 DEF CounterOK, IsAhead
    <3> QED
      BY <3>1, <3>2, PassedStays DEF PassedUser, Exists
  <2>2. CASE ~(k \in DOMAIN counter /\ d \in Counted(k))
    <3>1. PICK c \in Calls : Hit(c)
      BY <1>2, <2>2 DEF Next, vars, DeleteAccount, Tick, Step, Arrive, ReportContent,
         ReportIssue, MissCounter, DuplicateCounter, Acquire, CommitReport, RunAgain,
         CheckIssue, UploadEvidence, StoreIssue, NotStored, CleanEvidence, Fail, Counted
    <3>2. PICK q \in Keys, inc \in Counter :
            /\ q = Key(call[c]) /\ inc = Incremented(call[c])
            /\ q[1] = call[c].kind /\ q[2] = call[c].dim /\ q[4] = call[c].bucket
            /\ call[c].pc \in Counting
            /\ \/ Put(q, [inc EXCEPT !.passed = inc.passed \cup {c}])
               \/ Put(q, [inc EXCEPT !.refused = inc.refused \cup {c}])
      BY <3>1, HitStep
    <3>3. k = q
      BY <1>2, <2>2, <3>2 DEF Put, Counted
    <3>4. d = c
      <4>1. inc.passed = Found(q).passed /\ inc.refused = Found(q).refused
        <5>1. Found(q) \in Counter
          BY <3>1, <3>2, HitStep
        <5> QED
          BY <3>2, <5>1 DEF Incremented, Counter
      <4>2. d \notin inc.passed \cup inc.refused
        BY <2>2, <3>3, <4>1 DEF Found, Exists, NoCounter, Counted
      <4>3. \/ counter'[k] = [inc EXCEPT !.passed = inc.passed \cup {c}]
            \/ counter'[k] = [inc EXCEPT !.refused = inc.refused \cup {c}]
        BY <3>2, <3>3 DEF Put
      <4>4. d \in inc.passed \cup inc.refused \cup {c}
        BY <1>2, <3>2, <4>3 DEF Counter
      <4> QED
        BY <4>2, <4>4
    <3>5. PassedUser(call[d], d, k[1], k[4])
      BY <1>2, <3>2, <3>3, <3>4 DEF ReportInv, AddressOK
    <3>6. call[d].pc # "new"
      BY <3>2, <3>4 DEF Counting
    <3> QED
      BY <3>4, <3>5, <3>6, PassedStays DEF PassedUser, Exists
  <2> QED
    BY <2>1, <2>2
<1> QED
  BY <1>1, <1>2 DEF AddressOK, Counted

-----------------------------------------------------------------------------
(* Theorems                                                                *)

LEMMA ReportInit == Init => ReportInv
<1> SUFFICES ASSUME Init PROVE ReportInv
  OBVIOUS
<1>1. \A c \in Calls : call[c] = New
  BY DEF Init
<1>2. /\ DOMAIN counter = {} /\ reports = {} /\ now = 0
      /\ call = [c \in Calls |-> New] /\ image = {} /\ gone = {}
      /\ counter = [k \in {} |-> NoCounter]
      /\ cooldown = [u \in Users |-> [t \in Targets |-> 0]]
  BY DEF Init
<1>3. New \in Call
  BY TimeAssumption DEF New, Call, Kinds, Dims, Buckets, Times
<1>4. TypeOK
  BY <1>2, <1>3, TimeAssumption DEF TypeOK, Times
<1>5. \A c \in Calls : CallOK(call[c])
  BY <1>1, <1>2 DEF CallOK, New, Counting
<1>6. AddressOK /\ CooldownOK /\ ReportsOK
  BY <1>1, <1>2 DEF AddressOK, CooldownOK, ReportsOK, New, Counting
<1> QED
  BY <1>2, <1>4, <1>5, <1>6 DEF ReportInv, OneReportPerCooldown, IssuesApart

(* Reporting, for any number of accounts, addresses, targets and requests: *)
(* the inductive invariant (reports.service.ts, report-rate-limit.service  *)
(* .ts).                                                                   *)
THEOREM ReportCorrect == Spec => []ReportInv
<1>1. ReportInv /\ [Next]_vars => ReportInv'
  <2> SUFFICES ASSUME ReportInv, [Next]_vars
               PROVE  ReportInv'
    OBVIOUS
  <2>1. TypeOK' /\ AddressOK' /\ CooldownOK' /\ ReportsOK'
        /\ OneReportPerCooldown' /\ IssuesApart'
    BY TypeStep, AddressStep, CooldownStep, ReportsStep
  <2>2. (\A c \in Calls : CallOK(call[c]))'
    BY CallOKStep
  <2>3. (\A k \in DOMAIN counter : CounterOK(k))'
    BY CounterStep
  <2> QED
    BY <2>1, <2>2, <2>3 DEF ReportInv
<1> QED
  BY <1>1, ReportInit, PTL DEF Spec

(* The numbers of a counter tell what it let through.                      *)
LEMMA CounterIsExact ==
  ASSUME ReportInv, NEW k \in DOMAIN counter
  PROVE  /\ Cardinality(Reached(k)) <= Limit(k)
         /\ counter[k].refused # {} => Cardinality(Reached(k)) = Limit(k)
<1> DEFINE x == counter[k]
<1>1. x \in Counter /\ CounterOK(k) /\ Limit(k) \in Nat
  BY LimitType DEF ReportInv, TypeOK
<1>2. Cardinality(x.passed) \in Nat /\ Cardinality(x.refused) \in Nat
  BY <1>1, FiniteCounter
<1>3. CASE k[2] = "target"
  BY <1>1, <1>3 DEF CounterOK
<1>4. CASE k[2] # "target"
  <2>1. Reached(k) = x.passed
    BY <1>4 DEF Reached
  <2>2. /\ x.count = Cardinality(x.passed) + Cardinality(x.refused)
        /\ IF x.count <= Limit(k) THEN x.refused = {}
           ELSE Cardinality(x.passed) = Limit(k)
    BY <1>1, <1>4 DEF CounterOK
  <2>3. CASE x.count <= Limit(k)
    BY <1>1, <1>2, <2>1, <2>2, <2>3
  <2>4. CASE ~(x.count <= Limit(k))
    BY <1>1, <2>1, <2>2, <2>4
  <2> QED
    BY <2>3, <2>4
<1> QED
  BY <1>3, <1>4

(* A counter lets through what its policy says and refuses nobody before,  *)
(* for any number of racing requests (incrementCounter).                   *)
THEOREM QuotasAreExact == Spec => []QuotaExact
<1>1. ReportInv => QuotaExact
  BY CounterIsExact DEF QuotaExact
<1> QED
  BY <1>1, ReportCorrect, PTL

(* Nobody takes more of the quota of an address than its own quota: the    *)
(* counter of the account comes first (consume).                           *)
THEOREM AddressesAreSpared == Spec => []AddressSpared
<1>1. ASSUME ReportInv, NEW k \in DOMAIN counter, k[2] = "address", NEW u \in Users
      PROVE  Cardinality({c \in Counted(k) : call[c].u = u}) <= UserLimit[k[1]]
  <2> DEFINE S == {c \in Counted(k) : call[c].u = u}
  <2>1. /\ k \in Keys /\ k[1] \in Kinds /\ UserLimit[k[1]] \in Nat
    BY <1>1, PolicyAssumption DEF ReportInv, TypeOK, Keys
  <2>2. CASE S = {}
    <3>1. Cardinality({}) = 0
      BY FS_EmptySet
    <3>2. Cardinality(S) = 0
      BY <2>2, <3>1
    <3> QED
      BY <2>1, <3>2
  <2>3. CASE S # {}
    <3>1. \A c \in S : PassedUser(call[c], c, k[1], k[4]) /\ call[c].u = u
      BY <1>1 DEF ReportInv, AddressOK
    <3>2. PICK q \in DOMAIN counter : q = <<k[1], "user", u, k[4]>>
      BY <2>3, <3>1 DEF PassedUser, Exists
    <3>3. S \subseteq counter[q].passed
      BY <3>1, <3>2 DEF PassedUser
    <3>4. q \in Keys /\ counter[q] \in Counter /\ q[2] = "user" /\ q[1] = k[1]
      BY <1>1, <3>2 DEF ReportInv, TypeOK
    <3>5. Cardinality(S) <= Cardinality(counter[q].passed)
      BY <3>3, <3>4, FiniteCounter, FS_Subset
    <3>6. Reached(q) = counter[q].passed /\ Limit(q) = UserLimit[k[1]]
      BY <3>4 DEF Reached, Limit
    <3>7. Cardinality(counter[q].passed) <= UserLimit[k[1]]
      BY <1>1, <3>6, CounterIsExact
    <3>8. Cardinality(S) \in Nat /\ Cardinality(counter[q].passed) \in Nat
      BY <3>3, <3>4, FiniteCounter, FS_Subset, FS_CardinalityType
    <3> QED
      BY <2>1, <3>5, <3>7, <3>8
  <2> QED
    BY <2>2, <2>3
<1>2. ReportInv => AddressSpared
  BY <1>1 DEF AddressSpared, Counted
<1> QED
  BY <1>2, ReportCorrect, PTL

(* Two reports of one target by one account are a cooldown apart           *)
(* (acquireReportCooldown).                                                *)
THEOREM CooldownsHold == Spec => []OneReportPerCooldown
<1>1. ReportInv => OneReportPerCooldown
  BY DEF ReportInv
<1> QED
  BY <1>1, ReportCorrect, PTL

(* Two reports of one issue by one account are a window apart, or were     *)
(* under way together (dedupeKey).                                         *)
THEOREM IssuesAreApart == Spec => []IssuesApart
<1>1. ReportInv => IssuesApart
  BY DEF ReportInv
<1> QED
  BY <1>1, ReportCorrect, PTL
=================================================================================
