\* Two runs and a status change on one report, each with up to two attempts.
SPECIFICATION Spec
CONSTANTS
  Reports = {r1}
  Workers = {k1, k2}
  Admins = {a1}
  NoReport = NoReport
  Retention = 1
  LockTime = 1
  RetryDelay = 2
  MaxAttempts = 2
  Budget = 2
  MaxClock = 6
SYMMETRY Symmetry
\* Everything may have been cleaned up by the end of time.
CHECK_DEADLOCK FALSE
INVARIANTS
  EvidenceFollowsReport
  NoReportStranded
PROPERTIES
  DecisionsHonoured
