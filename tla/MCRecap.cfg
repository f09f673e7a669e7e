\* Two workers on two weeks: late workers against claims and reruns, one week at a
\* time, and every week is resolved in the end.
SPECIFICATION FairSpec
CONSTANTS
  Weeks = {1, 2}
  Workers = {k1, k2}
  NoWeek = 0
  MaxWeeks = 1
  MaxFaults = 1
  MaxForced = 1
\* When every week is resolved there is nothing to catch up.
CHECK_DEADLOCK FALSE
INVARIANTS
  CompletedMeansDone
  LeaseIsExclusive
PROPERTIES
  CompletedIsKept
  EveryWeekResolved
