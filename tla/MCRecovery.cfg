\* Three requests of every kind on one account, into the third window.
SPECIFICATION RecoverySpec
CONSTANTS
  Calls = {c1, c2, c3}
  MaxAttempts = 1
  OtpCooldown = 1
  OtpLife = 2
  MaxFailed = 2
  FailureWindow = 2
  LockDuration = 2
  Limit <- MCLimit
  Window = 2
  MaxTime = 4
  NoCode = NoCode
  NoTime = NoTime
SYMMETRY Symmetry
\* The requests and the time of an instance come to an end.
CHECK_DEADLOCK FALSE
INVARIANTS
  WindowExact
  GuessesBounded
  OneResetPerCode
  LockMeansFailures
  CooldownMeansCode
PROPERTIES
  LoginsKeepLock
