\* Four requests at one moment: two wrong logins and a wrong code between them.
SPECIFICATION RecoverySpec
CONSTANTS
  Calls = {c1, c2, c3, c4}
  MaxAttempts = 1
  OtpCooldown = 1
  OtpLife = 2
  MaxFailed = 2
  FailureWindow = 2
  LockDuration = 2
  Limit <- MCLimit
  Window = 2
  MaxTime = 0
  NoCode = NoCode
  NoTime = NoTime
SYMMETRY Symmetry
\* The requests of an instance come to an end.
CHECK_DEADLOCK FALSE
PROPERTIES
  LockStands
