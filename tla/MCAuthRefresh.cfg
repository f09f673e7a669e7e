\* Refresh, logout and revocation against each other and account deletion.
SPECIFICATION Spec
CONSTANTS
  Users = {u1}
  Sids = {s1, s2}
  Procs = {p1, p2}
  NoUser = NoUser
  NoSid = NoSid
  MaxPw = 1
  MaxVersion = 2
  Ops = {"login", "delete", "refresh", "logout", "revokeOther", "logoutAll",
         "status", "register"}
SYMMETRY Symmetry
\* The bounds on versions and sessions stop the instance.
CHECK_DEADLOCK FALSE
INVARIANTS
  RotatedOncePerToken
  AuditedExactlyOnce
  ReplayOnlyIfSuperseded
PROPERTIES
  RevocationIsFinal
