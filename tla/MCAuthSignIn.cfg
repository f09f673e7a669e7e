\* Sign-ins against everything that changes the account they sign in to.
SPECIFICATION Spec
CONSTANTS
  Users = {u1}
  Sids = {s1, s2}
  Procs = {p1, p2}
  NoUser = NoUser
  NoSid = NoSid
  MaxPw = 2
  MaxVersion = 0
  Ops = {"login", "wrongPassword", "google", "change", "reset", "delete",
         "link", "unlink", "status", "register", "googleRegister"}
SYMMETRY Symmetry
\* The bounds on passwords and sessions stop the instance.
CHECK_DEADLOCK FALSE
INVARIANTS
  CredentialBinding
PROPERTIES
  IssuedToEligible
