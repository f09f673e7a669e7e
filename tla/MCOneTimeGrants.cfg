\* Two flows in two browsers, two requests at once, two accounts.
SPECIFICATION Spec
CONSTANTS
  Flows = {f1, f2}
  Browsers = {b1, b2}
  Calls = {c1, c2}
  Subjects = {x1}
  Users = {u1, u2}
  NoFlow = NoFlow
  NoBrowser = NoBrowser
  NoSubject = NoSubject
  NoUser = NoUser
SYMMETRY Symmetry
\* The flows of an instance come to an end.
CHECK_DEADLOCK FALSE
INVARIANTS
  SecretsUsedOnce
  BoundToBrowser
  GrantIsItsEffect
  OneToOne
  AsGranted
