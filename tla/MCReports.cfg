\* Two requests of two accounts behind one address.
SPECIFICATION Spec
CONSTANTS
  u1 = u1
  u2 = u2
  Users = {u1, u2}
  Addresses = {a1}
  Targets = {t1}
  Descriptions = {d1, d2}
  Calls = {c1, c2}
  OwnerOf <- MCOwnerOf
  UserLimit <- MCUserLimit
  AddressLimit <- MCAddressLimit
  TargetLimit <- MCTargetLimit
  Window = 2
  DuplicateWindow = 1
  Cooldown <- MCCooldown
  MaxTime = 3
  NoAddress = NoAddress
  NoUser = NoUser
  NoTarget = NoTarget
SYMMETRY Symmetry
\* The requests and the time of an instance come to an end.
CHECK_DEADLOCK FALSE
INVARIANTS
  QuotaExact
  AddressSpared
  OneReportPerCooldown
  IssuesApart
