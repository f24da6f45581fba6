SPECIFICATION Spec
CONSTANTS
  Person = {p1}
  Account = {a1, a2}
  Address = {e1, e2}
  Pin = {n1, n2}
  Request = {r1, r2}
  None = None
  MaxSessions = 2
  MaxRequests = 5
  MaxTime = 1
  MaxCrashes = 1
  Ttl = 1
  PinPolicy <- SmallPinPolicy
  PasswordPolicy <- SmallPasswordPolicy
SYMMETRY Interchangeable
CHECK_DEADLOCK FALSE
INVARIANTS
  ContextIsWhole
  ChangeEndsSessions
  DoorsAgree
PROPERTIES
  EndedSessionsFinal
