SPECIFICATION Spec
CONSTANTS
  Request = {r1,r2}
  MaxCollectors = 1
  MaxSessions = 2
  MaxTime = 2
  Skew = 0
  Tolerance = 1
  MinInterval = 1
  MaxBacklog = 0
  Unfit = {}
  MaxQueued = 2
  BatchSize = 2
  NoRequest = NoRequest
  MaxFaults = 1
SYMMETRY Interchangeable
CHECK_DEADLOCK FALSE
INVARIANTS
  StoredOnce
  MeasuredIsStored
PROPERTIES
  ClosedOnce
