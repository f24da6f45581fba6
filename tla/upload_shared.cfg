SPECIFICATION FairSpec
CONSTANTS
  Request = {r1}
  MaxCollectors = 2
  MaxSessions = 2
  MaxTime = 1
  Skew = 0
  Tolerance = 1
  MinInterval = 1
  MaxBacklog = 0
  Unfit = {0}
  MaxQueued = 2
  BatchSize = 1
  NoRequest = NoRequest
  MaxFaults = 1
CHECK_DEADLOCK FALSE
PROPERTIES
  AcknowledgedOnly
  Drains
