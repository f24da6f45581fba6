SPECIFICATION SumSpec
CONSTANTS
  MaxTime = 4
  MaxAccuracy = 1
  SpeedAccuracy = 1
  MaxSpeed = 1
  MinSegment = 1
  MaxGap = 3
  StopRadius = 1
  MinStop = 2
  Stale = 2
  FenceRadius = 0
  Hysteresis = 1
  Debounce = 1
  Limit = 1
  MinSustained = 1
  Cooldown = 3
  Fence <- AtOrigin
  Readings <- SmallReadings
  TripTimes = {2}
  MaxPoints = 5
  Second = 2
  Horizon = 3
  MaxBatch = 2
  MaxBreaks = 3
  MaxEvents = 4
CHECK_DEADLOCK FALSE
INVARIANTS
  LogHonest
  RouteHonest
  SecondsCountOnce
