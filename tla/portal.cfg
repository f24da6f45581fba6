\* Two workers of the portals, one of them also at the driver door; or one page of the
\* administrator's.  Requests are bounded, so the system may come to rest.
SPECIFICATION SumSpec
CONSTANTS
  Worker = {w1, w2}
  DoorDriver = {w1}
  Vehicle = {v1, v2}
  Nobody = Nobody
  NoVehicle = NoVehicle
  MaxShifts = 3
  MaxTrips = 3
  MaxSessions = 4
  MaxReading = 2
  MaxRequests = 5
  MaxFaults = 1
  Opened <- SmallPages
  Subject = {x1, x2}
  Nothing = Nothing
  MaxWrites = 2
  MaxTurns = 3
  MaxSaves = 2
  MaxLost = 1
CHECK_DEADLOCK FALSE
INVARIANTS
  TrackingMatchesWork HeldWhileOut ShownIsCurrent
PROPERTIES
  OnlyClockOutEndsTheDay ClockOutStopsTracking OdometerForward
