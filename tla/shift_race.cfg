SPECIFICATION Spec
CONSTANTS
  Device = {r1,r2}
  Office = {}
  Worker = {w1,w2}
  Driver = {w1,w2}
  Vehicle = {v1}
  Position = {line, wheel}
  Nobody = Nobody
  Nowhere = Nowhere
  NoVehicle = NoVehicle
  MaxShifts = 2
  MaxBreaks = 0
  MaxSessions = 2
  MaxTime = 0
  MaxBacklog = 0
  MaxSkew = 0
  MaxShiftDuration = 1
  Sweeping = FALSE
  Correcting = FALSE
  PortalTrips = TRUE
SYMMETRY Interchangeable
CHECK_DEADLOCK FALSE
INVARIANTS
  NoDoubleBooking
  TripRunsWithItsSession
