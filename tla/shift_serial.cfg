SPECIFICATION Spec
CONSTANTS
  Device = {r1}
  Office = {}
  Worker = {w1}
  Driver = {w1}
  Vehicle = {v1,v2}
  Position = {line, wheel}
  Nobody = Nobody
  Nowhere = Nowhere
  NoVehicle = NoVehicle
  MaxShifts = 1
  MaxBreaks = 1
  MaxSessions = 3
  MaxTime = 1
  MaxBacklog = 1
  MaxSkew = 0
  MaxShiftDuration = 1
  Sweeping = FALSE
  Correcting = FALSE
  PortalTrips = TRUE
SYMMETRY Interchangeable
CHECK_DEADLOCK FALSE
INVARIANTS
  OnBreakIffOpenBreak
  CompletedIsSettled
  SessionsDisjoint
  DrivenVehicleHeld
  NoTripAfterShift
