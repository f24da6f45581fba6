SPECIFICATION Spec
CONSTANTS
  Device = {r1}
  Office = {o1}
  Worker = {w1}
  Driver = {w1}
  Vehicle = {}
  Position = {line, wheel}
  Nobody = Nobody
  Nowhere = Nowhere
  NoVehicle = NoVehicle
  MaxShifts = 2
  MaxBreaks = 1
  MaxSessions = 2
  MaxTime = 1
  MaxBacklog = 0
  MaxSkew = 0
  MaxShiftDuration = 0
  Sweeping = TRUE
  Correcting = TRUE
  PortalTrips = FALSE
SYMMETRY Interchangeable
CHECK_DEADLOCK FALSE
PROPERTIES
  EndedSessionFrozen
