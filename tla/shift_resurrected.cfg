SPECIFICATION Spec
CONSTANTS
  Device = {r1,r2}
  Office = {}
  Worker = {w1}
  Driver = {w1}
  Vehicle = {v1}
  Position = {line, wheel}
  Nobody = Nobody
  Nowhere = Nowhere
  NoVehicle = NoVehicle
  MaxShifts = 1
  MaxBreaks = 1
  MaxSessions = 1
  MaxTime = 1
  MaxBacklog = 0
  MaxSkew = 0
  MaxShiftDuration = 1
  Sweeping = FALSE
  Correcting = FALSE
  PortalTrips = FALSE
SYMMETRY Interchangeable
CHECK_DEADLOCK FALSE
PROPERTIES
  CompletedIsFinal
