\* Two pages of one person, three taps, two tracking sessions, one loss.
SPECIFICATION FairSpec
CONSTANTS
  Page = {p1, p2}
  MaxTaps = 2
  MaxSession = 2
  MaxElsewhere = 1
  MaxLosses = 1
  MaxReads = 1
  Unknown = Unknown
CHECK_DEADLOCK FALSE
PROPERTIES
  BusyEnds
  RecordingStops
