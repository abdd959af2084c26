SPECIFICATION ReplaySpec
CONSTANTS
  n0 = n0
  n1 = n1
  n2 = n2
  Node = {n0, n1, n2}
  AnchorCount = 2
  TelemetryTtl = 1
  RangeTtl = 1
  AltitudeTtl = 1
  SolveInterval = 2
  MinAnchorQuality = 0
  ClockMod = 100
  AltitudeValue = {}
  IgnoreAltitude = FALSE
  AllowDeniedGnssAlt = TRUE
  RetainRange = TRUE
  LocalNode = n0
  Heard = {n1, n2}
  TelemetryKind = {"gnss"}
  ValidRange = {"good"}
  Commanded = {}
  MaxTime = 3
  Recording <- Recordings
  FaultyColumn = {"lat_e7", "vel_n_mmps"}
SYMMETRY PeerSymmetry
INVARIANTS
  UnchangedMeansCurrent
  RadioFixRecent
  ZeroMeansAllWell
PROPERTIES
  DueTickDecides
  ImplementsHost
