SPECIFICATION Spec
CONSTANTS
  Node = {0, 1}
  AnchorCount = 1
  TelemetryTtl = 2
  RangeTtl = 2
  AltitudeTtl = 1
  SolveInterval = 1
  MinAnchorQuality = 0
  ClockMod = 100
  AltitudeValue = {1}
  IgnoreAltitude = FALSE
  AllowDeniedGnssAlt = FALSE
  RetainRange = FALSE
  LocalNode = 0
  Heard = {1}
  TelemetryKind = {"gnss", "estimated"}
  ValidRange = {"good"}
  Commanded = {}
  MaxTime = 3
  n0 = n0
  n1 = n1
  n2 = n2
PROPERTY ModeAsDocumented
CHECK_DEADLOCK FALSE
