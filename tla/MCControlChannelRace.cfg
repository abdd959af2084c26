SPECIFICATION Spec
CONSTANTS
  Node = {0, 1}
  AnchorCount = 1
  TelemetryTtl = 1
  RangeTtl = 1
  AltitudeTtl = 1
  SolveInterval = 1
  MinAnchorQuality = 0
  ClockMod = 100
  AltitudeValue = {1}
  IgnoreAltitude = TRUE
  AllowDeniedGnssAlt = FALSE
  RetainRange = TRUE
  EnableGnss = TRUE
  Heard = {1}
  RadioInput = {"telemetry", "range"}
  TelemetryKind = {"gnss"}
  GnssUsable = {}
  Command <- NoCommand
  MockPeer <- NoMock
  InitialConfig <- BootDenied
  EmitterPeriod = 1
  MaxLag = 1
  Horizon = 4
  Lapping = FALSE
PROPERTY FreshRangeSurvives
CHECK_DEADLOCK FALSE
