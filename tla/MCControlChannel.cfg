SPECIFICATION Spec
CONSTANTS
  Node = {0, 1}
  AnchorCount = 1
  TelemetryTtl = 1
  RangeTtl = 1
  AltitudeTtl = 1
  SolveInterval = 2
  MinAnchorQuality = 0
  ClockMod = 6
  AltitudeValue = {1}
  IgnoreAltitude = TRUE
  AllowDeniedGnssAlt = FALSE
  RetainRange = TRUE
  EnableGnss = TRUE
  Heard = {1}
  RadioInput = {"telemetry", "range", "rangeFail", "quality"}
  TelemetryKind = {"gnss"}
  GnssUsable = {}
  Command <- OperatorCommand
  MockPeer <- MockOne
  InitialConfig <- BootDenied
  EmitterPeriod = 1
  MaxLag = 1
  Horizon = 8
  Lapping = FALSE
CONSTRAINT OperatorEarly
INVARIANTS
  TypeOK
  EstimatedNeverAnchors
  EvidenceTrulyFresh
  BeaconRecent
  AltitudeAlwaysFed
CHECK_DEADLOCK FALSE
