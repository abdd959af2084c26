SPECIFICATION FairSpec
CONSTANTS
  Node = {0, 1}
  AnchorCount = 1
  TelemetryTtl = 1
  RangeTtl = 1
  AltitudeTtl = 1
  SolveInterval = 1
  MinAnchorQuality = 0
  ClockMod = 5
  AltitudeValue = {1}
  IgnoreAltitude = TRUE
  AllowDeniedGnssAlt = FALSE
  RetainRange = TRUE
  EnableGnss = TRUE
  Heard = {1}
  RadioInput = {}
  TelemetryKind = {"gnss"}
  GnssUsable = {TRUE}
  Command <- SwitchOffCommand
  MockPeer <- MockOne
  InitialConfig <- BootOn
  EmitterPeriod = 1
  MaxLag = 1
  Horizon = 4
  Lapping = TRUE
INVARIANTS
  DeniedGnssTransient
PROPERTIES
  GpsOffTakesEffect
  SilenceWithdraws
CHECK_DEADLOCK FALSE
