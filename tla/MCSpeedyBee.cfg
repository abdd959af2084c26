SPECIFICATION Spec
CONSTANTS
  NodeCount = 3
  EspId = 1
  Assignable = {0, 2}
  ScanInterval = 7
  InitialDelay = 3
  TurnSpacing = 2
  HostTimeout = 2
  PeerGap = 1
  ListenWindow = 4
  SlaveSlice = 2
  DebugTtl = 3
  Wrap = 14
  Beacons <- MCBeacons
  Reports <- MCReports
  Ranges <- MCRanges
  Heartbeats <- MCHeartbeats
INVARIANTS
  TypeOK
  AddressIsIdentity
  PaFollowsChip
  HeardIsSaid
PROPERTIES
  QuietForHalfTheClock
  EveryPeerRanged
