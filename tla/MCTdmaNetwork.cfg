SPECIFICATION Spec
CONSTANTS
  N = 3
  SlotTime = 8
  BeaconMin = 2
  RangeMin = 7
  Timeout = 50
  HeartbeatTime = 1
  BeaconTime = 3
  DebugTime = 1
  DebugMin = 4
  StartGuard = 3
  MasterTimeout = 4
  BusyTime = 16
  Backoff = 8
  Skews <- EarlyOrExact
  MaxLate = 1
  MaxDisturbance = 1
  RestartTimes = {5, 14, 26, 35, 42, 51}
  Horizon = 67
INVARIANTS
  TypeOK
  ExchangeExclusive
  PromptNeverCollide
  WaitingSilent
PROPERTY SlaveReady
CHECK_DEADLOCK FALSE
