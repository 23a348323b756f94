SPECIFICATION FairSpec
CONSTANTS
  Faults <- NoFaults
  Running <- BothApps
  Requests <- OnOnly
  ReloadPeriod = 2
  MaxRequests = 2
  MaxReboots = 1
INVARIANT FrameIsCaptured
PROPERTIES
  SwitchConsumed
  GuardGoesOn
CHECK_DEADLOCK FALSE
