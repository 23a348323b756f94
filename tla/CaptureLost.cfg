SPECIFICATION FairSpec
CONSTANTS
  Faults <- NoFaults
  Running <- BothApps
  Requests <- CameraOnly
  ReloadPeriod = 2
  MaxRequests = 1
  MaxReboots = 0
PROPERTY DqbufReturns
CHECK_DEADLOCK FALSE
