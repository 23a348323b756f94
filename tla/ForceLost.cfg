SPECIFICATION FairSpec
CONSTANTS
  Faults <- NoFaults
  Running <- BothApps
  Requests <- OnOff
  ReloadPeriod = 2
  MaxRequests = 1
  MaxReboots = 0
PROPERTY ForceHonoured
CHECK_DEADLOCK FALSE
