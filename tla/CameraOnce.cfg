SPECIFICATION FairSpec
CONSTANTS
  Faults <- NoFaults
  Running <- WebOnly
  Requests <- CameraOnly
  ReloadPeriod = 2
  MaxRequests = 1
  MaxReboots = 0
PROPERTY CameraAnswered
CHECK_DEADLOCK FALSE
