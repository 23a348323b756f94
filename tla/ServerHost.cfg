SPECIFICATION FairSpec
CONSTANTS
  HostFaults <- AllHostFaults
  MaxConnects = 3
  MaxRequests = 3
INVARIANTS
  HostTypeOK
  OneReader
PROPERTIES
  RequestsTaken
  CloseEndsRun
CHECK_DEADLOCK FALSE
