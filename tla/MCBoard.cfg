SPECIFICATION Spec
CONSTANTS
  Faults <- AllFaults
  Running <- BothApps
  Requests <- AllRequests
  ReloadPeriod = 2
  MaxRequests = 2
  MaxReboots = 1
INVARIANTS
  TypeOK
  OpenCountExact
  DmaIntoHeldMemory
  QbufFindsContainer
  StreamExclusive
  NoTornPicture
  BackgroundLoaded
  RelayMatches
PROPERTIES
  ForcedInOrder
  MailboxSpec
  FaultNeedsWindow
CHECK_DEADLOCK FALSE
