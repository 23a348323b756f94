SPECIFICATION Spec
CONSTANTS
  Points <- FourPoints
  ZoneFaults <- NoZoneFaults
  MaxVisits = 1
  MaxRefusals = 0
  MaxReboots = 0
INVARIANT ZoneUsed
CHECK_DEADLOCK FALSE
