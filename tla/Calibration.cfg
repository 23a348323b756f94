SPECIFICATION Spec
CONSTANTS
  Points <- ThreePoints
  ZoneFaults <- AllZoneFaults
  MaxVisits = 2
  MaxRefusals = 1
  MaxReboots = 1
INVARIANTS
  CalibrationTypeOK
  StoredIsConfirmed
  OneSetting
  
  ClickOrderIrrelevant
  LowerLimitsRight
CHECK_DEADLOCK FALSE
