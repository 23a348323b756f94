SPECIFICATION Spec
CONSTANTS
  Boxes <- SomeBoxes
  MaxBoxes = 1
  FaceFaults <- NoFaceFaults
  MaxFailures = 0
  MaxOthers = 1
INVARIANT NoDoubleFree
CHECK_DEADLOCK FALSE
