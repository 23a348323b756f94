SPECIFICATION FairSpec
CONSTANTS
  Boxes <- SomeBoxes
  MaxBoxes = 3
  FaceFaults <- AllFaceFaults
  MaxFailures = 2
  MaxOthers = 1
INVARIANTS
  FaceTypeOK
  RegionInFrame
  SearchCovers
  CaptureHasMemory
  NmsIsGreedy
PROPERTIES
  FaceTaken
  FaceRecovers
CHECK_DEADLOCK FALSE
