SPECIFICATION FairSpec
CONSTANTS
  Images <- AllImages
  Slow = TRUE
INVARIANTS
  TypeOK
  EndsWhole
  PictureReceived
PROPERTIES
  PictureArrives
  LinkSpec
CHECK_DEADLOCK FALSE
