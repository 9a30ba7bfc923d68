CONSTANTS
  Frames <- MCFrames
  MaxFrame = 3
  Short = 3
  LengthLen = 2
  MaskLen = 2
SPECIFICATION FairSpec
INVARIANTS
  TypeOK
  Exact
PROPERTIES
  ClosedRightly
  NothingWaits
CHECK_DEADLOCK FALSE
