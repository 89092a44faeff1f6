SPECIFICATION FairSpec
CONSTANTS
  Lines <- MCLines
  MaxFrames = 3
INVARIANTS
  OnlySent
  OnlySpoiledLost
PROPERTIES
  Arrives
CHECK_DEADLOCK FALSE
