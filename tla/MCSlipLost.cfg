SPECIFICATION Spec
CONSTANTS
  Lines <- MCUnbroken
  MaxFrames = 2
INVARIANTS
  NothingLost
CHECK_DEADLOCK FALSE
