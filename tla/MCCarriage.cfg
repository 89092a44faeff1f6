SPECIFICATION Spec
CONSTANTS
  Packets <- MCPackets
  Midis <- MCMidis
  Atoms <- MCAtoms
  UriLen <- MCUriLen
  Map <- MCMap
  Rooms = {40, 120, 160, 400}
  BufSize = 36
  FmtSize = 9
  Payloads <- MCPayloads
  Others <- MCOthers
  MaxMessages = 3
  MaxWire = 1
INVARIANTS
  Carried
  RoomEnough
  PartIsBeginning
  Restored
  InPlace
  MidiFits
CHECK_DEADLOCK FALSE
