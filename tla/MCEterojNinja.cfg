SPECIFICATION FairSpec
CONSTANTS
  Inputs <- MCInputs
  RoomTo = 2
  RoomFrom = 1
  MaxEvents = 4
  MaxJobs = 1
INVARIANTS
  OwnConversion
  OutputOrdered
  InOnePlace
  WorkIsScheduled
PROPERTIES
  Delivered
