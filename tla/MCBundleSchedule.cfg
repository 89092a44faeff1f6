SPECIFICATION FairSpec
CONSTANTS
  Now = Now
  ListSize = 3
  Period = 2
  Drifts <- MCDrifts
  Room = 2
  Immediate = Now
  Packets <- MCPackets
  MaxPackets = 4
  Horizon = 5
CHECK_DEADLOCK FALSE
INVARIANTS
  Counted
  InOnePlace
  OnTime
  OutputOrdered
PROPERTIES
  Served
  ImplementsCalendar
