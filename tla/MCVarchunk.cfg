SPECIFICATION FairSpec
CONSTANTS
  Size = 64
  Requests = {1, 9, 24}
  Values = {a, b}
  Blank = Blank
  FillMax = FALSE
INVARIANTS
  WriterClear
  ReadsOldest
  EmptyRingAccepts
  MemoryIsQueue
PROPERTIES
  ImplementsQueue
  Progress
