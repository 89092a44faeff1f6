SPECIFICATION FairSpec
CONSTANTS
  Urls = {u, v, w}
  Long = {w}
  NoUrl = NoUrl
  Errors = {e}
  NoError = NoError
  RingSize = 2
  MaxSets = 3
  MaxJobs = 1
CHECK_DEADLOCK FALSE
INVARIANTS
  OneStream
  UrlOnItsWay
  HostKnows
PROPERTIES
  CatchesUp
