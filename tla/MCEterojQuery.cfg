SPECIFICATION FairSpec
CONSTANTS
  root = root
  dir = dir
  m1 = m1
  m2 = m2
  Nodes <- MCNodes
  Root = root
  Items <- MCItems
  Methods <- MCMethods
  RbSize = 2
  MaxRefresh = 2
  MaxGets = 1
INVARIANTS
  NothingOverlooked
PROPERTIES
  Discovered
