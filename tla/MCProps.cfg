SPECIFICATION FairSpec
CONSTANTS
  N = 2
  Writable = {1, 2}
  Values = {a, b}
  Nothing = Nothing
  Hosts = {{"save"}, {"restore"}}
  Concurrent = TRUE
INVARIANTS
  LaterIsNoticed
  StashFollows
  RestoreNoticed
PROPERTIES
  Settles
