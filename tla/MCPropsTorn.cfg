SPECIFICATION Spec
CONSTANTS
  N = 1
  Writable = {1}
  Values = {a, b}
  Nothing = Nothing
  Hosts = {{"save"}}
  Concurrent = TRUE
INVARIANTS
  SavedWhole
