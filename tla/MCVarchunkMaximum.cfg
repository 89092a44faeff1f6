SPECIFICATION Spec
CONSTANTS
  Size = 64
  Requests = {0, 9, 24}
  Values = {a, b}
  Blank = Blank
  FillMax = TRUE
SYMMETRY Payloads
INVARIANT
  WriterClear
