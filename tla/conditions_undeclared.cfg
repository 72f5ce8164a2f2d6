CONSTANTS
  a = a
  b = b
  c = c
  none = none
  Name <- Names
  NoRef = none
  MaxClauses = 2
SPECIFICATION SpecGraph
SYMMETRY Symmetry
INVARIANT UndeclaredRejected
