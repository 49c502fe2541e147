CONSTANTS
  a = a
  b = b
  Subject <- MCSingle
  MaxCallers = 3
  Removable = {}
SPECIFICATION Spec
INVARIANTS
  ProjectionComesTrue
